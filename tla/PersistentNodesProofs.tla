----------------------- MODULE PersistentNodesProofs -----------------------
(* The node layer is a client of the abstract store: whatever the chain     *)
(* holds, each of its steps is a step the store allows.  With PersistentMem *)
(* implementing the store, this is what lets PersistentNodes be read        *)
(* without the flash below it.  And what its writes make of the chain is    *)
(* what NodeMap says they make of the map, for every size of the array.     *)
EXTENDS PersistentNodes, WellFoundedInduction, TLAPS

(* A call that logs something asks the store for one write, with the store  *)
(* idle; a call that would log nothing leaves the store alone.              *)
LEMMA LogIsRequest ==
    ASSUME NEW start, NEW data, Entered, Log(start, data)
    PROVE  [Array!ANext]_(Array!avars)
<1>1. /\ pending = Idle /\ UNCHANGED store
      /\ pending' = [start |-> start, data |-> data, cut |-> FALSE]
  BY DEF Entered, Log
<1>2. ~pending'.cut
  BY <1>1
<1>3. CASE pending' = Idle
  BY <1>1, <1>3 DEF Array!avars
<1>4. CASE pending' # Idle
  BY <1>1, <1>2, <1>4 DEF Array!ANext, Array!Request
<1>5. QED
  BY <1>3, <1>4

(* No node call reaches the array but through a write of AtomicStore, no    *)
(* two of its writes overlap, and a power cut is passed on to the write it  *)
(* hits: the specification of the node ioctls implements that of the store, *)
(* for every size of the array and every set of ids and sizes.              *)
THEOREM UsesStore == Spec => Array!ASpec
<1>1. Init => Array!AInit
  BY DEF Init
<1>2. [Next]_vars => [Array!ANext]_(Array!avars)
  <2> SUFFICES ASSUME [Next]_vars
               PROVE  [Array!ANext]_(Array!avars)
    OBVIOUS
  <2>1. ASSUME NEW id \in Ids, NEW b \in Sizes, NodeCreate(id, b)
        PROVE  [Array!ANext]_(Array!avars)
    BY <2>1, LogIsRequest DEF NodeCreate
  <2>2. ASSUME NEW id \in Ids, NodeDelete(id)
        PROVE  [Array!ANext]_(Array!avars)
    BY <2>2, LogIsRequest DEF NodeDelete
  <2>3. ASSUME NEW id \in Ids, NEW o \in 0 .. Words, NEW n \in 1 .. Words,
               NodePut(id, o, n)
        PROVE  [Array!ANext]_(Array!avars)
    BY <2>3, LogIsRequest DEF NodePut
  <2>4. CASE MarkInvalid
    BY <2>4 DEF MarkInvalid, Array!avars
  <2>5. CASE Written
    BY <2>5 DEF Written, Array!ANext
  <2>6. CASE Reboot
    BY <2>6 DEF Reboot, Array!ANext, Array!avars
  <2>7. CASE UNCHANGED vars
    BY <2>7 DEF vars, Array!avars
  <2>8. QED
    BY <2>1, <2>2, <2>3, <2>4, <2>5, <2>6, <2>7 DEF Next
<1>3. QED
  BY <1>1, <1>2, PTL DEF Spec, Array!ASpec

-----------------------------------------------------------------------------
(* What node_find finds.                                                    *)

\* A set of naturals that has an element has a least one.
LEMMA Least ==
  ASSUME NEW T \in SUBSET Nat, T # {}
  PROVE  \E m \in T : \A k \in T : m =< k
  <1>1. PICK m \in T : \A k \in T : <<k, m>> \notin OpToRel(<, Nat)
    BY WFMin, NatLessThanWellFounded
  <1>2. \A k \in T : ~ (k < m)
    BY <1>1 DEF OpToRel
  <1> QED BY <1>2

\* An array of headers and data.
Types(s) == s \in [0 .. Words - 1 -> Nat \X (0 .. Words)]

\* node_find is what its loop computes: there is a function of the place it
\* stands at that satisfies the recursion.
LEMMA FindIsLoop ==
  ASSUME NEW s, Types(s), NEW id
  PROVE  \E f : /\ f = [p \in 0 .. 2 * Words |-> 
                          IF p >= Words THEN NULL
                          ELSE IF Id(s, p) = id THEN p
                          ELSE IF Id(s, p) = 0 THEN NULL
                          ELSE f[After(s, p)]]
                /\ node_find(s, id) = f[0]
  <1> DEFINE D == 0 .. 2 * Words
             B(f, p) == IF p >= Words THEN NULL
                        ELSE IF Id(s, p) = id THEN p
                        ELSE IF Id(s, p) = 0 THEN NULL
                        ELSE f[After(s, p)]
             T == {m \in D : \E f : /\ f = [p \in D |-> f[p]]
                                    /\ \A p \in m .. 2 * Words : f[p] = B(f, p)}
  <1>1. Words \in Nat /\ \A p \in 0 .. Words - 1 : After(s, p) \in D /\ p < After(s, p)
    BY NodesAssumption DEF Types, After, Size
  <1>2. 2 * Words \in T
    <2> DEFINE f == [p \in D |-> NULL]
    <2>1. f = [p \in D |-> f[p]] /\ \A p \in 2 * Words .. 2 * Words : f[p] = B(f, p)
      BY <1>1, NodesAssumption
    <2> QED BY <1>1, <2>1
  <1>3. PICK m \in T : \A k \in T : m =< k
    <2>1. T \in SUBSET Nat /\ T # {}
      BY <1>1, <1>2
    <2> HIDE DEF T
    <2> QED BY <2>1, Least
  <1>4. m = 0
    <2> SUFFICES ASSUME m # 0 PROVE FALSE
      OBVIOUS
    <2>1. PICK f : /\ f = [p \in D |-> f[p]]
                   /\ \A p \in m .. 2 * Words : f[p] = B(f, p)
      OBVIOUS
    <2>2. m - 1 \in D /\ m \in D
      BY <1>1
    <2> DEFINE g == [p \in D |-> IF p = m - 1 THEN B(f, m - 1) ELSE f[p]]
    <2>3. g = [p \in D |-> g[p]]
      OBVIOUS
    <2>4. ASSUME NEW p \in m - 1 .. 2 * Words PROVE g[p] = B(g, p)
      <3>1. p \in D /\ (p < Words => /\ After(s, p) \in D /\ After(s, p) # m - 1
                                     /\ g[After(s, p)] = f[After(s, p)])
        BY <1>1, <2>2
      <3>2. B(g, p) = B(f, p)
        BY <1>1, <3>1
      <3> HIDE DEF B
      <3>3. CASE p = m - 1
        BY <3>1, <3>2, <3>3
      <3>4. CASE p \in m .. 2 * Words
        BY <2>1, <2>2, <3>1, <3>2, <3>4
      <3> QED BY <2>2, <3>3, <3>4
    <2>5. m - 1 \in T
      <3> HIDE DEF B, g
      <3> QED BY <2>2, <2>3, <2>4
    <2> QED BY <1>3, <2>2, <2>5
  <1>5. \E f : f = [p \in D |-> B(f, p)]
    <2>1. PICK f : /\ f = [p \in D |-> f[p]]
                   /\ \A p \in 0 .. 2 * Words : f[p] = B(f, p)
      BY <1>4
    <2>2. f = [p \in D |-> B(f, p)]
      <3> HIDE DEF B
      <3> QED BY <2>1
    <2> QED BY <2>2
  <1> DEFINE F == CHOOSE f : f = [p \in D |-> B(f, p)]
  <1>6. F = [p \in D |-> B(F, p)]
    <2> HIDE DEF B
    <2> QED BY <1>5
  <1>7. node_find(s, id) = F[0]
    BY DEF node_find
  <1> HIDE DEF F
  <1> QED BY <1>6, <1>7

\* H is where the records of the array begin and e is the end of the chain:
\* the records follow each other from 0 to e without a gap, no two have one
\* id, and from e on nothing is used.
Chain(s, H, e) ==
  /\ e \in 0 .. Words - 1 /\ H \subseteq 0 .. e - 1
  /\ 0 \in H \cup {e}
  /\ \A h \in H : Id(s, h) \in Ids /\ After(s, h) \in H \cup {e}
  /\ \A g, h \in H : g < h => After(s, g) =< h
  /\ \A g, h \in H : Id(s, g) = Id(s, h) => g = h
  /\ \A a \in e .. Words - 1 : s[a] = Unused

\* The loop of node_find goes from record to record: it stops at the one with
\* the id, or at the end of the chain.
LEMMA ChainFollowed ==
  ASSUME NEW s, Types(s), NEW H, NEW e, Chain(s, H, e), NEW id
  PROVE  /\ \A h \in H : Id(s, h) = id => node_find(s, id) = h
         /\ (\A h \in H : Id(s, h) # id) =>
               node_find(s, id) = IF id = 0 THEN e ELSE NULL
  <1> DEFINE D == 0 .. 2 * Words
             B(f, p) == IF p >= Words THEN NULL
                        ELSE IF Id(s, p) = id THEN p
                        ELSE IF Id(s, p) = 0 THEN NULL
                        ELSE f[After(s, p)]
  <1>1. PICK f : f = [p \in D |-> B(f, p)] /\ node_find(s, id) = f[0]
    BY FindIsLoop
  <1> DEFINE Here(p) == {h \in H : p =< h /\ Id(s, h) = id}
             Goal(p) == /\ \A h \in Here(p) : f[p] = h
                        /\ Here(p) = {} => f[p] = IF id = 0 THEN e ELSE NULL
             P == H \cup {e}
  <1>2. /\ Words \in Nat /\ P \subseteq 0 .. Words - 1 /\ P \subseteq D /\ 0 \in P
        /\ e \in 0 .. Words - 1 /\ H \subseteq Nat
        /\ \A h \in H : h < e /\ h < After(s, h) /\ Id(s, h) # 0 /\ After(s, h) \in P
    BY NodesAssumption DEF Types, Chain, After, Size
  <1>p. \A p \in P : p \in Nat /\ p =< e
    <2>1. \A h \in H : h \in Nat /\ h =< e
      BY <1>2
    <2> QED BY <1>2, <2>1
  <1>3. Goal(e)
    <2>1. Here(e) = {}
      <3>1. \A h \in H : ~ (e =< h)
        BY <1>2
      <3> QED BY <3>1
    <2>2. Id(s, e) = 0
      BY <1>2 DEF Chain, Unused, Id
    <2>3. f[e] = B(f, e)
      <3> HIDE DEF B
      <3> QED BY <1>1, <1>2
    <2>4. f[e] = IF id = 0 THEN e ELSE NULL
      BY <1>2, <2>2, <2>3
    <2> HIDE DEF Here
    <2> QED BY <2>1, <2>4
  <1>4. ASSUME NEW p \in H, Goal(After(s, p)) PROVE Goal(p)
    <2>1. p \in 0 .. Words - 1 /\ p \in D /\ p < After(s, p) /\ Id(s, p) # 0
      BY <1>2
    <2>2. f[p] = B(f, p)
      <3> HIDE DEF B
      <3> QED BY <1>1, <2>1
    <2>3. CASE Id(s, p) = id
      <3>1. f[p] = p
        BY <1>2, <2>1, <2>2, <2>3
      <3>2. p \in Here(p)
        BY <2>1, <2>3
      <3>3. \A h \in H : Id(s, h) = id => h = p
        BY <2>3 DEF Chain
      <3>4. Here(p) = {p}
        BY <3>2, <3>3
      <3> QED BY <3>1, <3>4
    <2>4. CASE Id(s, p) # id
      <3>1. f[p] = f[After(s, p)]
        BY <1>2, <2>1, <2>2, <2>4
      <3>2. Here(p) = Here(After(s, p))
        <4>1. \A h \in H : p =< h /\ Id(s, h) = id => After(s, p) =< h
          BY <1>2, <2>4 DEF Chain
        <4>2. \A h \in H : After(s, p) =< h => p =< h
          <5>1. p \in Nat /\ After(s, p) \in Nat
            BY <1>2, <1>p
          <5>2. \A h \in H : h \in Nat
            BY <1>2
          <5> QED BY <2>1, <5>1, <5>2
        <4> QED BY <4>1, <4>2
      <3> HIDE DEF Here
      <3> QED BY <1>4, <3>1, <3>2
    <2> QED BY <2>3, <2>4
  <1>5. \A p \in P : Goal(p)
    <2> DEFINE T == {n \in Nat : \E p \in P : n = e - p /\ ~ Goal(p)}
    <2> SUFFICES ASSUME NEW p \in P, ~ Goal(p) PROVE FALSE
      OBVIOUS
    <2> HIDE DEF Goal
    <2>1. T \in SUBSET Nat /\ e - p \in T
      BY <1>2
    <2>2. PICK m \in T : \A k \in T : m =< k
      <3> HIDE DEF T
      <3> QED BY <2>1, Least
    <2>3. PICK h \in P : m = e - h /\ ~ Goal(h)
      OBVIOUS
    <2>4. h \in H
      BY <1>3, <2>3
    <2>5. After(s, h) \in P /\ ~ Goal(After(s, h))
      BY <1>2, <1>4, <2>3, <2>4
    <2>6. e - After(s, h) \in Nat /\ e - After(s, h) < e - h
      <3>1. /\ e \in Nat /\ h \in Nat /\ After(s, h) \in Nat
            /\ h < After(s, h) /\ After(s, h) =< e
        BY <1>2, <1>p, <2>4, <2>5
      <3> QED BY <3>1
    <2>7. e - After(s, h) \in T
      BY <2>5, <2>6
    <2>8. m \in Int /\ ~ (m =< e - After(s, h))
      BY <1>2, <2>3, <2>4, <2>6
    <2> QED BY <2>2, <2>7, <2>8
  <1>6. Goal(0) /\ \A h \in H : 0 =< h
    BY <1>2, <1>5
  <1> HIDE DEF B
  <1> QED BY <1>1, <1>6

\* A record lies in front of the end.
LEMMA ChainBounds ==
  ASSUME NEW s, Types(s), NEW H, NEW e, Chain(s, H, e)
  PROVE  \A h \in H : /\ h \in Nat /\ h < e /\ h \in 0 .. Words - 1
                      /\ Size(s, h) \in Nat /\ After(s, h) = h + 1 + Size(s, h)
                      /\ After(s, h) \in Nat /\ After(s, h) =< e
  <1> SUFFICES ASSUME NEW h \in H
               PROVE  /\ h \in Nat /\ h < e /\ h \in 0 .. Words - 1
                      /\ Size(s, h) \in Nat /\ After(s, h) = h + 1 + Size(s, h)
                      /\ After(s, h) \in Nat /\ After(s, h) =< e
    OBVIOUS
  <1>1. /\ Words \in Nat /\ e \in 0 .. Words - 1 /\ H \subseteq 0 .. e - 1
        /\ After(s, h) \in H \cup {e}
    BY NodesAssumption DEF Chain
  <1>2. h \in Nat /\ h < e /\ h \in 0 .. Words - 1
    BY <1>1
  <1>3. s[h] \in Nat \X (0 .. Words)
    BY <1>2 DEF Types
  <1>4. Size(s, h) \in 0 .. Words
    BY <1>3 DEF Size
  <1>5. Size(s, h) \in Nat /\ After(s, h) = h + 1 + Size(s, h)
    BY <1>1, <1>4 DEF After
  <1>6. After(s, h) =< e
    <2>1. \A g \in H : g =< e
      BY <1>1
    <2>2. e =< e
      BY <1>1
    <2> QED BY <1>1, <2>1, <2>2
  <1> QED BY <1>2, <1>5, <1>6

\* Where the records are tells what the map of the chain holds.
LEMMA ChainRecords ==
  ASSUME NEW s, Types(s), NEW H, NEW e, Chain(s, H, e)
  PROVE  /\ node_find(s, 0) = e
         /\ Stored(s) = {Id(s, h) : h \in H}
         /\ \A h \in H : /\ node_find(s, Id(s, h)) = h
                         /\ Records(s)[Id(s, h)] = [k \in 1 .. Size(s, h) |-> s[h + k]]
         /\ \A id \in Stored(s) : node_find(s, id) \in H /\ Id(s, node_find(s, id)) = id
  <1>1. /\ 0 \notin Ids /\ \A h \in H : h # NULL /\ Id(s, h) \in Ids
        /\ \A h \in H : Id(s, h) # 0
    BY NodesAssumption DEF Chain, NULL
  <1>2. \A h \in H : node_find(s, Id(s, h)) = h
    BY ChainFollowed
  <1>3. node_find(s, 0) = e
    BY <1>1, ChainFollowed
  <1>4. \A id : id # 0 /\ node_find(s, id) # NULL =>
           node_find(s, id) \in H /\ Id(s, node_find(s, id)) = id
    <2> SUFFICES ASSUME NEW id, id # 0, node_find(s, id) # NULL
                 PROVE  node_find(s, id) \in H /\ Id(s, node_find(s, id)) = id
      OBVIOUS
    <2>1. PICK h \in H : Id(s, h) = id
      BY ChainFollowed
    <2> QED BY <1>2, <2>1
  <1>5. Stored(s) = {Id(s, h) : h \in H}
    BY <1>1, <1>2, <1>4 DEF Stored
  <1>6. \A h \in H : Records(s)[Id(s, h)] = [k \in 1 .. Size(s, h) |-> s[h + k]]
    <2> SUFFICES ASSUME NEW h \in H
                 PROVE  Records(s)[Id(s, h)] = [k \in 1 .. Size(s, h) |-> s[h + k]]
      OBVIOUS
    <2>1. Id(s, h) \in Stored(s)
      BY <1>5
    <2>2. Records(s)[Id(s, h)] = Record(s, Id(s, h))
      BY <2>1 DEF Records
    <2> QED BY <1>2, <2>2 DEF Record
  <1>7. \A id \in Stored(s) : node_find(s, id) \in H /\ Id(s, node_find(s, id)) = id
    BY <1>1, <1>4 DEF Stored
  <1> QED BY <1>2, <1>3, <1>5, <1>6, <1>7

-----------------------------------------------------------------------------
(* The three writes, on an array s with records H and end e.               *)

\* A header at the end of the chain, for an id that is not in it.
Creates(s, w, id, n) ==
  /\ id \in Ids /\ n \in Nat
  /\ node_find(s, id) = NULL /\ HasRoom(node_find(s, 0), n)
  /\ w.start = node_find(s, 0) /\ w.data = <<<<id, n>>>>

\* The records behind one moved up over it.
Deletes(s, w, id) ==
  LET p == node_find(s, id) IN
  /\ id \in Ids /\ p # NULL
  /\ w.start = p /\ w.data = ClosedUp(s, p, After(s, p), node_find(s, 0))

\* Some words of one record.
Puts(s, w, id, offset, n, datum) ==
  LET p == node_find(s, id) IN
  /\ id \in Ids /\ p # NULL
  /\ offset \in Nat /\ n \in Nat \ {0} /\ datum \in Nat /\ offset + n =< Size(s, p)
  /\ w.start = p + 1 + offset /\ w.data = [i \in 1 .. n |-> <<datum, 0>>]

\* What becomes of s when a record of n words is added to it.
Created(s, t, H, e, id, n) ==
  /\ Types(t) /\ Chain(t, H \cup {e}, e + 1 + n)
  /\ id \notin DOMAIN Records(s)
  /\ Records(t) = [i \in DOMAIN Records(s) \cup {id} |->
                     IF i = id THEN [k \in 1 .. n |-> Unused] ELSE Records(s)[i]]

\* A create lengthens the chain by a record of unused words.
LEMMA CreateKeeps ==
  ASSUME NEW s, Types(s), NEW H, NEW e, Chain(s, H, e),
         NEW w, NEW id, NEW n, Creates(s, w, id, n)
  PROVE  Created(s, Array!Applied(s, w), H, e, id, n)
  <1> DEFINE t == Array!Applied(s, w)
             X == 0 .. Words - 1
             G == H \cup {e}
             z == e + 1 + n
  <1>1. /\ Words \in Nat /\ 0 \notin Ids /\ Ids \subseteq Nat /\ n \in Nat /\ id \in Ids
        /\ e \in X /\ H \subseteq 0 .. e - 1 /\ z \in X /\ z = e + 1 + n
        /\ w.start = e /\ w.data = <<<<id, n>>>>
    <2>1. node_find(s, 0) = e
      BY ChainRecords
    <2>2. Words \in Nat /\ 0 \notin Ids /\ Ids \subseteq Nat /\ n \in Nat /\ id \in Ids
      BY NodesAssumption DEF Creates
    <2>3. e \in X /\ H \subseteq 0 .. e - 1
      BY DEF Chain
    <2>4. e + 1 + n < Words /\ w.start = e /\ w.data = <<<<id, n>>>>
      BY <2>1 DEF Creates, HasRoom
    <2>5. z \in X
      BY <2>2, <2>3, <2>4
    <2> QED BY <2>2, <2>3, <2>4, <2>5
  <1>2. t = [a \in X |-> IF a = e THEN <<id, n>> ELSE s[a]]
    <2>1. Len(w.data) = 1 /\ w.data[1] = <<id, n>>
      BY <1>1
    <2>2. Array!Fits(w)
      BY <1>1, <2>1 DEF Array!Fits
    <2>3. \A a \in X : a \in w.start .. w.start + Len(w.data) - 1 <=> a = e
      BY <1>1, <2>1
    <2> QED BY <1>1, <2>1, <2>2, <2>3 DEF Array!Applied
  <1> HIDE DEF t
  <1>3. Types(t)
    BY <1>1, <1>2, SMTT(60) DEF Types
  <1>4. /\ \A h \in H : Id(t, h) = Id(s, h) /\ Size(t, h) = Size(s, h) /\ After(t, h) = After(s, h)
        /\ Id(t, e) = id /\ Size(t, e) = n /\ After(t, e) = z
    <2>1. \A h \in H : h \in X /\ h # e
      BY <1>1
    <2>2. \A h \in H : t[h] = s[h]
      BY <1>2, <2>1
    <2>3. t[e] = <<id, n>>
      BY <1>1, <1>2
    <2> QED BY <1>1, <2>2, <2>3 DEF Id, Size, After
  <1>5. \A h \in H : Id(s, h) # id
    BY <1>1, ChainRecords DEF Creates, Stored
  <1>6. \A h \in H : /\ h \in Nat /\ After(s, h) \in Nat /\ After(s, h) =< e /\ h < e
                     /\ Size(s, h) \in Nat /\ After(s, h) = h + 1 + Size(s, h)
    BY ChainBounds
  <1>7. Chain(t, G, z)
    <2>1. z \in X /\ G \subseteq 0 .. z - 1 /\ 0 \in G \cup {z}
      BY <1>1 DEF Chain
    <2>2. \A h \in G : Id(t, h) \in Ids /\ After(t, h) \in G \cup {z}
      BY <1>1, <1>4 DEF Chain
    <2>3. \A g, h \in G : g < h => After(t, g) =< h
      <3>1. \A g, h \in H : g < h => After(t, g) =< h
        BY <1>4 DEF Chain
      <3> QED BY <1>1, <1>4, <1>6, <3>1
    <2>4. \A g, h \in G : Id(t, g) = Id(t, h) => g = h
      <3>1. \A g, h \in H : Id(t, g) = Id(t, h) => g = h
        BY <1>4 DEF Chain
      <3> QED BY <1>4, <1>5, <3>1
    <2>5. \A a \in z .. Words - 1 : t[a] = Unused
      <3>1. \A a \in z .. Words - 1 : a \in X /\ a # e /\ a \in e .. Words - 1
        BY <1>1
      <3> QED BY <1>2, <3>1 DEF Chain
    <2> QED BY <2>1, <2>2, <2>3, <2>4, <2>5 DEF Chain
  <1>8. Stored(t) = Stored(s) \cup {id} /\ id \notin Stored(s)
    <2>1. Stored(t) = {Id(t, h) : h \in G}
      BY <1>3, <1>7, ChainRecords
    <2>2. Stored(s) = {Id(s, h) : h \in H}
      BY ChainRecords
    <2> QED BY <1>4, <1>5, <2>1, <2>2
  <1>9. Records(t)[id] = [k \in 1 .. n |-> Unused]
    <2>1. Records(t)[id] = [k \in 1 .. n |-> t[e + k]]
      BY <1>3, <1>4, <1>7, ChainRecords
    <2>2. \A k \in 1 .. n : e + k \in X /\ e + k # e /\ e + k \in e .. Words - 1
      BY <1>1
    <2>3. \A k \in 1 .. n : t[e + k] = Unused
      BY <1>2, <2>2 DEF Chain
    <2> QED BY <2>1, <2>3
  <1>10. \A i \in Stored(s) : Records(t)[i] = Records(s)[i]
    <2> SUFFICES ASSUME NEW h \in H PROVE Records(t)[Id(s, h)] = Records(s)[Id(s, h)]
      BY ChainRecords
    <2>1. Records(t)[Id(s, h)] = [k \in 1 .. Size(s, h) |-> t[h + k]]
      BY <1>3, <1>4, <1>7, ChainRecords
    <2>2. Records(s)[Id(s, h)] = [k \in 1 .. Size(s, h) |-> s[h + k]]
      BY ChainRecords
    <2>3. \A k \in 1 .. Size(s, h) : h + k \in X /\ h + k # e
      BY <1>1, <1>6
    <2>4. \A k \in 1 .. Size(s, h) : t[h + k] = s[h + k]
      BY <1>2, <2>3
    <2> QED BY <2>1, <2>2, <2>4
  <1>11. DOMAIN Records(s) = Stored(s) /\ DOMAIN Records(t) = Stored(t)
         /\ Records(t) = [i \in Stored(t) |-> Records(t)[i]]
    BY DEF Records
  <1>12. Records(t) = [i \in Stored(s) \cup {id} |->
                         IF i = id THEN [k \in 1 .. n |-> Unused] ELSE Records(s)[i]]
    BY <1>8, <1>9, <1>10, <1>11
  <1> QED BY <1>3, <1>7, <1>8, <1>11, <1>12 DEF t, Created

\* A put changes words of one record and no header.
LEMMA PutKeeps ==
  ASSUME NEW s, Types(s), NEW H, NEW e, Chain(s, H, e),
         NEW w, NEW id, NEW o, NEW n, NEW c, Puts(s, w, id, o, n, c)
  PROVE  LET t == Array!Applied(s, w) IN
         /\ Types(t) /\ Chain(t, H, e)
         /\ id \in DOMAIN Records(s) /\ {o + 1, o + n} \subseteq DOMAIN Records(s)[id]
         /\ DOMAIN Records(t) = DOMAIN Records(s)
         /\ Records(t)[id][o + 1] = <<c, 0>>
         /\ Records(t) = [Records(s) EXCEPT ![id] =
                            [k \in DOMAIN @ |-> IF k \in o + 1 .. o + n THEN <<c, 0>> ELSE @[k]]]
  <1> DEFINE t == Array!Applied(s, w)
             X == 0 .. Words - 1
             p == node_find(s, id)
             Z == p + 1 + o .. p + o + n
  <1>1. /\ p \in H /\ Id(s, p) = id /\ id \in Stored(s)
        /\ o \in Nat /\ n \in Nat \ {0} /\ c \in Nat /\ o + n =< Size(s, p)
        /\ w.start = p + 1 + o /\ w.data = [i \in 1 .. n |-> <<c, 0>>]
    BY ChainRecords DEF Puts, Stored
  <1> HIDE DEF p
  <1>2. \A h \in H : /\ h \in Nat /\ h < e /\ h \in X
                     /\ Size(s, h) \in Nat /\ After(s, h) = h + 1 + Size(s, h)
                     /\ After(s, h) \in Nat /\ After(s, h) =< e
    BY ChainBounds
  <1>3. Words \in Nat /\ e \in X
    BY NodesAssumption DEF Chain
  <1>4. /\ p \in Nat /\ p + o + n < After(s, p) /\ After(s, p) =< e
        /\ \A a \in Z : a \in Nat /\ p < a /\ a < After(s, p) /\ a < e /\ a \in X
    BY <1>1, <1>2, <1>3
  <1>5. t = [a \in X |-> IF a \in Z THEN <<c, 0>> ELSE s[a]]
    <2>1. Len(w.data) = n /\ \A i \in 1 .. n : w.data[i] = <<c, 0>>
      BY <1>1
    <2>2. Array!Fits(w)
      <3>1. \A k \in 1 .. n : p + 1 + o + k - 1 \in Z
        BY <1>1, <1>4
      <3> QED BY <1>1, <1>4, <2>1, <3>1 DEF Array!Fits
    <2>3. w.start .. w.start + Len(w.data) - 1 = Z
      BY <1>1, <1>4, <2>1
    <2>4. \A a \in Z : w.data[a - w.start + 1] = <<c, 0>>
      <3>1. \A a \in Z : a - (p + 1 + o) + 1 \in 1 .. n
        BY <1>1, <1>4
      <3> QED BY <1>1, <2>1, <3>1
    <2> QED BY <2>2, <2>3, <2>4 DEF Array!Applied
  <1> HIDE DEF t
  <1>6. Types(t)
    <2>1. <<c, 0>> \in Nat \X (0 .. Words)
      BY <1>1, <1>3
    <2> QED BY <1>5, <2>1 DEF Types
  <1>7. \A h \in H : h \notin Z
    <2> SUFFICES ASSUME NEW h \in H, h \in Z PROVE FALSE
      OBVIOUS
    <2>1. p < h => After(s, p) =< h
      BY <1>1 DEF Chain
    <2>2. p < h /\ h < After(s, p) /\ h \in Nat /\ After(s, p) \in Nat
      <3> HIDE DEF Z
      <3> QED BY <1>1, <1>2, <1>4
    <2> QED BY <2>1, <2>2
  <1>8. \A h \in H : Id(t, h) = Id(s, h) /\ Size(t, h) = Size(s, h) /\ After(t, h) = After(s, h)
    <2>1. \A h \in H : t[h] = s[h]
      BY <1>2, <1>5, <1>7
    <2> QED BY <2>1 DEF Id, Size, After
  <1>9. Chain(t, H, e)
    <2>1. \A a \in e .. Words - 1 : t[a] = s[a]
      <3>1. \A a \in e .. Words - 1 : a \in X /\ a \notin Z
        BY <1>3, <1>4
      <3> QED BY <1>5, <3>1
    <2> QED BY <1>8, <2>1 DEF Chain
  <1>10. Stored(t) = Stored(s)
    <2>1. Stored(t) = {Id(t, h) : h \in H} /\ Stored(s) = {Id(s, h) : h \in H}
      BY <1>6, <1>9, ChainRecords
    <2> QED BY <1>8, <2>1
  <1>11. \A h \in H : /\ Records(s)[Id(s, h)] = [k \in 1 .. Size(s, h) |-> s[h + k]]
                      /\ Records(t)[Id(s, h)] = [k \in 1 .. Size(s, h) |-> t[h + k]]
    BY <1>6, <1>8, <1>9, ChainRecords
  <1>12. Records(t)[id] = [k \in 1 .. Size(s, p) |->
                             IF k \in o + 1 .. o + n THEN <<c, 0>> ELSE s[p + k]]
    <2>1. \A k \in 1 .. Size(s, p) : /\ p + k \in X
                                     /\ p + k \in Z <=> k \in o + 1 .. o + n
      <3>1. /\ Size(s, p) \in Nat /\ After(s, p) = p + 1 + Size(s, p) /\ e =< Words
            /\ p \in Nat /\ o \in Nat /\ n \in Nat /\ After(s, p) =< e
            /\ e \in Nat /\ Words \in Nat
        BY <1>1, <1>2, <1>3, <1>4
      <3>2. \A k \in 1 .. Size(s, p) : p + k \in X
        BY <3>1
      <3>3. \A k \in 1 .. Size(s, p) : p + k \in Z <=> k \in o + 1 .. o + n
        BY <3>1
      <3> HIDE DEF X, Z
      <3> QED BY <3>2, <3>3
    <2>2. \A k \in 1 .. Size(s, p) :
             t[p + k] = IF k \in o + 1 .. o + n THEN <<c, 0>> ELSE s[p + k]
      <3> SUFFICES ASSUME NEW k \in 1 .. Size(s, p)
                   PROVE  t[p + k] = IF k \in o + 1 .. o + n THEN <<c, 0>> ELSE s[p + k]
        OBVIOUS
      <3> HIDE DEF X, Z
      <3>1. t[p + k] = IF p + k \in Z THEN <<c, 0>> ELSE s[p + k]
        BY <1>5, <2>1
      <3>2. p + k \in Z <=> k \in o + 1 .. o + n
        BY <2>1
      <3> QED BY <3>1, <3>2
    <2>3. Records(t)[id] = [k \in 1 .. Size(s, p) |-> t[p + k]]
      BY <1>1, <1>11
    <2> QED BY <2>2, <2>3
  <1>13. \A i \in Stored(s) \ {id} : Records(t)[i] = Records(s)[i]
    <2> SUFFICES ASSUME NEW h \in H, h # p
                 PROVE  Records(t)[Id(s, h)] = Records(s)[Id(s, h)]
      BY <1>1, ChainRecords
    <2>1. \A k \in 1 .. Size(s, h) : h + k \in X /\ h + k \notin Z
      <3>1. (p < h => After(s, p) =< h) /\ (h < p => After(s, h) =< p)
        BY <1>1 DEF Chain
      <3>2. \A k \in 1 .. Size(s, h) : h + k \in X /\ h < h + k /\ h + k < After(s, h)
        BY <1>2, <1>3
      <3> SUFFICES ASSUME NEW k \in 1 .. Size(s, h), h + k \in Z PROVE FALSE
        BY <3>2
      <3>3. p < h + k /\ h + k < After(s, p) /\ h + k < After(s, h) /\ h < h + k
        BY <1>4, <3>2
      <3>4. /\ h \in Nat /\ p \in Nat /\ h + k \in Nat
            /\ After(s, h) \in Nat /\ After(s, p) \in Nat
        BY <1>1, <1>2, <1>4
      <3> HIDE DEF Z
      <3> QED BY <3>1, <3>3, <3>4
    <2>2. \A k \in 1 .. Size(s, h) : t[h + k] = s[h + k]
      <3> HIDE DEF X, Z
      <3> QED BY <1>5, <2>1
    <2>3. /\ Records(t)[Id(s, h)] = [k \in 1 .. Size(s, h) |-> t[h + k]]
          /\ Records(s)[Id(s, h)] = [k \in 1 .. Size(s, h) |-> s[h + k]]
      BY <1>11
    <2> QED BY <2>2, <2>3
  <1>14. /\ DOMAIN Records(s) = Stored(s) /\ DOMAIN Records(t) = Stored(t)
         /\ Records(t) = [i \in Stored(t) |-> Records(t)[i]]
         /\ Records(s) = [i \in Stored(s) |-> Records(s)[i]]
    BY DEF Records
  <1>15. /\ Records(s)[id] = [k \in 1 .. Size(s, p) |-> s[p + k]]
         /\ DOMAIN Records(s)[id] = 1 .. Size(s, p)
    BY <1>1, <1>11
  <1>16. {o + 1, o + n} \subseteq 1 .. Size(s, p) /\ o + 1 \in o + 1 .. o + n
    BY <1>1, <1>2
  <1>17. Records(t)[id] = [k \in DOMAIN Records(s)[id] |->
                             IF k \in o + 1 .. o + n THEN <<c, 0>> ELSE Records(s)[id][k]]
    BY <1>12, <1>15
  <1>18. Records(t) = [Records(s) EXCEPT ![id] =
                        [k \in DOMAIN @ |-> IF k \in o + 1 .. o + n THEN <<c, 0>> ELSE @[k]]]
    BY <1>1, <1>10, <1>13, <1>14, <1>17
  <1>19. Records(t)[id][o + 1] = <<c, 0>>
    BY <1>12, <1>16
  <1> QED BY <1>1, <1>6, <1>9, <1>10, <1>14, <1>15, <1>16, <1>18, <1>19 DEF t

\* A delete takes one record out and moves those behind it up.
LEMMA DeleteKeeps ==
  ASSUME NEW s, Types(s), NEW H, NEW e, Chain(s, H, e),
         NEW w, NEW id, Deletes(s, w, id)
  PROVE  LET t == Array!Applied(s, w) IN
         /\ Types(t) /\ \E G, z : Chain(t, G, z)
         /\ id \in DOMAIN Records(s)
         /\ Records(t) = [i \in DOMAIN Records(s) \ {id} |-> Records(s)[i]]
  <1> DEFINE t == Array!Applied(s, w)
             X == 0 .. Words - 1
             p == node_find(s, id)
             d == After(s, p) - p
             K == H \ {p}
             m(h) == IF h < p THEN h ELSE h - d
             G == {m(h) : h \in K}
             z == e - d
  <1>1. /\ p \in H /\ Id(s, p) = id /\ id \in Stored(s)
        /\ w.start = p /\ w.data = ClosedUp(s, p, After(s, p), e)
    BY ChainRecords DEF Deletes, Stored
  <1> HIDE DEF p
  <1>2. \A h \in H : /\ h \in Nat /\ h < e /\ h \in X
                     /\ Size(s, h) \in Nat /\ After(s, h) = h + 1 + Size(s, h)
                     /\ After(s, h) \in Nat /\ After(s, h) =< e
    BY ChainBounds
  <1>3. Words \in Nat /\ e \in X /\ e \in Nat /\ e < Words
    BY NodesAssumption DEF Chain
  <1>4. p \in Nat /\ p < e /\ d \in Nat /\ d # 0 /\ After(s, p) = p + d /\ p + d =< e
    BY <1>1, <1>2, <1>3
  <1> HIDE DEF d
  <1>5. \A a \in X : t[a] = IF p =< a /\ a < e
                            THEN IF a + d < e THEN s[a + d] ELSE Unused
                            ELSE s[a]
    <2>1. /\ Len(w.data) = e - p
          /\ \A i \in 1 .. e - p : w.data[i] = IF p + d + i =< e THEN s[p + d + i - 1] ELSE Unused
      BY <1>1, <1>3, <1>4 DEF ClosedUp
    <2>2. Array!Fits(w)
      <3>1. \A k \in 1 .. e - p : p + k - 1 \in X
        BY <1>3, <1>4
      <3> QED BY <1>1, <1>4, <2>1, <3>1 DEF Array!Fits
    <2> SUFFICES ASSUME NEW a \in X
                 PROVE  t[a] = IF p =< a /\ a < e
                               THEN IF a + d < e THEN s[a + d] ELSE Unused
                               ELSE s[a]
      OBVIOUS
    <2>3. a \in w.start .. w.start + Len(w.data) - 1 <=> p =< a /\ a < e
      BY <1>1, <1>3, <1>4, <2>1
    <2>4. t[a] = IF a \in w.start .. w.start + Len(w.data) - 1
                 THEN w.data[a - w.start + 1] ELSE s[a]
      BY <2>2 DEF Array!Applied
    <2>5. CASE p =< a /\ a < e
      <3>1. a - p + 1 \in 1 .. e - p /\ p + d + (a - p + 1) = a + d + 1
            /\ p + d + (a - p + 1) - 1 = a + d /\ (a + d + 1 =< e <=> a + d < e)
        BY <1>3, <1>4, <2>5
      <3>2. w.data[a - p + 1] = IF a + d < e THEN s[a + d] ELSE Unused
        BY <2>1, <3>1
      <3> QED BY <1>1, <2>3, <2>4, <2>5, <3>2
    <2>6. CASE ~ (p =< a /\ a < e)
      BY <2>3, <2>4, <2>6
    <2> QED BY <2>5, <2>6
  <1>6. Types(t)
    <2>1. Unused \in Nat \X (0 .. Words)
      BY <1>3 DEF Unused
    <2>2. \A a \in X : a < e /\ a + d < e => a + d \in X
      BY <1>3, <1>4
    <2>3. \A a \in X : t[a] \in Nat \X (0 .. Words)
      BY <1>5, <2>1, <2>2 DEF Types
    <2>4. t = [a \in X |-> t[a]]
      BY DEF Array!Applied, Types
    <2> HIDE DEF t
    <2> QED BY <2>3, <2>4 DEF Types
  <1> HIDE DEF t
  <1>7. \A h \in K : /\ h \in H /\ h # p
                     /\ h < p => After(s, h) =< p
                     /\ p < h => p + d =< h
    <2>1. \A h \in H : (p < h => After(s, p) =< h) /\ (h < p => After(s, h) =< p)
      BY <1>1 DEF Chain
    <2> QED BY <1>4, <2>1
  <1>8. \A h \in K : m(h) \in Nat /\ m(h) < z
    <2> SUFFICES ASSUME NEW h \in K PROVE m(h) \in Nat /\ m(h) < z
      OBVIOUS
    <2>1. h \in Nat /\ h < e /\ h # p /\ (p < h => p + d =< h)
      BY <1>2, <1>7
    <2> QED BY <1>3, <1>4, <2>1
  <1>9. \A h \in K : \A k \in 0 .. Size(s, h) : m(h) + k \in X /\ t[m(h) + k] = s[h + k]
    <2> SUFFICES ASSUME NEW h \in K, NEW k \in 0 .. Size(s, h)
                 PROVE  m(h) + k \in X /\ t[m(h) + k] = s[h + k]
      OBVIOUS
    <2>1. /\ h \in Nat /\ h # p /\ k \in Nat /\ h + k < After(s, h) /\ After(s, h) =< e
          /\ After(s, h) \in Nat
          /\ (h < p => After(s, h) =< p) /\ (p < h => p + d =< h)
      BY <1>2, <1>7
    <2>2. CASE h < p
      <3>1. h + k \in X /\ h + k < p /\ m(h) = h
        BY <1>3, <1>4, <2>1, <2>2
      <3>2. ~ (p =< h + k)
        BY <1>4, <2>1, <3>1
      <3> HIDE DEF X, m
      <3> QED BY <1>5, <3>1, <3>2
    <2>3. CASE p < h
      <3>1. /\ m(h) = h - d /\ h - d + k \in X /\ p =< h - d + k /\ h - d + k < e
            /\ h - d + k + d = h + k /\ h + k < e
        BY <1>3, <1>4, <2>1, <2>3
      <3> HIDE DEF X, m
      <3> QED BY <1>5, <3>1
    <2> QED BY <1>4, <2>1, <2>2, <2>3
  <1>10. \A h \in K : /\ Id(t, m(h)) = Id(s, h) /\ Size(t, m(h)) = Size(s, h)
                      /\ After(t, m(h)) = m(h) + 1 + Size(s, h)
    <2> SUFFICES ASSUME NEW h \in K
                 PROVE  /\ Id(t, m(h)) = Id(s, h) /\ Size(t, m(h)) = Size(s, h)
                        /\ After(t, m(h)) = m(h) + 1 + Size(s, h)
      OBVIOUS
    <2>1. 0 \in 0 .. Size(s, h) /\ m(h) + 0 = m(h) /\ h + 0 = h
      BY <1>2, <1>7, <1>8
    <2>2. t[m(h)] = s[h]
      <3> HIDE DEF m
      <3> QED BY <1>9, <2>1
    <2> HIDE DEF m
    <2>3. Id(t, m(h)) = Id(s, h) /\ Size(t, m(h)) = Size(s, h)
      BY <2>2 DEF Id, Size
    <2>4. After(t, m(h)) = m(h) + 1 + Size(s, h)
      BY <2>3 DEF After
    <2> QED BY <2>3, <2>4
  <1>11. \A h \in K : IF After(s, h) = p THEN After(t, m(h)) = p
                      ELSE After(t, m(h)) = m(After(s, h))
    <2> SUFFICES ASSUME NEW h \in K
                 PROVE  IF After(s, h) = p THEN After(t, m(h)) = p
                        ELSE After(t, m(h)) = m(After(s, h))
      OBVIOUS
    <2>1. /\ h \in Nat /\ h # p /\ After(s, h) = h + 1 + Size(s, h) /\ Size(s, h) \in Nat
          /\ After(s, h) \in Nat
          /\ (h < p => After(s, h) =< p) /\ (p < h => p + d =< h)
          /\ After(t, m(h)) = m(h) + 1 + Size(s, h)
      BY <1>2, <1>7, <1>10
    <2>2. CASE h < p
      BY <1>4, <2>1, <2>2
    <2>3. CASE p < h
      BY <1>4, <2>1, <2>3
    <2> QED BY <1>4, <2>1, <2>2, <2>3
  <1>12. p \in G \cup {z} /\ \A h \in K : After(t, m(h)) \in G \cup {z}
    <2>1. \A x \in H \cup {e} : x # p => m(x) \in G \cup {z}
      BY <1>3, <1>4
    <2>2. After(s, p) \in H \cup {e} /\ After(s, p) # p /\ m(After(s, p)) = p
      BY <1>1, <1>4 DEF Chain
    <2>3. \A h \in K : After(s, h) \in H \cup {e}
      BY DEF Chain
    <2> HIDE DEF G, z, m
    <2>4. p \in G \cup {z}
      BY <2>1, <2>2
    <2> QED BY <1>11, <2>1, <2>3, <2>4
  <1>13. \A g, h \in K : m(g) < m(h) => After(t, m(g)) =< m(h)
    <2> SUFFICES ASSUME NEW g \in K, NEW h \in K, m(g) < m(h)
                 PROVE  After(t, m(g)) =< m(h)
      OBVIOUS
    <2>1. /\ g \in Nat /\ h \in Nat /\ g # p /\ h # p
          /\ After(s, g) = g + 1 + Size(s, g) /\ Size(s, g) \in Nat
          /\ (g < p => After(s, g) =< p) /\ (p < g => p + d =< g)
          /\ (p < h => p + d =< h)
          /\ After(t, m(g)) = m(g) + 1 + Size(s, g)
      BY <1>2, <1>7, <1>10
    <2>2. g < h => After(s, g) =< h
      BY DEF Chain
    <2>3. g < h
      BY <1>4, <2>1
    <2> QED BY <1>4, <2>1, <2>2, <2>3
  <1>14. \A g, h \in K : Id(t, m(g)) = Id(t, m(h)) => m(g) = m(h)
    <2> HIDE DEF m
    <2> QED BY <1>10 DEF Chain
  <1>15. Chain(t, G, z)
    <2>1. z \in X /\ z \in Nat
      BY <1>3, <1>4
    <2>2. G \subseteq 0 .. z - 1
      <3> HIDE DEF m, z
      <3> QED BY <1>8, <2>1
    <2>3. 0 \in G \cup {z}
      <3>1. CASE p = 0
        BY <1>12, <3>1
      <3>2. CASE p # 0
        <4>1. 0 \in H /\ 0 # p /\ 0 < p
          BY <1>3, <1>4, <3>2 DEF Chain
        <4>2. m(0) = 0
          BY <4>1
        <4> HIDE DEF m
        <4> QED BY <4>1, <4>2
      <3> QED BY <3>1, <3>2
    <2>4. \A h \in G : Id(t, h) \in Ids /\ After(t, h) \in G \cup {z}
      <3> HIDE DEF m, z
      <3> QED BY <1>10, <1>12 DEF Chain
    <2>5. \A g, h \in G : g < h => After(t, g) =< h
      <3> HIDE DEF m, z
      <3> QED BY <1>13
    <2>6. \A g, h \in G : Id(t, g) = Id(t, h) => g = h
      <3> HIDE DEF m, z
      <3> QED BY <1>14
    <2>7. \A a \in z .. Words - 1 : t[a] = Unused
      <3> SUFFICES ASSUME NEW a \in z .. Words - 1 PROVE t[a] = Unused
        OBVIOUS
      <3>1. a \in X /\ p =< a /\ (a < e => ~ (a + d < e)) /\ (~ (a < e) => a \in e .. Words - 1)
        BY <1>3, <1>4
      <3>2. ~ (a < e) => s[a] = Unused
        BY <3>1 DEF Chain
      <3> QED BY <1>5, <3>1, <3>2
    <2> HIDE DEF G, z
    <2> QED BY <2>1, <2>2, <2>3, <2>4, <2>5, <2>6, <2>7 DEF Chain
  <1>16. Stored(t) = Stored(s) \ {id}
    <2>1. Stored(t) = {Id(t, h) : h \in G} /\ Stored(s) = {Id(s, h) : h \in H}
      <3> HIDE DEF G, z
      <3> QED BY <1>6, <1>15, ChainRecords
    <2>2. \A h \in K : Id(s, h) # id
      BY <1>1 DEF Chain
    <2>3. \A h \in K : Id(t, m(h)) = Id(s, h)
      BY <1>10
    <2> HIDE DEF m
    <2>4. Stored(t) = {Id(s, h) : h \in K}
      BY <2>1, <2>3
    <2> QED BY <1>1, <2>1, <2>2, <2>4
  <1>17. \A i \in Stored(s) \ {id} : Records(t)[i] = Records(s)[i]
    <2> SUFFICES ASSUME NEW h \in K
                 PROVE  Records(t)[Id(s, h)] = Records(s)[Id(s, h)]
      BY <1>1, ChainRecords
    <2>1. m(h) \in G
      OBVIOUS
    <2> HIDE DEF m, G, z
    <2>2. Records(t)[Id(t, m(h))] = [k \in 1 .. Size(t, m(h)) |-> t[m(h) + k]]
      BY <1>6, <1>15, <2>1, ChainRecords
    <2>3. Records(s)[Id(s, h)] = [k \in 1 .. Size(s, h) |-> s[h + k]]
      BY ChainRecords
    <2>4. \A k \in 1 .. Size(s, h) : t[m(h) + k] = s[h + k]
      <3>1. \A k \in 1 .. Size(s, h) : k \in 0 .. Size(s, h)
        BY <1>2
      <3> QED BY <1>9, <3>1
    <2> QED BY <1>10, <2>2, <2>3, <2>4
  <1>18. /\ DOMAIN Records(s) = Stored(s) /\ DOMAIN Records(t) = Stored(t)
         /\ Records(t) = [i \in Stored(t) |-> Records(t)[i]]
    BY DEF Records
  <1>19. Records(t) = [i \in Stored(s) \ {id} |-> Records(s)[i]]
    BY <1>16, <1>17, <1>18
  <1> HIDE DEF G, z
  <1> QED BY <1>1, <1>6, <1>15, <1>18, <1>19 DEF t

-----------------------------------------------------------------------------
(* The inductive invariant, and the map.                                    *)

\* The array is a chain.
Chained(s) == /\ Types(s)
              /\ \E e \in 0 .. Words - 1 : \E H \in SUBSET (0 .. e - 1) : Chain(s, H, e)

\* One of the three writes, c the datum of a put.
Good(s, w, c) == \E id \in Ids :
    \/ Deletes(s, w, id)
    \/ \E n \in 0 .. Words :
          \/ Creates(s, w, id, n)
          \/ \E o \in 0 .. Words : Puts(s, w, id, o, n, c)

\* The array is always a chain, and a write in flight is one of the three, on
\* the array as it still is.
IInv ==
    /\ Chained(store) /\ calls \in Nat
    /\ pending = [start |-> pending.start, data |-> pending.data, cut |-> pending.cut]
    /\ pending # Idle => Good(store, pending, calls)

\* A chain ends in unused words.
LEMMA ChainedEnds == IInv => ChainEnds
  <1> SUFFICES ASSUME IInv PROVE ChainEnds
    OBVIOUS
  <1>1. PICK e \in 0 .. Words - 1 : \E H \in SUBSET (0 .. e - 1) : Chain(store, H, e)
    BY DEF IInv, Chained
  <1>2. PICK H \in SUBSET (0 .. e - 1) : Chain(store, H, e)
    BY <1>1
  <1>3. node_find(store, 0) = e
    BY <1>2, ChainRecords DEF IInv, Chained
  <1>4. e # NULL
    BY NodesAssumption DEF NULL
  <1> QED BY <1>2, <1>3, <1>4 DEF ChainEnds, Chain

\* The empty array is a chain without records.
LEMMA InitHolds == Init => IInv /\ Map!MInit
  <1> SUFFICES ASSUME Init PROVE IInv /\ Map!MInit
    OBVIOUS
  <1>1. /\ Words \in Nat \ {0} /\ store = [a \in 0 .. Words - 1 |-> Unused]
        /\ pending = Idle /\ calls = 0
    BY NodesAssumption DEF Init, Array!AInit
  <1>2. Types(store)
    <2>1. Unused \in Nat \X (0 .. Words)
      BY <1>1 DEF Unused
    <2> QED BY <1>1, <2>1 DEF Types
  <1>3. Chain(store, {}, 0)
    BY <1>1 DEF Chain
  <1>4. IInv
    <2>1. 0 \in 0 .. Words - 1 /\ {} \in SUBSET (0 .. 0 - 1)
      BY <1>1
    <2>2. Chained(store)
      BY <1>2, <1>3, <2>1 DEF Chained
    <2> QED BY <1>1, <2>2 DEF IInv, Idle
  <1>5. Stored(store) = {}
    BY <1>2, <1>3, ChainRecords
  <1>6. Map!MInit
    BY <1>5 DEF Map!MInit, Records
  <1> QED BY <1>4, <1>6

\* The outcome of a write in flight is a chain again, and a step of the map.
LEMMA AppliedIsStep ==
  ASSUME Chained(store), Good(store, pending, calls), store' = Array!Applied(store, pending)
  PROVE  Chained(store)' /\ Map!MNext
  <1>1. PICK e \in 0 .. Words - 1 : \E H \in SUBSET (0 .. e - 1) : Chain(store, H, e)
    BY DEF Chained
  <1>2. PICK H \in SUBSET (0 .. e - 1) : Chain(store, H, e)
    BY <1>1
  <1>3. Types(store)
    BY DEF Chained
  <1>4. ASSUME NEW G, NEW z, Types(store'), Chain(store', G, z) PROVE Chained(store)'
    <2>1. z \in 0 .. Words - 1 /\ G \in SUBSET (0 .. z - 1)
      BY <1>4 DEF Chain
    <2> QED BY <1>4, <2>1 DEF Chained
  <1>5. PICK id \in Ids :
          \/ Deletes(store, pending, id)
          \/ \E n \in 0 .. Words :
                \/ Creates(store, pending, id, n)
                \/ \E o \in 0 .. Words : Puts(store, pending, id, o, n, calls)
    BY DEF Good
  <1>6. CASE Deletes(store, pending, id)
    <2>1. /\ Types(store') /\ \E G, z : Chain(store', G, z)
          /\ id \in DOMAIN Records(store)
          /\ Records(store') = [i \in DOMAIN Records(store) \ {id} |-> Records(store)[i]]
      BY <1>2, <1>3, <1>6, DeleteKeeps
    <2>2. Chained(store)'
      BY <1>4, <2>1
    <2>3. Map!Delete(id)
      BY <2>1 DEF Map!Delete
    <2> QED BY <2>1, <2>2, <2>3 DEF Map!MNext
  <1>7. ASSUME NEW n, Creates(store, pending, id, n)
        PROVE  Chained(store)' /\ Map!MNext
    <2>1. /\ Types(store') /\ Chain(store', H \cup {e}, e + 1 + n)
          /\ id \notin DOMAIN Records(store)
          /\ Records(store') = [i \in DOMAIN Records(store) \cup {id} |->
                    IF i = id THEN [k \in 1 .. n |-> Unused] ELSE Records(store)[i]]
      <3>1. Created(store, Array!Applied(store, pending), H, e, id, n)
        BY <1>2, <1>3, <1>7, CreateKeeps
      <3> QED BY <3>1 DEF Created
    <2>2. Chained(store)'
      BY <1>4, <2>1
    <2>3. n \in Nat /\ id \in DOMAIN Records(store') /\ Len(Records(store')[id]) = n
      BY <1>7, <2>1 DEF Creates
    <2>4. Map!Create(id, n)
      BY <2>1 DEF Map!Create
    <2> QED BY <2>1, <2>2, <2>3, <2>4 DEF Map!MNext
  <1>8. ASSUME NEW n, NEW o, NEW c, Puts(store, pending, id, o, n, c)
        PROVE  Chained(store)' /\ Map!MNext
    <2>1. /\ Types(store') /\ Chain(store', H, e)
          /\ id \in DOMAIN Records(store)
          /\ {o + 1, o + n} \subseteq DOMAIN Records(store)[id]
          /\ DOMAIN Records(store') = DOMAIN Records(store)
          /\ Records(store')[id][o + 1] = <<c, 0>>
          /\ Records(store') = [Records(store) EXCEPT ![id] =
                [k \in DOMAIN @ |-> IF k \in o + 1 .. o + n THEN <<c, 0>> ELSE @[k]]]
      BY <1>2, <1>3, <1>8, PutKeeps
    <2>2. Chained(store)'
      BY <1>4, <2>1
    <2>3. Map!Put(id, o + 1, o + n, Records(store')[id][o + 1])
      BY <2>1 DEF Map!Put
    <2> QED BY <2>1, <2>2, <2>3 DEF Map!MNext
  <1> QED BY <1>5, <1>6, <1>7, <1>8

\* Every step keeps the chain, and is a step of the map or leaves it alone.
LEMMA NextKeeps ==
  ASSUME IInv, [Next]_vars
  PROVE  IInv' /\ (Map!MNext \/ Records(store)' = Records(store))
  <1> USE DEF IInv
  <1>1. ASSUME NEW start, NEW data, Log(start, data),
               Good(store, [start |-> start, data |-> data, cut |-> FALSE], calls + 1)
        PROVE  IInv' /\ Records(store)' = Records(store)
    <2>1. /\ store' = store /\ calls' = calls + 1
          /\ pending' = [start |-> start, data |-> data, cut |-> FALSE]
      BY <1>1 DEF Log
    <2>2. Chained(store)' /\ Records(store)' = Records(store)
      BY <2>1
    <2>3. Good(store, pending, calls)'
      BY <1>1, <2>1
    <2> QED BY <2>1, <2>2, <2>3
  <1>2. ASSUME NEW id \in Ids, NEW b \in Sizes, NodeCreate(id, b)
        PROVE  IInv' /\ Records(store)' = Records(store)
    <2> DEFINE n == Rounded(b)
               p == node_find(store, 0)
               v == [start |-> p, data |-> <<<<id, n>>>>, cut |-> FALSE]
    <2>1. node_find(store, id) = NULL /\ HasRoom(p, n) /\ Log(p, <<<<id, n>>>>)
      BY <1>2 DEF NodeCreate
    <2>2. n \in Nat
      BY NodesAssumption DEF Rounded
    <2>3. p \in 0 .. Words - 1
      <3>1. PICK e \in 0 .. Words - 1 : \E H \in SUBSET (0 .. e - 1) : Chain(store, H, e)
        BY DEF Chained
      <3> QED BY <3>1, ChainRecords DEF Chained
    <2> HIDE DEF n, p
    <2>4. n \in 0 .. Words
      BY <2>1, <2>2, <2>3, NodesAssumption DEF HasRoom
    <2>5. Creates(store, v, id, n)
      BY <2>1, <2>2 DEF Creates, p
    <2>6. Good(store, v, calls + 1)
      BY <2>4, <2>5 DEF Good
    <2> QED BY <1>1, <2>1, <2>6
  <1>3. ASSUME NEW id \in Ids, NodeDelete(id)
        PROVE  IInv' /\ Records(store)' = Records(store)
    <2> DEFINE p == node_find(store, id)
               data == ClosedUp(store, p, After(store, p), node_find(store, 0))
               v == [start |-> p, data |-> data, cut |-> FALSE]
    <2>1. p # NULL /\ Log(p, data)
      BY <1>3 DEF NodeDelete
    <2>2. Deletes(store, v, id)
      BY <2>1 DEF Deletes
    <2>3. Good(store, v, calls + 1)
      BY <2>2 DEF Good
    <2> HIDE DEF data
    <2> QED BY <1>1, <2>1, <2>3
  <1>4. ASSUME NEW id \in Ids, NEW o \in 0 .. Words, NEW n \in 1 .. Words, NodePut(id, o, n)
        PROVE  IInv' /\ Records(store)' = Records(store)
    <2> DEFINE p == node_find(store, id)
               data == [i \in 1 .. n |-> <<calls + 1, 0>>]
               v == [start |-> p + 1 + o, data |-> data, cut |-> FALSE]
    <2>1. p # NULL /\ o + n =< Size(store, p) /\ Log(p + 1 + o, data)
      BY <1>4 DEF NodePut
    <2>2. n \in 0 .. Words /\ n \in Nat \ {0} /\ o \in Nat /\ calls + 1 \in Nat
      BY NodesAssumption
    <2>3. Puts(store, v, id, o, n, calls + 1)
      BY <2>1, <2>2 DEF Puts
    <2>4. Good(store, v, calls + 1)
      BY <2>2, <2>3 DEF Good
    <2> HIDE DEF data
    <2> QED BY <1>1, <2>1, <2>4
  <1>5. ASSUME UNCHANGED <<store, calls>>,
               pending' \in {pending, Idle, [pending EXCEPT !.cut = TRUE]},
               pending = Idle => pending' = Idle
        PROVE  IInv' /\ Records(store)' = Records(store)
    <2>1. pending' = [start |-> pending'.start, data |-> pending'.data, cut |-> pending'.cut]
          /\ (pending' # Idle => pending'.start = pending.start /\ pending'.data = pending.data)
      BY <1>5 DEF Idle
    <2>2. Chained(store)' /\ Records(store)' = Records(store)
      BY <1>5
    <2>3. pending' # Idle => Good(store, pending', calls)
      BY <1>5, <2>1 DEF Good, Creates, Deletes, Puts
    <2> QED BY <1>5, <2>1, <2>2, <2>3
  <1>6. CASE MarkInvalid
    BY <1>5, <1>6 DEF MarkInvalid
  <1>7. CASE Written
    <2>1. CASE Array!Apply
      <3>1. /\ pending # Idle /\ store' = Array!Applied(store, pending)
            /\ pending' = Idle /\ calls' = calls
        BY <1>7, <2>1 DEF Written, Array!Apply
      <3>2. Chained(store)' /\ Map!MNext
        BY <3>1, AppliedIsStep
      <3> QED BY <3>1, <3>2 DEF Idle
    <2>2. CASE Array!Lose
      BY <1>5, <1>7, <2>2 DEF Written, Array!Lose
    <2> QED BY <1>7, <2>1, <2>2 DEF Written
  <1>8. CASE Reboot
    BY <1>5, <1>8 DEF Reboot, Array!Hit
  <1>9. CASE UNCHANGED vars
    BY <1>5, <1>9 DEF vars
  <1> QED BY <1>2, <1>3, <1>4, <1>6, <1>7, <1>8, <1>9 DEF Next

\* However records are created, deleted and put, whole or cut off, the chain
\* ends inside the array, in front of unused words only.
THEOREM ChainAlwaysEnds == Spec => []ChainEnds
  <1>1. Init => IInv
    BY InitHolds
  <1>2. IInv /\ [Next]_vars => IInv'
    BY NextKeeps
  <1> QED BY <1>1, <1>2, ChainedEnds, PTL DEF Spec

\* The node ioctls are a map, for any ids, sizes and size of the array: each
\* call makes its one change or, refused or lost to a power cut, none.
THEOREM ChainIsMap == Spec => ImplementsMap
  <1>1. Init => IInv /\ Map!MInit
    BY InitHolds
  <1>2. IInv /\ [Next]_vars => IInv'
    BY NextKeeps
  <1>3. IInv /\ [Next]_vars => [Map!MNext]_(Records(store))
    BY NextKeeps
  <1> QED BY <1>1, <1>2, <1>3, PTL DEF Spec, ImplementsMap, Map!MSpec
=============================================================================
