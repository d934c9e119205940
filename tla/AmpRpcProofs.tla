---------------------------- MODULE AmpRpcProofs ----------------------------
(* The mailboxes and messages of the RPC, for every number of them and of    *)
(* threads: each is always in exactly one place, who has taken the semaphore *)
(* finds a mailbox, and the interrupt finds a work item.                     *)
EXTENDS AmpRpc, SublistsProofs

USE ThreadsAssumption, ThingsAssumption

Pcs == {"out", "start", "slot", "mbox", "pick", "write", "reply", "give", "givemsg"}
At(p) == {t \in Threads : pc[t] = p}

\* As much of the types as the rest needs.
Types ==
    /\ queue \in Seq(Items) /\ at \in [Workers -> {"scan", "run", "idle", "asleep"}]
    /\ job \in [Workers -> Items \cup {NoItem}]
    /\ mboxres \in Nat /\ mboxbitmap \subseteq Mboxes
    /\ msgres \in Nat /\ msgbitmap \subseteq Slots
    /\ load \in [Items -> Messages \cup Mboxes \cup {None}]
    /\ arg \in [Workers -> Messages \cup Mboxes \cup {None}]
    /\ pc \in [Threads -> Pcs]
    /\ box \in [Threads -> Mboxes \cup {None}]
    /\ slot \in [Callers -> Slots \cup {None}]
    /\ in \in [InBoxes -> Messages \cup {None}]
    /\ out \in [Mboxes -> Messages \cup {None}]
    /\ cbk \subseteq Mboxes /\ linux \subseteq Messages

\* A worker is outside the callbacks while it looks at the list or sleeps, it
\* sends calls only, and a thread has a mailbox in hand from PickMbox to
\* WriteMbox; so has a caller its message from PickMsg to Wake.
Places ==
    /\ \A w \in Workers :
          /\ at[w] # "run" => pc[w] = "out"
          /\ pc[w] \in {"mbox", "pick", "write"} => arg[w] \in Calls
          /\ pc[w] = "out" => arg[w] = None
          /\ pc[w] = "give" => arg[w] = None
    /\ \A t \in Threads : pc[t] = "write" <=> box[t] # None
    /\ \A c \in Callers : pc[c] \in {"mbox", "pick", "write", "reply"} <=> slot[c] # None

\* The places of a mailbox exclude each other.
Apart ==
    /\ \A b \in mboxbitmap :
          /\ out[b] = None /\ b \notin cbk
          /\ \A t \in Threads : box[t] # b
          /\ \A q \in Range(queue) : load[q] # b
          /\ \A w \in Workers : arg[w] # b
    /\ \A b \in Mboxes : out[b] # None =>
          /\ b \notin cbk
          /\ \A t \in Threads : box[t] # b
          /\ \A q \in Range(queue) : load[q] # b
          /\ \A w \in Workers : arg[w] # b
    /\ \A b \in cbk :
          /\ \A t \in Threads : box[t] # b
          /\ \A q \in Range(queue) : load[q] # b
          /\ \A w \in Workers : arg[w] # b
    /\ \A t \in Threads : box[t] # None =>
          /\ \A u \in Threads : box[u] = box[t] => u = t
          /\ \A q \in Range(queue) : load[q] # box[t]
          /\ \A w \in Workers : arg[w] # box[t]
    /\ \A q \in Range(queue) : load[q] \in Mboxes =>
          /\ \A r \in Range(queue) : load[r] = load[q] => r = q
          /\ \A w \in Workers : arg[w] # load[q]
    /\ \A w, v \in Workers : arg[w] \in Mboxes /\ arg[v] = arg[w] => v = w

\* No mailbox is nowhere.
Somewhere ==
    \A b \in Mboxes :
        \/ b \in mboxbitmap \/ out[b] # None \/ b \in cbk
        \/ \E t \in Threads : box[t] = b
        \/ \E q \in Range(queue) : load[q] = b
        \/ \E w \in Workers : arg[w] = b

\* The free messages are nobody's, and no two callers have the same.
SlotsApart ==
    /\ \A c \in Callers : slot[c] \notin msgbitmap
    /\ \A c, d \in Callers : slot[c] # None /\ slot[d] = slot[c] => d = c

\* A bit is set before its semaphore is given and cleared after it is taken.
MboxCount == Cardinality(mboxbitmap)
                 = mboxres + Cardinality(At("pick")) + Cardinality(At("give"))
MsgCount == Cardinality(msgbitmap)
                 = msgres + Cardinality(At("slot")) + Cardinality(At("givemsg"))

IInv == Types /\ Places /\ Apart /\ Somewhere /\ SlotsApart /\ MboxCount /\ MsgCount

\* A message under way is in one place, from a core's hands to the other's.
InLinux ==
    \A m \in linux : /\ \A b \in Mboxes : out[b] # m
                     /\ \A b \in InBoxes : in[b] # m
                     /\ \A q \in Range(queue) : load[q] # m
                     /\ \A w \in Workers : arg[w] # m
InOut ==
    \A b \in Mboxes : out[b] # None =>
        /\ \A a \in Mboxes : out[a] = out[b] => a = b
        /\ \A a \in InBoxes : in[a] # out[b]
        /\ \A q \in Range(queue) : load[q] # out[b]
        /\ \A w \in Workers : arg[w] # out[b]
InIn ==
    \A b \in InBoxes : in[b] # None =>
        /\ \A a \in InBoxes : in[a] = in[b] => a = b
        /\ \A q \in Range(queue) : load[q] # in[b]
        /\ \A w \in Workers : arg[w] # in[b]
InQueue ==
    \A q \in Range(queue) : load[q] \in Messages =>
        /\ \A r \in Range(queue) : load[r] = load[q] => r = q
        /\ \A w \in Workers : arg[w] # load[q]
InArg == \A w, v \in Workers : arg[w] \in Messages /\ arg[v] = arg[w] => v = w
OneWay == InLinux /\ InOut /\ InIn /\ InQueue /\ InArg

Travels(m) ==
    \/ m \in linux
    \/ \E b \in Mboxes : out[b] = m
    \/ \E b \in InBoxes : in[b] = m
    \/ \E q \in Range(queue) : load[q] = m
    \/ \E w \in Workers : arg[w] = m

\* A call is always under way; a notification is while its caller waits for the
\* answer, and it says which caller that is.
Waits(c) == pc[c] = "reply" /\ c \notin notified
Matched ==
    /\ \A m \in Calls : Travels(m)
    /\ \A s \in Slots : Travels(s) <=> \E c \in Callers : slot[c] = s /\ Waits(c)
    /\ \A s \in Slots : s \in msgbitmap \/ \E c \in Callers : slot[c] = s
    /\ \A c \in Callers : slot[c] # None => priv[slot[c]] = c
    /\ priv \in [Slots -> Callers \cup {None}] /\ notified \subseteq Callers
    /\ \A c \in notified : pc[c] = "reply"

\* What is queued holds something, and is queued once.
Loaded == IsInjective(queue) /\ \A q \in Range(queue) : load[q] # None

MInv == OneWay /\ Matched /\ Loaded

-----------------------------------------------------------------------------
\* What follows counts threads and bits: all these sets are finite.
LEMMA Finite ==
  /\ \A p : IsFiniteSet(At(p)) /\ Cardinality(At(p)) \in Nat
  /\ \A S \in SUBSET Mboxes : IsFiniteSet(S) /\ Cardinality(S) \in Nat
  /\ \A S \in SUBSET Slots : IsFiniteSet(S) /\ Cardinality(S) \in Nat
  <1>1. \A S : S \subseteq Mboxes \cup Slots \cup Workers \cup Callers =>
                 IsFiniteSet(S) /\ Cardinality(S) \in Nat
    BY FiniteAssumption, FS_Subset, FS_CardinalityType
  <1>2. \A p : At(p) \subseteq Mboxes \cup Slots \cup Workers \cup Callers
    BY DEF At, Threads
  <1> QED BY <1>1, <1>2

\* One thread going on changes the count of where it was and where it is.
Moves(t, p, q) == /\ t \in Threads /\ p # q /\ pc \in [Threads -> Pcs]
                  /\ pc[t] = p /\ pc' = [pc EXCEPT ![t] = q]

\* A thread that moves between two places changes their counts by one.
LEMMA CountMove ==
  ASSUME NEW t, NEW p, NEW q, Moves(t, p, q)
  PROVE  \A r : Cardinality(At(r)') = Cardinality(At(r)) + (IF r = q THEN 1 ELSE 0)
                                                        - (IF r = p THEN 1 ELSE 0)
  <1> TAKE r
  <1> USE DEF Moves
  <1>1. CASE r = q
    <2>1. At(r)' = At(r) \cup {t} /\ t \notin At(r)
      BY <1>1 DEF At
    <2> QED BY <1>1, <2>1, Finite, FS_AddElement
  <1>2. CASE r = p
    <2>1. At(r)' = At(r) \ {t} /\ t \in At(r)
      BY <1>2 DEF At
    <2> QED BY <1>2, <2>1, Finite, FS_RemoveElement
  <1>3. CASE r # q /\ r # p
    <2>1. At(r)' = At(r)
      BY <1>3 DEF At
    <2> QED BY <1>3, <2>1, Finite
  <1> QED BY <1>1, <1>2, <1>3

\* An item that is not queued goes to the end of the list.
LEMMA QueueGrows ==
  ASSUME NEW x \in Items, x \notin Range(queue), queue \in Seq(Items), Requeue(<<x>>)
  PROVE  queue' \in Seq(Items) /\ Range(queue') = Range(queue) \cup {x}
  <1>1. Range(<<x>>) = {x} /\ <<x>> \in Seq(Items)
    BY DEF Range
  <1>2. queue' = queue \o <<x>>
    BY <1>1 DEF Requeue
  <1>3. /\ queue \o <<x>> \in Seq(Items)
        /\ Range(queue \o <<x>>) = Range(queue) \cup Range(<<x>>)
    BY <1>1, ConcatRange, ZenonT(60)
  <1> QED BY <1>1, <1>2, <1>3

\* Nothing but the item taken leaves the list.
LEMMA QueueShrinks ==
  ASSUME NEW i \in DOMAIN queue, queue \in Seq(Items), queue' = RemoveAt(queue, i)
  PROVE  /\ queue' \in Seq(Items) /\ Range(queue') \subseteq Range(queue)
         /\ \A q \in Range(queue) : q # queue[i] => q \in Range(queue')
  BY RemoveAtProperties

\* The invariant holds at first.
LEMMA InitHolds == Init => IInv
  <1> SUFFICES ASSUME Init PROVE IInv
    OBVIOUS
  <1>1. Range(queue) = {}
    BY DEF Init, QInit, Range
  <1>2. Types
    BY Finite DEF Init, QInit, Types, Pcs, Threads, Messages
  <1>3. Places /\ Apart /\ Somewhere /\ SlotsApart
    <2>1. \A w \in Workers : arg[w] = None /\ pc[w] = "out"
      BY DEF Init, Threads
    <2>2. \A t \in Threads : box[t] = None /\ pc[t] = "out"
      BY DEF Init
    <2>3. Places
      BY <2>1, <2>2 DEF Init, Places, Threads
    <2>4. Apart
      BY <1>1, <2>1, <2>2 DEF Init, Apart
    <2> QED BY <2>3, <2>4 DEF Init, Somewhere, SlotsApart
  <1>4. \A p \in Pcs : p # "out" => At(p) = {}
    BY DEF Init, At
  <1>5. \A p \in Pcs : p # "out" => Cardinality(At(p)) = 0
    BY <1>4, FS_EmptySet
  <1>6. MboxCount /\ MsgCount
    BY <1>2, <1>5, Finite DEF Init, MboxCount, MsgCount, Pcs, Types
  <1> QED BY <1>2, <1>3, <1>6 DEF IInv

-----------------------------------------------------------------------------
(* Linux and the interrupt.                                                *)

\* The other core raises the interrupt.
LEMMA LinuxIrqPreserves ==
  ASSUME NEW b \in Mboxes, IInv, LinuxIrq(b) PROVE IInv'
  <1>1. Types'
    BY DEF LinuxIrq, IInv, Types, qvars, res
  <1>2. Places' /\ SlotsApart'
    BY DEF LinuxIrq, IInv, Places, SlotsApart, Types, qvars, res
  <1>3. Apart'
    BY DEF LinuxIrq, IInv, Apart, Types, qvars, res
  <1>4. Somewhere'
    BY DEF LinuxIrq, IInv, Somewhere, Types, qvars, res
  <1>5. MboxCount' /\ MsgCount'
    BY DEF LinuxIrq, IInv, MboxCount, MsgCount, At, qvars, res
  <1> QED BY <1>1, <1>2, <1>3, <1>4, <1>5 DEF IInv

\* The other core writes a word into a mailbox or a message.
LEMMA LinuxSendPreserves ==
  ASSUME NEW m, NEW st, NEW b \in InBoxes, IInv, LinuxSend(m, st, b) PROVE IInv'
  <1>1. Types'
    BY DEF LinuxSend, IInv, Types, qvars, res
  <1>2. Places' /\ SlotsApart' /\ Apart' /\ Somewhere'
    BY DEF LinuxSend, IInv, Places, SlotsApart, Apart, Somewhere, qvars, res
  <1>3. MboxCount' /\ MsgCount'
    BY DEF LinuxSend, IInv, MboxCount, MsgCount, At, qvars, res
  <1> QED BY <1>1, <1>2, <1>3 DEF IInv

\* The interrupt handler reads one mailbox and queues its work.
LEMMA IsrMboxPreserves ==
  ASSUME NEW b \in InBoxes \cup Mboxes, IInv, IsrMbox(b) PROVE IInv'
  <1>1. PICK x \in Items :
           /\ FindWork(x) /\ QueueWorkFromISR(<<x>>, {})
           /\ \/ /\ b \in InBoxes /\ load' = [load EXCEPT ![x] = in[b]]
                 /\ in' = [in EXCEPT ![b] = None] /\ UNCHANGED cbk
              \/ /\ b \in Mboxes /\ load' = [load EXCEPT ![x] = b]
                 /\ cbk' = cbk \ {b} /\ UNCHANGED in
    BY DEF IsrMbox
  <1>2. queue' \in Seq(Items) /\ Range(queue') = Range(queue) \cup {x}
    BY <1>1, QueueGrows DEF IInv, Types, FindWork, QueueWorkFromISR
  <1>3. x \notin Range(queue) /\ Range(queue) \subseteq Items
    BY <1>1, RangeOfSeq DEF FindWork, IInv, Types, Range
  <1>4. UNCHANGED <<bit, at, nap, job, res, status, priv, arg, pc, box, slot, out, linux>>
    BY <1>1 DEF IsrMbox, QueueWorkFromISR
  <1>5. Types'
    BY <1>1, <1>2, <1>4 DEF IInv, Types, res
  <1>6. Places' /\ SlotsApart' /\ MboxCount' /\ MsgCount'
    BY <1>4 DEF IInv, Places, SlotsApart, MboxCount, MsgCount, At, res
  <1>7. CASE b \in InBoxes /\ load' = [load EXCEPT ![x] = in[b]] /\ UNCHANGED cbk
    <2>1. in[b] \notin Mboxes
      BY <1>7 DEF IInv, Types, Messages
    <2>2. load'[x] \notin Mboxes /\ \A q \in Range(queue) : load'[q] = load[q]
      BY <1>3, <1>7, <2>1 DEF IInv, Types
    <2>3. Apart'
      BY <1>2, <1>4, <1>7, <2>2 DEF IInv, Apart, Types, res
    <2>4. Somewhere'
      BY <1>2, <1>4, <1>7, <2>2 DEF IInv, Somewhere, res
    <2> QED BY <1>5, <1>6, <2>3, <2>4 DEF IInv
  <1>8. CASE b \in Mboxes /\ load' = [load EXCEPT ![x] = b] /\ cbk' = cbk \ {b}
    <2>1. b \in cbk
      BY <1>8, NumbersAssumption DEF IsrMbox, Ahead, Flagged
    <2>2. load'[x] = b /\ \A q \in Range(queue) : load'[q] = load[q]
      BY <1>3, <1>8 DEF IInv, Types
    <2>3. Apart'
      BY <1>2, <1>3, <1>4, <1>8, <2>1, <2>2 DEF IInv, Apart, Types, res
    <2>4. Somewhere'
      BY <1>2, <1>4, <1>8, <2>2 DEF IInv, Somewhere, res
    <2> QED BY <1>5, <1>6, <2>3, <2>4 DEF IInv
  <1> QED BY <1>1, <1>7, <1>8

\* The interrupt handler has read them all.
LEMMA IsrEndPreserves == ASSUME IInv, IsrEnd PROVE IInv'
  BY DEF IsrEnd, IInv, Types, Places, Apart, Somewhere, SlotsApart, MboxCount, MsgCount,
         At, qvars, res, wires

-----------------------------------------------------------------------------
(* msg_other_core                                                          *)

\* A thread takes the semaphore of the mailboxes.
LEMMA TakeMboxPreserves ==
  ASSUME NEW t \in Threads, IInv, TakeMbox(t) PROVE IInv'
  <1> USE DEF TakeMbox, qvars, wires
  <1>1. Types'
    BY DEF IInv, Types, Pcs
  <1>2. Places'
    BY DEF IInv, Types, Places, Threads
  <1>3. Apart' /\ Somewhere' /\ SlotsApart'
    BY DEF IInv, Apart, Somewhere, SlotsApart
  <1>4. MboxCount' /\ MsgCount'
    <2>1. Moves(t, "mbox", "pick")
      BY DEF Moves, IInv, Types
    <2>2. /\ Cardinality(At("pick")') = Cardinality(At("pick")) + 1
          /\ \A r \in {"give", "slot", "givemsg"} : Cardinality(At(r)') = Cardinality(At(r))
      BY <2>1, CountMove, Finite
    <2> QED BY <2>2, Finite DEF IInv, Types, MboxCount, MsgCount
  <1> QED BY <1>1, <1>2, <1>3, <1>4 DEF IInv

\* It takes a mailbox out of the map.
LEMMA PickMboxPreserves ==
  ASSUME NEW t \in Threads, IInv, PickMbox(t) PROVE IInv'
  <1> USE DEF PickMbox, qvars, wires
  <1>1. PICK b \in mboxbitmap : mboxbitmap' = mboxbitmap \ {b} /\ box' = [box EXCEPT ![t] = b]
    OBVIOUS
  <1>2. Types'
    BY <1>1 DEF IInv, Types, Pcs
  <1>3. Places'
    BY <1>1 DEF IInv, Types, Places, Threads
  <1>4. Apart' /\ Somewhere' /\ SlotsApart'
    <2>1. box[t] = None
      BY DEF IInv, Places
    <2>2. Apart'
      BY <1>1, <2>1 DEF IInv, Types, Apart
    <2>3. box'[t] = b /\ \A u \in Threads : box[u] \in Mboxes => box'[u] = box[u]
      BY <1>1, <2>1 DEF IInv, Types
    <2>4. Somewhere'
      BY <1>1, <2>3 DEF IInv, Somewhere
    <2> QED BY <2>2, <2>4 DEF IInv, SlotsApart
  <1>5. Cardinality(mboxbitmap') = Cardinality(mboxbitmap) - 1
    BY <1>1, Finite, FS_RemoveElement DEF IInv, Types
  <1>6. MboxCount' /\ MsgCount'
    <2>1. Moves(t, "pick", "write")
      BY DEF Moves, IInv, Types
    <2>2. /\ Cardinality(At("pick")') = Cardinality(At("pick")) - 1
          /\ \A r \in {"give", "slot", "givemsg"} : Cardinality(At(r)') = Cardinality(At(r))
      BY <2>1, CountMove, Finite
    <2> QED BY <1>5, <2>2, Finite DEF IInv, Types, MboxCount, MsgCount
  <1> QED BY <1>2, <1>3, <1>4, <1>6 DEF IInv

\* It writes the mailbox.
LEMMA WriteMboxPreserves ==
  ASSUME NEW t \in Threads, IInv, WriteMbox(t) PROVE IInv'
  <1> USE DEF WriteMbox, qvars, res, Return
  <1>1. box[t] \in Mboxes /\ box[t] # None
    BY DEF IInv, Types, Places
  <1>2. Message(t) \in Messages /\ Message(t) # None
    BY DEF IInv, Types, Places, Message, Messages, Threads
  <1>3. /\ pc' \in [Threads -> Pcs]
        /\ \A u \in Threads : pc'[u] = IF u = t THEN IF t \in Workers THEN "out" ELSE "reply"
                                              ELSE pc[u]
        /\ UNCHANGED <<queue, job>> \/ (t \in Workers /\ Return(t))
    BY DEF IInv, Types, Pcs, Threads
  <1>4. Types'
    BY <1>1, <1>2, <1>3 DEF IInv, Types, Threads
  <1>5. Places'
    <2>1. CASE t \in Workers /\ Return(t)
      BY <1>1, <1>3, <2>1 DEF IInv, Types, Places, Threads
    <2>2. CASE t \in Callers /\ UNCHANGED <<at, arg>>
      BY <1>1, <1>3, <2>2 DEF IInv, Types, Places, Threads
    <2> QED BY <2>1, <2>2
  <1>6. \A w \in Workers : arg'[w] = arg[w] \/ (arg'[w] = None /\ arg[w] \in Calls)
    BY DEF IInv, Types, Places
  <1>7. Apart'
    BY <1>1, <1>2, <1>6 DEF IInv, Types, Apart
  <1>8. Somewhere'
    BY <1>1, <1>2, <1>6 DEF IInv, Types, Somewhere, Messages
  <1>9. MboxCount' /\ MsgCount'
    <2>1. Moves(t, "write", "out") \/ Moves(t, "write", "reply")
      BY DEF Moves, IInv, Types
    <2>2. \A r \in {"pick", "give", "slot", "givemsg"} :
             Cardinality(At(r)') = Cardinality(At(r))
      BY <2>1, CountMove, Finite
    <2> QED BY <2>2, Finite DEF IInv, Types, MboxCount, MsgCount
  <1> QED BY <1>4, <1>5, <1>7, <1>8, <1>9 DEF IInv, SlotsApart

-----------------------------------------------------------------------------
(* The worker threads.                                                     *)

\* A thread takes an item from the queue.
LEMMA TakeWorkPreserves ==
  ASSUME NEW w \in Workers, IInv, TakeWork(w) PROVE IInv'
  <1> USE DEF TakeWork, res, wires
  <1>1. PICK i \in DOMAIN queue :
           job' = [job EXCEPT ![w] = queue[i]] /\ queue' = RemoveAt(queue, i)
    BY DEF Take
  <1>2. /\ queue' \in Seq(Items) /\ Range(queue') \subseteq Range(queue)
        /\ \A q \in Range(queue) : q # queue[i] => q \in Range(queue')
    BY <1>1, QueueShrinks DEF IInv, Types
  <1>3. queue[i] \in Items /\ queue[i] \in Range(queue) /\ Range(queue) \subseteq Items
    BY <1>1, RangeOfSeq DEF IInv, Types, Range
  <1>4. job'[w] = queue[i]
    BY <1>1 DEF IInv, Types
  <1>5. /\ \A v \in Workers : arg'[v] = IF v = w THEN load[queue[i]] ELSE arg[v]
        /\ \A q \in Items : load'[q] = IF q = queue[i] THEN None ELSE load[q]
    BY <1>4 DEF IInv, Types
  <1>6. at[w] = "scan" /\ at' = [at EXCEPT ![w] = "run"] /\ pc[w] = "out" /\ arg[w] = None
    BY DEF Take, IInv, Places
  <1>7. Types'
    BY <1>1, <1>2, <1>3, <1>4, <1>6 DEF IInv, Types, Pcs, Threads
  <1>8. Places' /\ SlotsApart'
    BY <1>5, <1>6 DEF IInv, Types, Places, SlotsApart, Threads
  <1>9. Apart'
    BY <1>2, <1>3, <1>5, <1>6 DEF IInv, Types, Apart
  <1>10. Somewhere'
    BY <1>2, <1>3, <1>5, <1>6 DEF IInv, Somewhere
  <1>11. MboxCount' /\ MsgCount'
    <2>1. Moves(w, "out", "start")
      BY <1>6 DEF Moves, IInv, Types, Threads
    <2>2. \A r \in {"pick", "give", "slot", "givemsg"} :
             Cardinality(At(r)') = Cardinality(At(r))
      BY <2>1, CountMove, Finite
    <2> QED BY <2>2, Finite DEF IInv, Types, MboxCount, MsgCount
  <1> QED BY <1>7, <1>8, <1>9, <1>10, <1>11 DEF IInv

\* It runs a call of Linux.
LEMMA DoCallPreserves ==
  ASSUME NEW w \in Workers, IInv, DoCall(w) PROVE IInv'
  <1> USE DEF DoCall, qvars, res, wires
  <1>1. Types'
    BY DEF IInv, Types, Pcs
  <1>2. Places'
    BY DEF IInv, Types, Places, Threads
  <1>3. Apart' /\ Somewhere' /\ SlotsApart'
    BY DEF IInv, Apart, Somewhere, SlotsApart
  <1>4. MboxCount' /\ MsgCount'
    <2>1. Moves(w, "start", "mbox")
      BY DEF Moves, IInv, Types, Threads
    <2>2. \A r \in {"pick", "give", "slot", "givemsg"} :
             Cardinality(At(r)') = Cardinality(At(r))
      BY <2>1, CountMove, Finite
    <2> QED BY <2>2, Finite DEF IInv, Types, MboxCount, MsgCount
  <1> QED BY <1>1, <1>2, <1>3, <1>4 DEF IInv

\* It hands an answer to the caller.
LEMMA DoReplyPreserves ==
  ASSUME NEW w \in Workers, IInv, DoReply(w) PROVE IInv'
  <1> USE DEF DoReply, res, wires, Return
  <1>1. Types'
    BY DEF IInv, Types, Pcs
  <1>2. Places'
    BY DEF IInv, Types, Places, Threads
  <1>3. \A v \in Workers : arg'[v] = arg[v] \/ (v = w /\ arg'[v] = None)
    BY DEF IInv, Types
  <1>4. Apart' /\ SlotsApart'
    BY <1>3 DEF IInv, Types, Apart, SlotsApart
  <1>5. Somewhere'
    BY <1>3 DEF IInv, Somewhere
  <1>6. MboxCount' /\ MsgCount'
    <2>1. Moves(w, "start", "out")
      BY DEF Moves, IInv, Types, Threads
    <2>2. \A r \in {"pick", "give", "slot", "givemsg"} :
             Cardinality(At(r)') = Cardinality(At(r))
      BY <2>1, CountMove, Finite
    <2> QED BY <2>2, Finite DEF IInv, Types, MboxCount, MsgCount
  <1> QED BY <1>1, <1>2, <1>4, <1>5, <1>6 DEF IInv

\* It puts a released mailbox back into the map.
LEMMA DoReleasePreserves ==
  ASSUME NEW w \in Workers, IInv, DoRelease(w) PROVE IInv'
  <1> USE DEF DoRelease, qvars, wires
  <1>1. Types'
    BY DEF IInv, Types, Pcs
  <1>2. Places'
    BY DEF IInv, Types, Places, Threads
  <1>3. arg[w] \notin mboxbitmap
    BY DEF IInv, Apart
  <1>4. \A v \in Workers : arg'[v] = IF v = w THEN None ELSE arg[v]
    BY DEF IInv, Types
  <1>5. Apart'
    BY <1>3, <1>4 DEF IInv, Types, Apart
  <1>6. Somewhere' /\ SlotsApart'
    BY <1>4 DEF IInv, Somewhere, SlotsApart
  <1>7. Cardinality(mboxbitmap') = Cardinality(mboxbitmap) + 1
    BY <1>3, Finite, FS_AddElement DEF IInv, Types
  <1>8. MboxCount' /\ MsgCount'
    <2>1. Moves(w, "start", "give")
      BY DEF Moves, IInv, Types, Threads
    <2>2. /\ Cardinality(At("give")') = Cardinality(At("give")) + 1
          /\ \A r \in {"pick", "slot", "givemsg"} : Cardinality(At(r)') = Cardinality(At(r))
      BY <2>1, CountMove, Finite
    <2> QED BY <1>7, <2>2, Finite DEF IInv, Types, MboxCount, MsgCount
  <1> QED BY <1>1, <1>2, <1>5, <1>6, <1>8 DEF IInv

\* It gives the semaphore of the mailboxes.
LEMMA GiveMboxPreserves ==
  ASSUME NEW w \in Workers, IInv, GiveMbox(w) PROVE IInv'
  <1> USE DEF GiveMbox, Return, wires
  <1>1. Types'
    <2>1. mboxres' \in Nat
      BY DEF IInv, Types
    <2>2. pc' \in [Threads -> Pcs]
      BY DEF IInv, Types, Pcs
    <2> QED BY <2>1, <2>2 DEF IInv, Types
  <1>2. Places'
    BY DEF IInv, Types, Places, Threads
  <1>3. Apart' /\ Somewhere' /\ SlotsApart'
    BY DEF IInv, Apart, Somewhere, SlotsApart
  <1>4. MboxCount' /\ MsgCount'
    <2>1. Moves(w, "give", "out")
      BY DEF Moves, IInv, Types, Threads
    <2>2. /\ Cardinality(At("give")') = Cardinality(At("give")) - 1
          /\ \A r \in {"pick", "slot", "givemsg"} : Cardinality(At(r)') = Cardinality(At(r))
      BY <2>1, CountMove, Finite
    <2> QED BY <2>2, Finite DEF IInv, Types, MboxCount, MsgCount
  <1> QED BY <1>1, <1>2, <1>3, <1>4 DEF IInv

\* What only moves between the list and the event group.
LEMMA RestPreserves ==
  ASSUME NEW w \in Workers, IInv, Rest(w) \/ Daemon PROVE IInv'
  <1>1. UNCHANGED <<queue, job, res, load, arg, pc, box, slot, in, out, cbk, linux>>
    BY DEF Rest, Daemon, Idle, Wait, DaemonSetsBits, wires
  <1>2. /\ at' \in [Workers -> {"scan", "run", "idle", "asleep"}]
        /\ \A v \in Workers : at'[v] # "run" => at[v] # "run"
    BY DEF Rest, Daemon, Idle, Wait, DaemonSetsBits, SetBits, IInv, Types
  <1>3. Types' /\ Places'
    BY <1>1, <1>2 DEF IInv, Types, Places, res
  <1>4. Apart' /\ Somewhere' /\ SlotsApart' /\ MboxCount' /\ MsgCount'
    BY <1>1 DEF IInv, Apart, Somewhere, SlotsApart, MboxCount, MsgCount, At, res
  <1> QED BY <1>3, <1>4 DEF IInv

-----------------------------------------------------------------------------
(* The callers.                                                            *)

\* A caller takes the semaphore of the messages.
LEMMA TakeMsgPreserves ==
  ASSUME NEW c \in Callers, IInv, TakeMsg(c) PROVE IInv'
  <1> USE DEF TakeMsg, qvars, wires
  <1>1. Types'
    <2>1. msgres' \in Nat
      BY DEF IInv, Types
    <2>2. pc' \in [Threads -> Pcs]
      BY DEF IInv, Types, Pcs
    <2> QED BY <2>1, <2>2 DEF IInv, Types
  <1>2. Places'
    BY DEF IInv, Types, Places, Threads
  <1>3. Apart' /\ Somewhere' /\ SlotsApart'
    BY DEF IInv, Apart, Somewhere, SlotsApart
  <1>4. MboxCount' /\ MsgCount'
    <2>1. Moves(c, "out", "slot")
      BY DEF Moves, IInv, Types, Threads
    <2>2. /\ Cardinality(At("slot")') = Cardinality(At("slot")) + 1
          /\ \A r \in {"pick", "give", "givemsg"} : Cardinality(At(r)') = Cardinality(At(r))
      BY <2>1, CountMove, Finite
    <2> QED BY <2>2, Finite DEF IInv, Types, MboxCount, MsgCount
  <1> QED BY <1>1, <1>2, <1>3, <1>4 DEF IInv

\* It takes a message out of the map.
LEMMA PickMsgPreserves ==
  ASSUME NEW c \in Callers, IInv, PickMsg(c) PROVE IInv'
  <1> USE DEF PickMsg, qvars, wires
  <1>1. PICK s \in msgbitmap : msgbitmap' = msgbitmap \ {s} /\ slot' = [slot EXCEPT ![c] = s]
    OBVIOUS
  <1>2. Types'
    BY <1>1 DEF IInv, Types, Pcs
  <1>3. Places'
    BY <1>1 DEF IInv, Types, Places, Threads
  <1>4. Apart' /\ Somewhere'
    BY DEF IInv, Apart, Somewhere
  <1>5. SlotsApart'
    BY <1>1 DEF IInv, Types, SlotsApart
  <1>6. Cardinality(msgbitmap') = Cardinality(msgbitmap) - 1
    BY <1>1, Finite, FS_RemoveElement DEF IInv, Types
  <1>7. MboxCount' /\ MsgCount'
    <2>1. Moves(c, "slot", "mbox")
      BY DEF Moves, IInv, Types, Threads
    <2>2. /\ Cardinality(At("slot")') = Cardinality(At("slot")) - 1
          /\ \A r \in {"pick", "give", "givemsg"} : Cardinality(At(r)') = Cardinality(At(r))
      BY <2>1, CountMove, Finite
    <2> QED BY <1>6, <2>2, Finite DEF IInv, Types, MboxCount, MsgCount
  <1> QED BY <1>2, <1>3, <1>4, <1>5, <1>7 DEF IInv

\* It wakes up with its answer and puts the message back.
LEMMA WakePreserves ==
  ASSUME NEW c \in Callers, IInv, Wake(c) PROVE IInv'
  <1> USE DEF Wake, qvars, wires
  <1>1. slot[c] \in Slots /\ slot[c] \notin msgbitmap
    BY DEF IInv, Types, Places, SlotsApart
  <1>2. Types'
    BY <1>1 DEF IInv, Types, Pcs
  <1>3. Places'
    BY DEF IInv, Types, Places, Threads
  <1>4. Apart' /\ Somewhere'
    BY DEF IInv, Apart, Somewhere
  <1>5. SlotsApart'
    BY <1>1 DEF IInv, Types, SlotsApart
  <1>6. Cardinality(msgbitmap') = Cardinality(msgbitmap) + 1
    BY <1>1, Finite, FS_AddElement DEF IInv, Types
  <1>7. MboxCount' /\ MsgCount'
    <2>1. Moves(c, "reply", "givemsg")
      BY DEF Moves, IInv, Types, Threads
    <2>2. /\ Cardinality(At("givemsg")') = Cardinality(At("givemsg")) + 1
          /\ \A r \in {"pick", "give", "slot"} : Cardinality(At(r)') = Cardinality(At(r))
      BY <2>1, CountMove, Finite
    <2> QED BY <1>6, <2>2, Finite DEF IInv, Types, MboxCount, MsgCount
  <1> QED BY <1>2, <1>3, <1>4, <1>5, <1>7 DEF IInv

\* It gives the semaphore of the messages.
LEMMA GiveMsgPreserves ==
  ASSUME NEW c \in Callers, IInv, GiveMsg(c) PROVE IInv'
  <1> USE DEF GiveMsg, qvars, wires
  <1>1. Types'
    <2>1. msgres' \in Nat
      BY DEF IInv, Types
    <2>2. pc' \in [Threads -> Pcs]
      BY DEF IInv, Types, Pcs
    <2> QED BY <2>1, <2>2 DEF IInv, Types
  <1>2. Places'
    BY DEF IInv, Types, Places, Threads
  <1>3. Apart' /\ Somewhere' /\ SlotsApart'
    BY DEF IInv, Apart, Somewhere, SlotsApart
  <1>4. MboxCount' /\ MsgCount'
    <2>1. Moves(c, "givemsg", "out")
      BY DEF Moves, IInv, Types, Threads
    <2>2. /\ Cardinality(At("givemsg")') = Cardinality(At("givemsg")) - 1
          /\ \A r \in {"pick", "give", "slot"} : Cardinality(At(r)') = Cardinality(At(r))
      BY <2>1, CountMove, Finite
    <2> QED BY <2>2, Finite DEF IInv, Types, MboxCount, MsgCount
  <1> QED BY <1>1, <1>2, <1>3, <1>4 DEF IInv

-----------------------------------------------------------------------------
\* The invariant is inductive.
LEMMA NextPreserves == ASSUME IInv, [Next]_vars PROVE IInv'
  <1>1. CASE Linux
    BY <1>1, LinuxIrqPreserves, LinuxSendPreserves DEF Linux, LinuxCall, LinuxAnswer
  <1>2. CASE Isr
    BY <1>2, IsrMboxPreserves, IsrEndPreserves DEF Isr
  <1>3. CASE Daemon
    BY <1>3, RestPreserves, WorkersAssumption
  <1>4. ASSUME NEW w \in Workers, TakeMbox(w) \/ Work(w) \/ DoCall(w) PROVE IInv'
    <2> w \in Threads
      BY DEF Threads
    <2> QED BY <1>4, TakeMboxPreserves, PickMboxPreserves, WriteMboxPreserves,
               TakeWorkPreserves, DoCallPreserves, DoReplyPreserves, DoReleasePreserves,
               GiveMboxPreserves, RestPreserves DEF Work
  <1>5. ASSUME NEW c \in Callers, TakeMbox(c) \/ TakeMsg(c) \/ Notify(c) PROVE IInv'
    <2> c \in Threads
      BY DEF Threads
    <2> QED BY <1>5, TakeMboxPreserves, PickMboxPreserves, WriteMboxPreserves,
               TakeMsgPreserves, PickMsgPreserves, WakePreserves, GiveMsgPreserves
            DEF Notify
  <1>6. CASE UNCHANGED vars
    BY <1>6 DEF vars, IInv, Types, Places, Apart, Somewhere, SlotsApart, MboxCount,
            MsgCount, At, qvars, res, wires
  <1> QED BY <1>1, <1>2, <1>3, <1>4, <1>5, <1>6 DEF Next, Run

\* So it holds always.
LEMMA AlwaysIInv == Spec => []IInv
  BY InitHolds, NextPreserves, PTL DEF Spec

\* Whoever has taken a semaphore finds a bit: otherwise there would be more
\* threads between the two than free mailboxes.
LEMMA IInvNoAssert == IInv => NoAssert
  <1> SUFFICES ASSUME IInv PROVE NoAssert
    OBVIOUS
  <1>1. ASSUME NEW p, At(p) # {} PROVE Cardinality(At(p)) > 0
    BY <1>1, Finite, FS_EmptySet
  <1>2. Cardinality({}) = 0
    BY FS_EmptySet
  <1>3. ASSUME NEW t \in Threads, pc[t] = "pick" PROVE mboxbitmap # {}
    <2>1. Cardinality(At("pick")) > 0
      BY <1>1, <1>3 DEF At
    <2>2. Cardinality(At("pick")) \in Nat /\ Cardinality(At("give")) \in Nat
      BY Finite
    <2>3. Cardinality(mboxbitmap) > 0
      BY <2>1, <2>2 DEF IInv, Types, MboxCount
    <2> QED BY <1>2, <2>3
  <1>4. ASSUME NEW c \in Callers, pc[c] = "slot" PROVE msgbitmap # {}
    <2>1. Cardinality(At("slot")) > 0
      BY <1>1, <1>4 DEF At, Threads
    <2>2. Cardinality(At("slot")) \in Nat /\ Cardinality(At("givemsg")) \in Nat
      BY Finite
    <2>3. Cardinality(msgbitmap) > 0
      BY <2>1, <2>2 DEF IInv, Types, MsgCount
    <2> QED BY <1>2, <2>3
  <1> QED BY <1>3, <1>4 DEF NoAssert

\* The places of a mailbox add up to one.
LEMMA IInvMboxesKept == IInv => MboxesKept
  <1> SUFFICES ASSUME IInv, NEW b \in Mboxes PROVE One(MboxPlaces(b))
    BY DEF MboxesKept
  <1> USE DEF One, MboxPlaces, Working, IInv, Apart
  <1>1. CASE b \in mboxbitmap
    <2>1. MboxPlaces(b) = {<<"free", b>>}
      BY <1>1
    <2> QED BY <2>1
  <1>2. CASE out[b] # None
    <2>1. MboxPlaces(b) = {<<"full", b>>}
      BY <1>2
    <2> QED BY <2>1
  <1>3. CASE b \in cbk
    <2>1. MboxPlaces(b) = {<<"emptied", b>>}
      BY <1>3
    <2> QED BY <2>1
  <1>4. ASSUME NEW t \in Threads, box[t] = b PROVE One(MboxPlaces(b))
    <2>1. MboxPlaces(b) = {<<"thread", t>>}
      BY <1>4
    <2> QED BY <2>1
  <1>5. ASSUME NEW q \in Range(queue), load[q] = b PROVE One(MboxPlaces(b))
    <2>1. MboxPlaces(b) = {<<"queue", q>>}
      BY <1>5
    <2> QED BY <2>1
  <1>6. ASSUME NEW w \in Workers, arg[w] = b PROVE One(MboxPlaces(b))
    <2>1. MboxPlaces(b) = {<<"worker", w>>}
      BY <1>6
    <2> QED BY <2>1
  <1> QED BY <1>1, <1>2, <1>3, <1>4, <1>5, <1>6 DEF Somewhere

\* The asserts of msg_other_core and notifier_worker_proxy hold for every
\* number of mailboxes, messages and threads.
THEOREM AssertsHold == Spec => []NoAssert
  BY AlwaysIInv, IInvNoAssert, PTL

\* For every number of them, no mailbox to Linux leaks or is used twice.
THEOREM MailboxesAreKept == Spec => []MboxesKept
  BY AlwaysIInv, IInvMboxesKept, PTL

-----------------------------------------------------------------------------
(* The messages.                                                           *)

\* A step that moves no message and changes neither whose it is nor who waits
\* for it.
LEMMA Unmoved ==
  ASSUME IInv, MInv, UNCHANGED <<queue, load, linux, in, out, slot, priv, msgbitmap, notified>>,
         \A w \in Workers : arg'[w] = arg[w] \/ (arg'[w] = None /\ arg[w] \notin Messages),
         \A c \in Callers : pc'[c] = "reply" <=> pc[c] = "reply"
  PROVE  MInv'
  <1>1. \A w \in Workers, m \in Messages : arg'[w] = m <=> arg[w] = m
    BY DEF Messages
  <1>2. OneWay'
    <2>1. \A w \in Workers : \A x : x # None => (arg'[w] = x => arg[w] = x)
      OBVIOUS
    <2>2. None \notin linux
      BY DEF IInv, Types, Messages
    <2>3. \A q \in Range(queue) : load[q] # None
      BY DEF MInv, Loaded
    <2>4. None \notin Messages
      BY DEF Messages
    <2> QED BY <2>1, <2>2, <2>3, <2>4 DEF MInv, OneWay, InLinux, InOut, InIn, InQueue, InArg
  <1>3. \A m \in Messages : Travels(m)' <=> Travels(m)
    BY <1>1 DEF Travels
  <1>4. \A c \in Callers : Waits(c)' <=> Waits(c)
    BY DEF Waits
  <1>5. Matched'
    BY <1>3, <1>4 DEF MInv, Matched, Messages
  <1>6. Loaded'
    BY DEF MInv, Loaded
  <1> QED BY <1>2, <1>5, <1>6 DEF MInv

\* A step that moves messages, but not who waits for which.
LEMMA SameMatched ==
  ASSUME Matched, UNCHANGED <<slot, priv, msgbitmap, notified>>,
         \A m \in Messages : Travels(m)' <=> Travels(m),
         \A c \in Callers : pc'[c] = "reply" <=> pc[c] = "reply"
  PROVE  Matched'
  <1>1. \A c \in Callers : Waits(c)' <=> Waits(c)
    BY DEF Waits
  <1> QED BY <1>1 DEF Matched, Messages

\* Linux takes a word.
LEMMA LinuxIrqKeeps == ASSUME NEW b \in Mboxes, IInv, MInv, LinuxIrq(b) PROVE MInv'
  <1>1. /\ out[b] # None /\ out' = [out EXCEPT ![b] = None] /\ linux' = linux \cup {out[b]}
        /\ UNCHANGED <<queue, load, arg, in, slot, priv, msgbitmap, notified, pc>>
    BY DEF LinuxIrq, qvars, res
  <1>2. \A a \in Mboxes : out'[a] = IF a = b THEN None ELSE out[a]
    BY <1>1 DEF IInv, Types
  <1>3. OneWay'
    <2> DEFINE m == out[b]
    <2>1. /\ m # None /\ \A a \in Mboxes : out'[a] # m
          /\ \A a \in InBoxes : in[a] # m
          /\ \A q \in Range(queue) : load[q] # m
          /\ \A w \in Workers : arg[w] # m
      BY <1>1, <1>2 DEF MInv, OneWay, InOut
    <2>2. linux' = linux \cup {m} /\ None \notin linux
      BY <1>1 DEF IInv, Types, Messages
    <2> HIDE DEF m
    <2>3. InLinux'
      BY <1>1, <1>2, <2>1, <2>2 DEF MInv, OneWay, InLinux
    <2>4. InOut'
      BY <1>1, <1>2 DEF MInv, OneWay, InOut
    <2>5. InIn' /\ InQueue' /\ InArg'
      BY <1>1 DEF MInv, OneWay, InIn, InQueue, InArg
    <2> QED BY <2>3, <2>4, <2>5 DEF OneWay
  <1>4. \A m \in Messages : Travels(m)' <=> Travels(m)
    BY <1>1, <1>2 DEF Travels, Messages
  <1> QED BY <1>1, <1>3, <1>4, SameMatched DEF MInv, Loaded

\* Linux sends a word.
LEMMA LinuxSendKeeps ==
  ASSUME NEW m \in Messages, NEW st, NEW b \in InBoxes, IInv, MInv, LinuxSend(m, st, b)
  PROVE  MInv'
  <1>1. /\ m \in linux /\ in[b] = None /\ linux' = linux \ {m} /\ in' = [in EXCEPT ![b] = m]
        /\ UNCHANGED <<queue, load, arg, out, slot, priv, msgbitmap, notified, pc>>
    BY DEF LinuxSend, qvars, res
  <1>2. \A a \in InBoxes : in'[a] = IF a = b THEN m ELSE in[a]
    BY <1>1 DEF IInv, Types
  <1>3. OneWay'
    <2>1. m # None
      BY DEF Messages
    <2>2. /\ \A a \in Mboxes : out[a] # m
          /\ \A a \in InBoxes : in[a] # m
          /\ \A q \in Range(queue) : load[q] # m
          /\ \A w \in Workers : arg[w] # m
      BY <1>1 DEF MInv, OneWay, InLinux, InOut, InIn, InQueue, InArg
    <2> QED BY <1>1, <1>2, <2>1, <2>2 DEF MInv, OneWay, InLinux, InOut, InIn, InQueue, InArg
  <1>4. \A n \in Messages : Travels(n)' <=> Travels(n)
    BY <1>1, <1>2 DEF Travels, Messages
  <1> QED BY <1>1, <1>3, <1>4, SameMatched DEF MInv, Loaded

\* The interrupt queues a message or the release of a mailbox.
LEMMA IsrMboxKeeps ==
  ASSUME NEW b \in InBoxes \cup Mboxes, IInv, MInv, IsrMbox(b) PROVE MInv'
  <1>1. PICK x \in Items :
           /\ FindWork(x) /\ QueueWorkFromISR(<<x>>, {})
           /\ \/ /\ b \in InBoxes /\ load' = [load EXCEPT ![x] = in[b]]
                 /\ in' = [in EXCEPT ![b] = None] /\ UNCHANGED cbk
              \/ /\ b \in Mboxes /\ load' = [load EXCEPT ![x] = b]
                 /\ cbk' = cbk \ {b} /\ UNCHANGED in
    BY DEF IsrMbox
  <1>2. x \notin Range(queue) /\ Range(queue) \subseteq Items
    BY <1>1, RangeOfSeq DEF FindWork, IInv, Types, Range
  <1>3. /\ queue' \in Seq(Items) /\ Range(queue') = Range(queue) \cup {x}
        /\ IsInjective(queue')
    <2>1. queue' = Append(queue, x)
      <3>1. queue' = queue \o <<x>>
        <4>1. Range(<<x>>) = {x}
          BY DEF Range
        <4> QED BY <1>1, <1>2, <4>1 DEF QueueWorkFromISR, Requeue
      <3> QED BY <3>1, AppendIsConcat DEF IInv, Types
    <2> QED BY <1>2, <2>1, AppendRange DEF IInv, Types, MInv, Loaded
  <1>4. UNCHANGED <<arg, pc, slot, priv, msgbitmap, notified, out, linux>>
    BY DEF IsrMbox, res
  <1>5. CASE b \in InBoxes /\ load' = [load EXCEPT ![x] = in[b]] /\ in' = [in EXCEPT ![b] = None]
    <2>1. in[b] # None
      BY <1>5, NumbersAssumption DEF IsrMbox, Ahead, Flagged, IInv, Types
    <2>2. /\ \A q \in Range(queue') : load'[q] = IF q = x THEN in[b] ELSE load[q]
          /\ \A a \in InBoxes : in'[a] = IF a = b THEN None ELSE in[a]
      BY <1>2, <1>3, <1>5 DEF IInv, Types
    <2>3. OneWay'
      <3> DEFINE m == in[b]
      <3>1. m # None /\ m \notin linux
            /\ \A a \in Mboxes : out[a] # m
        BY <1>5, <2>1 DEF MInv, OneWay, InLinux, InOut, InIn, InQueue, InArg
      <3>2. /\ \A a \in InBoxes : in'[a] # m
            /\ \A q \in Range(queue) : load[q] # m
            /\ \A w \in Workers : arg[w] # m
        BY <1>5, <2>1, <2>2 DEF MInv, OneWay, InLinux, InOut, InIn, InQueue, InArg
      <3> HIDE DEF m
      <3>3. \A q \in Range(queue') : load'[q] = IF q = x THEN m ELSE load[q]
        BY <2>2 DEF m
      <3>4. None \notin linux /\ \A a \in InBoxes : in'[a] = None \/ in'[a] = in[a]
        BY <2>2 DEF IInv, Types, Messages
      <3>5. InLinux' /\ InOut'
        BY <1>3, <1>4, <3>1, <3>3, <3>4 DEF MInv, OneWay, InLinux, InOut
      <3>6. InIn'
        BY <1>3, <1>4, <2>2, <3>2, <3>3 DEF MInv, OneWay, InIn
      <3>7. InQueue' /\ InArg'
        BY <1>2, <1>3, <1>4, <3>2, <3>3 DEF MInv, OneWay, InQueue, InArg
      <3> QED BY <3>5, <3>6, <3>7 DEF OneWay
    <2>4. \A m \in Messages : Travels(m)' <=> Travels(m)
      BY <1>2, <1>3, <1>4, <1>5, <2>2 DEF Travels, Messages
    <2>5. Loaded'
      BY <1>2, <1>3, <2>1, <2>2 DEF MInv, Loaded
    <2> QED BY <1>4, <2>3, <2>4, <2>5, SameMatched DEF MInv
  <1>6. CASE b \in Mboxes /\ load' = [load EXCEPT ![x] = b] /\ UNCHANGED in
    <2>1. b \notin Messages /\ b # None
      BY <1>6 DEF Messages
    <2>2. \A q \in Range(queue') : load'[q] = IF q = x THEN b ELSE load[q]
      BY <1>2, <1>3, <1>6 DEF IInv, Types
    <2>3. OneWay'
      BY <1>2, <1>3, <1>4, <1>6, <2>1, <2>2 DEF MInv, OneWay, InLinux, InOut, InIn, InQueue, InArg, IInv, Types
    <2>4. \A m \in Messages : Travels(m)' <=> Travels(m)
      BY <1>2, <1>3, <1>4, <1>6, <2>1, <2>2 DEF Travels
    <2>5. Loaded'
      BY <1>2, <1>3, <2>1, <2>2 DEF MInv, Loaded
    <2> QED BY <1>4, <2>3, <2>4, <2>5, SameMatched DEF MInv
  <1> QED BY <1>1, <1>5, <1>6

\* A thread takes an item: what it holds is with the thread.
LEMMA TakeWorkKeeps == ASSUME NEW w \in Workers, IInv, MInv, TakeWork(w) PROVE MInv'
  <1>1. PICK i \in DOMAIN queue :
           job' = [job EXCEPT ![w] = queue[i]] /\ queue' = RemoveAt(queue, i)
    BY DEF TakeWork, Take
  <1>2. /\ queue' \in Seq(Items) /\ Range(queue') = Range(queue) \ {queue[i]}
        /\ IsInjective(queue')
    BY <1>1, RemoveAtProperties DEF IInv, Types, MInv, Loaded
  <1>3. queue[i] \in Items /\ queue[i] \in Range(queue) /\ Range(queue) \subseteq Items
    BY <1>1, RangeOfSeq DEF IInv, Types, Range
  <1>4. job'[w] = queue[i] /\ arg[w] = None
    BY <1>1 DEF TakeWork, Take, IInv, Types, Places
  <1>5. /\ \A v \in Workers : arg'[v] = IF v = w THEN load[queue[i]] ELSE arg[v]
        /\ \A q \in Items : load'[q] = IF q = queue[i] THEN None ELSE load[q]
    BY <1>4 DEF TakeWork, IInv, Types
  <1>6. /\ UNCHANGED <<linux, in, out, slot, priv, msgbitmap, notified>>
        /\ \A c \in Callers : pc'[c] = pc[c]
    BY DEF TakeWork, IInv, Types, res, wires, Threads
  <1>7. load[queue[i]] # None
    BY <1>3 DEF MInv, Loaded
  <1>8. OneWay'
    BY <1>2, <1>3, <1>4, <1>5, <1>6, <1>7 DEF MInv, OneWay, InLinux, InOut, InIn, InQueue, InArg
  <1>9. \A m \in Messages : Travels(m)' <=> Travels(m)
    BY <1>2, <1>3, <1>4, <1>5, <1>6 DEF Travels, Messages
  <1>10. Loaded'
    BY <1>2, <1>3, <1>5 DEF MInv, Loaded
  <1> QED BY <1>6, <1>8, <1>9, <1>10, SameMatched DEF MInv

\* A word is written: an answer leaves the thread, or a notification its caller,
\* who then waits.
LEMMA WriteMboxKeeps ==
  ASSUME NEW t \in Threads, IInv, MInv, WriteMbox(t) PROVE MInv'
  <1> USE DEF Threads
  <1>1. pc[t] = "write" /\ box[t] \in Mboxes /\ out[box[t]] = None
    BY DEF WriteMbox, IInv, Types, Places, Apart
  <1>2. \A b \in Mboxes : out'[b] = IF b = box[t] THEN Message(t) ELSE out[b]
    BY DEF WriteMbox, IInv, Types
  <1>3. UNCHANGED <<queue, load, linux, in, slot, priv, msgbitmap, notified>>
    BY DEF WriteMbox, qvars, res, Return
  <1>4. CASE t \in Workers
    <2>1. Message(t) = arg[t] /\ arg[t] \in Calls /\ arg[t] \in Messages /\ arg[t] # None
      BY <1>1, <1>4 DEF Message, Messages, IInv, Places
    <2>2. /\ \A w \in Workers : arg'[w] = IF w = t THEN None ELSE arg[w]
          /\ \A c \in Callers : pc'[c] = pc[c]
      BY <1>4 DEF WriteMbox, IInv, Types
    <2> DEFINE m == Message(t)
    <2>3. /\ m \notin linux
          /\ \A b \in Mboxes : out[b] # m
          /\ \A b \in InBoxes : in[b] # m
          /\ \A q \in Range(queue) : load[q] # m
          /\ \A w \in Workers : w # t => arg[w] # m
      BY <1>4, <2>1 DEF MInv, OneWay, InLinux, InOut, InIn, InQueue, InArg
    <2>4. m # None /\ None \notin linux /\ None \notin Messages /\ arg[t] = m
          /\ \A q \in Range(queue) : load[q] # None
      BY <2>1 DEF IInv, Types, Messages, MInv, Loaded
    <2>5. \A b \in Mboxes : out'[b] = IF b = box[t] THEN m ELSE out[b]
      BY <1>2
    <2> HIDE DEF m
    <2>6. InLinux'
      BY <1>3, <2>2, <2>3, <2>4, <2>5 DEF MInv, OneWay, InLinux
    <2>7. InOut'
      BY <1>3, <2>2, <2>3, <2>4, <2>5 DEF MInv, OneWay, InOut
    <2>8. InIn' /\ InQueue' /\ InArg'
      BY <1>3, <2>2, <2>4 DEF MInv, OneWay, InIn, InQueue, InArg
    <2>9. \A n \in Messages : Travels(n)' <=> Travels(n)
      BY <1>1, <1>3, <1>4, <2>2, <2>4, <2>5 DEF Travels
    <2> QED BY <1>3, <2>2, <2>6, <2>7, <2>8, <2>9, SameMatched DEF MInv, OneWay, Loaded
  <1>5. CASE t \in Callers
    <2> DEFINE m == slot[t]
    <2>1. Message(t) = m /\ m \in Slots /\ m \in Messages /\ m # None
      BY <1>1, <1>5 DEF Message, Messages, IInv, Types, Places
    <2>2. /\ UNCHANGED arg
          /\ \A c \in Callers : pc'[c] = IF c = t THEN "reply" ELSE pc[c]
      BY <1>5 DEF WriteMbox, IInv, Types
    <2>3. ~Waits(t) /\ Waits(t)' /\ \A c \in Callers : c # t => (Waits(c)' <=> Waits(c))
      BY <1>1, <1>3, <1>5, <2>2 DEF Waits, MInv, Matched
    <2>4. \A c \in Callers : slot[c] = m => c = t
      BY <1>5, <2>1 DEF IInv, SlotsApart
    <2>5. ~Travels(m)
      BY <2>1, <2>3, <2>4 DEF MInv, Matched
    <2>6. /\ m \notin linux
          /\ \A b \in Mboxes : out[b] # m
          /\ \A b \in InBoxes : in[b] # m
          /\ \A q \in Range(queue) : load[q] # m
          /\ \A w \in Workers : arg[w] # m
      BY <2>5 DEF Travels
    <2>7. \A b \in Mboxes : out'[b] = IF b = box[t] THEN m ELSE out[b]
      BY <1>2, <2>1
    <2>8. slot[t] = m
      OBVIOUS
    <2> HIDE DEF m
    <2>9. InLinux' /\ InOut'
      BY <1>3, <2>1, <2>2, <2>6, <2>7 DEF MInv, OneWay, InLinux, InOut
    <2>10. InIn' /\ InQueue' /\ InArg'
      BY <1>3, <2>2 DEF MInv, OneWay, InIn, InQueue, InArg
    <2>11. \A n \in Messages : Travels(n)' <=> Travels(n) \/ n = m
      BY <1>1, <1>3, <2>1, <2>2, <2>7 DEF Travels, Messages
    <2>12. Matched'
      <3>1. \A s \in Slots : (Travels(s)' <=> \E c \in Callers : slot[c] = s /\ Waits(c)')
        BY <1>5, <2>1, <2>3, <2>4, <2>8, <2>11 DEF MInv, Matched, Messages
      <3>2. \A n \in Calls : Travels(n)'
        BY <2>11 DEF MInv, Matched, Messages
      <3>3. \A c \in notified : pc'[c] = "reply"
        BY <2>2 DEF MInv, Matched
      <3> QED BY <1>3, <3>1, <3>2, <3>3 DEF MInv, Matched
    <2> QED BY <1>3, <2>9, <2>10, <2>12 DEF MInv, OneWay, Loaded
  <1> QED BY <1>4, <1>5

\* The answer is handed to the caller whose message it is, who waits for it.
LEMMA DoReplyKeeps == ASSUME NEW w \in Workers, IInv, MInv, DoReply(w) PROVE MInv'
  <1> DEFINE m == arg[w]
             c == priv[m]
  <1>1. /\ m \in Slots /\ notified' = notified \cup {c} /\ m \in Messages /\ m # None
        /\ UNCHANGED <<queue, load, linux, in, out, slot, priv, msgbitmap>>
        /\ \A d \in Callers : pc'[d] = pc[d]
    BY DEF DoReply, Return, res, wires, Messages, IInv, Types, Threads
  <1>2. \A v \in Workers : arg'[v] = IF v = w THEN None ELSE arg[v]
    BY DEF DoReply, IInv, Types
  <1>3. PICK d \in Callers : slot[d] = m /\ Waits(d)
    <2>1. Travels(m)
      BY DEF Travels
    <2> QED BY <1>1, <2>1 DEF MInv, Matched
  <1>4. d = c
    BY <1>1, <1>3 DEF MInv, Matched
  <1>5. /\ m \notin linux
        /\ \A b \in Mboxes : out[b] # m
        /\ \A b \in InBoxes : in[b] # m
        /\ \A q \in Range(queue) : load[q] # m
        /\ \A v \in Workers : v # w => arg[v] # m
    BY <1>1 DEF MInv, OneWay, InLinux, InOut, InIn, InQueue, InArg
  <1>6. arg[w] = m /\ None \notin linux /\ None \notin Messages
        /\ \A q \in Range(queue) : load[q] # None
    BY DEF IInv, Types, Messages, MInv, Loaded
  <1> HIDE DEF m, c
  <1>7. InLinux' /\ InOut'
    BY <1>1, <1>2, <1>6 DEF MInv, OneWay, InLinux, InOut
  <1>8. InIn' /\ InQueue' /\ InArg'
    BY <1>1, <1>2, <1>6 DEF MInv, OneWay, InIn, InQueue, InArg
  <1>9. \A n \in Messages : Travels(n)' <=> Travels(n) /\ n # m
    BY <1>1, <1>2, <1>5, <1>6 DEF Travels
  <1>10. \A e \in Callers : Waits(e)' <=> Waits(e) /\ e # c
    BY <1>1 DEF Waits
  <1>11. \A e \in Callers : slot[e] = m => e = c
    BY <1>1, <1>3, <1>4 DEF IInv, SlotsApart
  <1>12. Matched'
    <2>1. \A s \in Slots : (Travels(s)' <=> \E e \in Callers : slot[e] = s /\ Waits(e)')
      BY <1>3, <1>4, <1>9, <1>10, <1>11 DEF MInv, Matched, Messages
    <2>2. \A n \in Calls : Travels(n)'
      BY <1>1, <1>9 DEF MInv, Matched, Messages
    <2>3. \A e \in notified' : e \in Callers /\ pc'[e] = "reply"
      BY <1>1, <1>3, <1>4 DEF MInv, Matched, Waits
    <2> QED BY <1>1, <2>1, <2>2, <2>3 DEF MInv, Matched
  <1> QED BY <1>1, <1>7, <1>8, <1>12 DEF MInv, OneWay, Loaded

\* A free message becomes a caller's.
LEMMA PickMsgKeeps == ASSUME NEW c \in Callers, IInv, MInv, PickMsg(c) PROVE MInv'
  <1>1. PICK s \in msgbitmap : /\ msgbitmap' = msgbitmap \ {s}
                               /\ slot' = [slot EXCEPT ![c] = s]
                               /\ priv' = [priv EXCEPT ![s] = c]
    BY DEF PickMsg
  <1>2. /\ UNCHANGED <<queue, load, linux, in, out, arg, notified>>
        /\ pc[c] = "slot" /\ \A d \in Callers : pc'[d] = IF d = c THEN "mbox" ELSE pc[d]
    BY DEF PickMsg, qvars, wires, IInv, Types, Threads
  <1>3. s \in Slots /\ s # None /\ slot[c] = None /\ \A d \in Callers : slot[d] # s
    BY <1>2 DEF IInv, Types, Places, SlotsApart
  <1>4. /\ \A d \in Callers : slot'[d] = IF d = c THEN s ELSE slot[d]
        /\ \A r \in Slots : priv'[r] = IF r = s THEN c ELSE priv[r]
        /\ priv' \in [Slots -> Callers \cup {None}]
    BY <1>1, <1>3 DEF IInv, Types, MInv, Matched
  <1>5. OneWay' /\ Loaded' /\ \A m \in Messages : Travels(m)' <=> Travels(m)
    BY <1>2 DEF MInv, OneWay, InLinux, InOut, InIn, InQueue, InArg, Loaded, Travels
  <1>6. \A d \in Callers : Waits(d)' <=> Waits(d)
    BY <1>2 DEF Waits
  <1>7. ~Waits(c) /\ c \notin notified
    BY <1>2 DEF Waits, MInv, Matched
  <1>8. Matched'
    <2>1. ASSUME NEW r \in Slots
          PROVE  Travels(r)' <=> \E d \in Callers : slot'[d] = r /\ Waits(d)'
      <3>1. Travels(r)' <=> \E d \in Callers : slot[d] = r /\ Waits(d)
        BY <1>5 DEF MInv, Matched, Messages
      <3> QED BY <1>3, <1>4, <1>6, <1>7, <3>1
    <2>2. \A r \in Slots : r \in msgbitmap' \/ \E d \in Callers : slot'[d] = r
      BY <1>1, <1>3, <1>4 DEF MInv, Matched
    <2>3. \A d \in Callers : slot'[d] # None => priv'[slot'[d]] = d
      BY <1>3, <1>4 DEF MInv, Matched, IInv, Types
    <2>4. \A n \in Calls : Travels(n)'
      BY <1>5 DEF MInv, Matched, Messages
    <2>5. \A d \in notified : pc'[d] = "reply"
      BY <1>2, <1>7 DEF MInv, Matched
    <2> QED BY <1>2, <1>4, <2>1, <2>2, <2>3, <2>4, <2>5 DEF MInv, Matched
  <1> QED BY <1>5, <1>8 DEF MInv

\* The caller that got its answer frees its message.
LEMMA WakeKeeps == ASSUME NEW c \in Callers, IInv, MInv, Wake(c) PROVE MInv'
  <1> DEFINE s == slot[c]
  <1>1. /\ c \in notified /\ notified' = notified \ {c} /\ msgbitmap' = msgbitmap \cup {s}
        /\ slot' = [slot EXCEPT ![c] = None]
        /\ UNCHANGED <<queue, load, linux, in, out, arg, priv>>
        /\ pc[c] = "reply" /\ \A d \in Callers : pc'[d] = IF d = c THEN "givemsg" ELSE pc[d]
    BY DEF Wake, qvars, wires, IInv, Types, Threads
  <1>2. s \in Slots /\ s # None
    BY <1>1 DEF IInv, Types, Places
  <1>3. \A d \in Callers : slot'[d] = IF d = c THEN None ELSE slot[d]
    BY <1>1 DEF IInv, Types
  <1>4. OneWay' /\ Loaded' /\ \A m \in Messages : Travels(m)' <=> Travels(m)
    BY <1>1 DEF MInv, OneWay, InLinux, InOut, InIn, InQueue, InArg, Loaded, Travels
  <1>5. ~Waits(c) /\ ~Waits(c)' /\ \A d \in Callers : d # c => (Waits(d)' <=> Waits(d))
    BY <1>1 DEF Waits
  <1>6. slot[c] = s
    OBVIOUS
  <1> HIDE DEF s
  <1>7. Matched'
    <2>1. ASSUME NEW r \in Slots
          PROVE  Travels(r)' <=> \E d \in Callers : slot'[d] = r /\ Waits(d)'
      <3>1. Travels(r)' <=> \E d \in Callers : slot[d] = r /\ Waits(d)
        BY <1>4 DEF MInv, Matched, Messages
      <3> QED BY <1>3, <1>5, <3>1
    <2>2. \A r \in Slots : r \in msgbitmap' \/ \E d \in Callers : slot'[d] = r
      BY <1>1, <1>3, <1>6 DEF MInv, Matched
    <2>3. \A d \in Callers : slot'[d] # None => priv[slot'[d]] = d
      BY <1>3 DEF MInv, Matched
    <2>4. \A n \in Calls : Travels(n)'
      BY <1>4 DEF MInv, Matched, Messages
    <2>5. notified' \subseteq Callers /\ \A d \in notified' : pc'[d] = "reply"
      BY <1>1 DEF MInv, Matched
    <2> QED BY <1>1, <2>1, <2>2, <2>3, <2>4, <2>5 DEF MInv, Matched
  <1> QED BY <1>4, <1>7 DEF MInv

\* The steps that move no message.
LEMMA OthersKeep ==
  ASSUME IInv, MInv,
         \/ \E w \in Workers : \/ TakeMbox(w) \/ PickMbox(w) \/ DoCall(w) \/ DoRelease(w)
                               \/ GiveMbox(w) \/ Rest(w)
         \/ \E c \in Callers : TakeMbox(c) \/ PickMbox(c) \/ TakeMsg(c) \/ GiveMsg(c)
         \/ IsrEnd \/ Daemon \/ UNCHANGED vars
  PROVE  MInv'
  <1> USE DEF Threads
  <1> DEFINE Same == UNCHANGED <<queue, load, linux, in, out, slot, priv, msgbitmap, notified>>
             Args == \A w \in Workers : arg'[w] = arg[w] \/ (arg'[w] = None /\ arg[w] \notin Messages)
             Reply == \A c \in Callers : pc'[c] = "reply" <=> pc[c] = "reply"
  <1>1. Same /\ Args /\ Reply => MInv'
    BY Unmoved
  <1>2. ASSUME NEW t \in Threads, TakeMbox(t) \/ PickMbox(t) PROVE Same /\ Args /\ Reply
    BY <1>2 DEF TakeMbox, PickMbox, qvars, wires, IInv, Types
  <1>3. ASSUME NEW w \in Workers, DoCall(w) \/ DoRelease(w) \/ GiveMbox(w) \/ Rest(w)
        PROVE  Same /\ Args /\ Reply
    <2>1. Same
      BY <1>3 DEF DoCall, DoRelease, GiveMbox, Rest, Return, Idle, Wait, qvars, res, wires
    <2>2. Reply
      BY <1>3 DEF DoCall, DoRelease, GiveMbox, Rest, IInv, Types
    <2>3. Args
      <3>1. CASE DoRelease(w)
        <4>1. arg[w] \notin Messages
          BY <3>1 DEF DoRelease, Messages
        <4> QED BY <3>1, <4>1 DEF DoRelease, IInv, Types
      <3>2. CASE ~DoRelease(w)
        BY <1>3, <3>2 DEF DoCall, GiveMbox, Rest
      <3> QED BY <3>1, <3>2
    <2> QED BY <2>1, <2>2, <2>3
  <1>4. ASSUME NEW c \in Callers, TakeMsg(c) \/ GiveMsg(c) PROVE Same /\ Args /\ Reply
    BY <1>4 DEF TakeMsg, GiveMsg, qvars, wires, IInv, Types
  <1>5. ASSUME IsrEnd \/ Daemon \/ UNCHANGED vars PROVE Same /\ Args /\ Reply
    BY <1>5 DEF IsrEnd, Daemon, DaemonSetsBits, vars, qvars, res, wires
  <1> HIDE DEF Same, Args, Reply
  <1> QED BY <1>1, <1>2, <1>3, <1>4, <1>5

\* The invariant of the messages holds always.
LEMMA AlwaysMInv == Spec => [](IInv /\ MInv)
  <1>1. Init => MInv
    <2> SUFFICES ASSUME Init PROVE MInv
      OBVIOUS
    <2>1. queue = <<>> /\ Range(queue) = {}
      BY DEF Init, QInit, Range
    <2>2. /\ \A w \in Workers : arg[w] = None
          /\ \A b \in InBoxes : in[b] = None
          /\ \A b \in Mboxes : out[b] = None
          /\ \A c \in Callers : slot[c] = None /\ pc[c] = "out"
      BY DEF Init, Threads
    <2>3. linux = Calls /\ notified = {} /\ msgbitmap = Slots
          /\ priv \in [Slots -> Callers \cup {None}]
      BY DEF Init
    <2>4. None \notin Messages
      BY DEF Messages
    <2>5. OneWay
      BY <2>1, <2>2, <2>3, <2>4 DEF OneWay, InLinux, InOut, InIn, InQueue, InArg, Messages
    <2>6. Matched
      BY <2>1, <2>2, <2>3, <2>4 DEF Matched, Travels, Waits, Messages
    <2>7. Loaded
      BY <2>1 DEF Loaded, IsInjective
    <2> QED BY <2>5, <2>6, <2>7 DEF MInv
  <1>2. IInv /\ MInv /\ [Next]_vars => MInv'
    <2> SUFFICES ASSUME IInv, MInv, [Next]_vars PROVE MInv'
      OBVIOUS
    <2>1. CASE Linux
      BY <2>1, LinuxIrqKeeps, LinuxSendKeeps DEF Linux, LinuxCall, LinuxAnswer, Messages
    <2>2. CASE Isr
      BY <2>2, IsrMboxKeeps, OthersKeep DEF Isr
    <2>3. ASSUME NEW w \in Workers, TakeMbox(w) \/ Work(w) \/ DoCall(w) PROVE MInv'
      BY <2>3, WriteMboxKeeps, TakeWorkKeeps, DoReplyKeeps, OthersKeep DEF Work, Threads
    <2>4. ASSUME NEW c \in Callers, TakeMbox(c) \/ TakeMsg(c) \/ Notify(c) PROVE MInv'
      BY <2>4, WriteMboxKeeps, PickMsgKeeps, WakeKeeps, OthersKeep DEF Notify, Threads
    <2>5. CASE Daemon \/ UNCHANGED vars
      BY <2>5, OthersKeep
    <2> QED BY <2>1, <2>2, <2>3, <2>4, <2>5 DEF Next, Run
  <1> QED BY <1>1, <1>2, AlwaysIInv, PTL DEF Spec

\* The places of a message add up to one.
LEMMA MInvMessagesKept == IInv /\ MInv => MessagesKept
  <1> SUFFICES ASSUME IInv, MInv, NEW m \in Messages PROVE One(MessagePlaces(m))
    BY DEF MessagesKept
  <1> USE DEF One, MessagePlaces, Working
  <1>1. m # None /\ (m \in msgbitmap => m \in Slots)
        /\ \A c \in Callers : slot[c] = m => m \in Slots
    BY DEF Messages, IInv, Types
  <1>2. CASE m \in msgbitmap
    <2>1. \A c \in Callers : slot[c] # m
      BY <1>2 DEF IInv, SlotsApart
    <2>2. ~Travels(m)
      BY <1>1, <1>2, <2>1 DEF MInv, Matched
    <2>3. MessagePlaces(m) = {<<"free", m>>}
      BY <1>2, <2>1, <2>2 DEF Travels
    <2> QED BY <2>3
  <1>3. ASSUME NEW c \in Callers, slot[c] = m, ~Waits(c) PROVE One(MessagePlaces(m))
    <2>1. m \notin msgbitmap /\ \A d \in Callers : slot[d] = m => d = c
      BY <1>1, <1>3 DEF IInv, SlotsApart
    <2>2. ~Travels(m)
      BY <1>1, <1>3, <2>1 DEF MInv, Matched
    <2>3. MessagePlaces(m) = {<<"caller", c>>}
      BY <1>3, <2>1, <2>2 DEF Travels, Waits
    <2> QED BY <2>3
  <1>4. CASE Travels(m)
    <2>1. m \notin msgbitmap /\ \A c \in Callers : slot[c] = m => Waits(c)
      <3>1. CASE m \in Slots
        <4>1. PICK c \in Callers : slot[c] = m /\ Waits(c)
          BY <1>4, <3>1 DEF MInv, Matched
        <4> QED BY <1>1, <4>1 DEF IInv, SlotsApart
      <3>2. CASE m \notin Slots
        BY <1>1, <3>2
      <3> QED BY <3>1, <3>2
    <2>2. MessagePlaces(m) = {<<"out", b>> : b \in {b \in Mboxes : out[b] = m}}
                                \cup {<<"linux", a>> : a \in {m} \cap linux}
                                \cup {<<"in", b>> : b \in {b \in InBoxes : in[b] = m}}
                                \cup Working(m)
      BY <2>1 DEF Waits
    <2> HIDE DEF MessagePlaces
    <2>3. CASE m \in linux
      <3>1. MessagePlaces(m) = {<<"linux", m>>}
        BY <2>2, <2>3 DEF MInv, OneWay, InLinux
      <3> QED BY <3>1
    <2>4. ASSUME NEW b \in Mboxes, out[b] = m PROVE One(MessagePlaces(m))
      <3>1. m \notin linux
        BY <2>4 DEF MInv, OneWay, InLinux
      <3>2. MessagePlaces(m) = {<<"out", b>>}
        BY <1>1, <2>2, <2>4, <3>1 DEF MInv, OneWay, InOut
      <3> QED BY <3>2
    <2>5. ASSUME NEW b \in InBoxes, in[b] = m PROVE One(MessagePlaces(m))
      <3>1. m \notin linux /\ \A a \in Mboxes : out[a] # m
        BY <1>1, <2>5 DEF MInv, OneWay, InLinux, InOut
      <3>2. MessagePlaces(m) = {<<"in", b>>}
        BY <1>1, <2>2, <2>5, <3>1 DEF MInv, OneWay, InIn
      <3> QED BY <3>2
    <2>6. ASSUME NEW q \in Range(queue), load[q] = m PROVE One(MessagePlaces(m))
      <3>1. /\ m \notin linux /\ \A a \in Mboxes : out[a] # m
            /\ \A a \in InBoxes : in[a] # m
        BY <1>1, <2>6 DEF MInv, OneWay, InLinux, InOut, InIn
      <3>2. MessagePlaces(m) = {<<"queue", q>>}
        BY <2>2, <2>6, <3>1 DEF MInv, OneWay, InQueue
      <3> QED BY <3>2
    <2>7. ASSUME NEW w \in Workers, arg[w] = m PROVE One(MessagePlaces(m))
      <3>1. /\ m \notin linux /\ \A a \in Mboxes : out[a] # m
            /\ \A a \in InBoxes : in[a] # m
            /\ \A q \in Range(queue) : load[q] # m
        BY <1>1, <2>7 DEF MInv, OneWay, InLinux, InOut, InIn, InQueue
      <3>2. MessagePlaces(m) = {<<"worker", w>>}
        BY <2>2, <2>7, <3>1 DEF MInv, OneWay, InArg
      <3> QED BY <3>2
    <2> QED BY <1>4, <2>3, <2>4, <2>5, <2>6, <2>7 DEF Travels
  <1>5. m \in msgbitmap \/ Travels(m) \/ \E c \in Callers : slot[c] = m /\ ~Waits(c)
    <2>1. CASE m \in Calls
      BY <2>1 DEF MInv, Matched
    <2>2. CASE m \in Slots
      BY <2>2 DEF MInv, Matched
    <2> QED BY <2>1, <2>2 DEF Messages
  <1> QED BY <1>2, <1>3, <1>4, <1>5

\* For every number of messages, callers and calls, no call is lost or run
\* twice, and a caller's answer is the one to its own message.
THEOREM MessagesAreKept == Spec => []MessagesKept
  BY AlwaysMInv, MInvMessagesKept, PTL

\* Each queued item holds a message or a mailbox of its own, and what the
\* interrupt is about to queue is held by none: so not every item is queued.
LEMMA MInvWorksSuffice == EnoughItems /\ IInv /\ MInv => WorksSuffice
  <1> SUFFICES ASSUME EnoughItems, IInv, MInv, Flagged # {}, Items \subseteq Range(queue)
               PROVE  FALSE
    BY DEF WorksSuffice
  <1> DEFINE Things == Messages \cup Mboxes
  <1>1. \A x \in Items : load[x] \in Things
    BY DEF IInv, Types, MInv, Loaded
  <1>2. \A x, y \in Items : load[x] = load[y] => x = y
    BY <1>1 DEF IInv, Apart, MInv, OneWay, InQueue
  <1>3. PICK v \in Things : \A x \in Items : load[x] # v
    <2>1. PICK b \in Flagged : TRUE
      OBVIOUS
    <2>2. CASE b \in cbk
      BY <2>2 DEF IInv, Types, Apart
    <2>3. CASE b \in InBoxes /\ in[b] # None
      <3>1. in[b] \in Things /\ \A x \in Items : load[x] # in[b]
        BY <2>3 DEF IInv, Types, MInv, OneWay, InIn
      <3> QED BY <3>1
    <2> QED BY <2>1, <2>2, <2>3 DEF Flagged
  <1>4. IsFiniteSet(Things) /\ IsFiniteSet(Items)
    <2>1. IsFiniteSet(Slots \cup Mboxes)
      BY FiniteAssumption, FS_Subset
    <2>2. IsFiniteSet(Calls \cup (Slots \cup Mboxes)) /\ IsFiniteSet(Items)
      BY <2>1, FS_Union DEF EnoughItems
    <2>3. Things = Calls \cup (Slots \cup Mboxes)
      BY DEF Messages
    <2> QED BY <2>2, <2>3
  <1>5. Cardinality(Things) \in Nat /\ Cardinality(Items) \in Nat
        /\ Cardinality(Items) >= Cardinality(Things)
    BY <1>4, FS_CardinalityType DEF EnoughItems
  <1> HIDE DEF Things
  <1>6. /\ IsFiniteSet(Things \ {v})
        /\ Cardinality(Things \ {v}) = Cardinality(Things) - 1
    BY <1>3, <1>4, FS_RemoveElement
  <1> DEFINE f == [x \in Items |-> load[x]]
  <1>7. f \in [Items -> Things \ {v}]
    BY <1>1, <1>3
  <1>8. Cardinality(Things \ {v}) < Cardinality(Items)
    BY <1>5, <1>6
  <1> HIDE DEF f
  <1>9. \E x, y \in Items : x # y /\ f[x] = f[y]
    BY <1>4, <1>6, <1>7, <1>8, FS_PigeonHole
  <1> QED BY <1>2, <1>9 DEF f

\* With an item for each message and each mailbox, for every number of them,
\* the interrupt never finds all items queued: find_work's assertion holds.
THEOREM ItemsSuffice == EnoughItems => (Spec => []WorksSuffice)
  <1> SUFFICES ASSUME EnoughItems PROVE Spec => []WorksSuffice
    OBVIOUS
  <1>1. IInv /\ MInv => WorksSuffice
    BY MInvWorksSuffice
  <1> QED BY <1>1, AlwaysMInv, PTL
=============================================================================
