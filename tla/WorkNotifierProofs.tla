------------------------- MODULE WorkNotifierProofs -------------------------
(* The entries of the work notifier and the events they stand for, for any   *)
(* number of workers, clients, entries and events, when only one-shot        *)
(* registrations are torn down; and their work queue, whatever is torn down. *)
EXTENDS WorkNotifier, SublistsProofs

USE ItemsAssumption, EntriesAssumption, EventsAssumption, BoundsAssumption

\* Who holds an entry besides the lists: the queue, and the workers until they
\* have freed it.
Users == {w \in Workers : stage[w] # "done"}
Held == (Range(queue) \cup {job[w] : w \in Users}) \cap Entries
USE DEF Users

\* A worker has an item only while it runs it, and every entry in use is
\* malloc's.
Holding ==
  /\ \A w \in Workers : at[w] # "run" => job[w] = NoItem /\ stage[w] = "call"
  /\ Held \cup Busy \subseteq heap

\* A queued entry is not free, nor being set up.
QueuedApart == Range(queue) \cap (Range(free) \cup Busy) = {}

\* The entry of a one-shot registration is pending, queued or called by one
\* worker, and never two of these.
Once ==
  /\ \A e \in Range(pending) : info[e].event \in OneShot => e \notin Held
  /\ \A w \in Users : job[w] \in Entries /\ info[job[w]].event \in OneShot =>
        /\ job[w] \notin Range(queue)
        /\ \A v \in Users : job[v] = job[w] => v = w

Placed == TypeOK /\ Holding /\ OneList /\ QueuedApart /\ Once

\* A registration that may still be called: it knows its key, which no other
\* has, and the last event.
Live == Range(pending) \cup Held
Known ==
  /\ \A e \in Live : /\ info[e].key \in 1 .. lastKey
                     /\ info[e].param = told[info[e].key]
  /\ \A e, f \in Live : info[e].key = info[f].key => e = f
  /\ \A k \in Keys : k > lastKey => told[k] = 0
  /\ \A c \in Clients : client[c].pc = "add" => info[client[c].entry].param = 0

IInv == Placed /\ Known /\ LastEventSeen

-----------------------------------------------------------------------------
(* What the steps of the queue do to its list.                             *)

\* Who sets the bit wakes threads and changes nothing else.
LEMMA SetBitsEffect ==
  ASSUME QTypeOK, SetBits
  PROVE  /\ bit' \in BOOLEAN /\ at' \in [Workers -> {"scan", "run", "idle", "asleep"}]
         /\ nap' \in [Workers -> BOOLEAN]
         /\ \A w \in Workers : at'[w] = "run" <=> at[w] = "run"
  BY DEF QTypeOK, SetBits

\* Work that is queued is in the list, once, whether it was before or not.
LEMMA QueueWorkEffect ==
  ASSUME QTypeOK, NEW s \in Seq(Items), IsInjective(s), NEW d \in SUBSET Range(s),
         QueueWork(s, d) \/ QueueWorkFromISR(s, d)
  PROVE  /\ QTypeOK' /\ Range(queue') = Range(queue) \cup Range(s) /\ job' = job
         /\ \A w \in Workers : at'[w] = "run" <=> at[w] = "run"
  <1>1. PICK others \in Seq(Items) :
           /\ queue' = others \o s /\ IsInjective(others)
           /\ Range(others) = Range(queue) \ Range(s)
    <2>1. Requeue(s)
      BY DEF QueueWork, QueueWorkFromISR
    <2>2. CASE Range(s) \cap Range(queue) = {}
      BY <2>1, <2>2 DEF Requeue, QTypeOK
    <2>3. CASE Range(s) \cap Range(queue) # {}
      <3> DEFINE others == Keep(queue, Items \ Range(s))
      <3>1. queue' = others \o s
        BY <2>1, <2>3 DEF Requeue
      <3>2. /\ others \in Seq(Items) /\ IsInjective(others)
            /\ Range(others) = Range(queue) \cap (Items \ Range(s))
        BY KeepProperties DEF QTypeOK
      <3>3. Range(queue) \subseteq Items
        BY RangeOfSeq DEF QTypeOK, Range
      <3> QED BY <3>1, <3>2, <3>3
    <2> QED BY <2>2, <2>3
  <1>2. /\ queue' \in Seq(Items) /\ IsInjective(queue')
        /\ Range(queue') = Range(queue) \cup Range(s)
    <2>1. /\ others \o s \in Seq(Items) /\ Range(others \o s) = Range(others) \cup Range(s)
          /\ IsInjective(others \o s)
      BY <1>1, ConcatRange
    <2> QED BY <1>1, <2>1
  <1>3. late' \subseteq Range(queue') /\ job' = job
    BY <1>2 DEF QTypeOK, QueueWork, QueueWorkFromISR
  <1>4. CASE QueueWork(s, d)
    BY <1>2, <1>3, <1>4, SetBitsEffect DEF QTypeOK, QueueWork
  <1>5. CASE QueueWorkFromISR(s, d)
    BY <1>2, <1>3, <1>5 DEF QTypeOK, QueueWorkFromISR
  <1> QED BY <1>2, <1>3, <1>4, <1>5

\* Work that is taken is out of the list and with the worker.
LEMMA TakeEffect ==
  ASSUME QTypeOK, NEW w \in Workers, Take(w)
  PROVE  \E x \in Range(queue) :
            /\ QTypeOK' /\ Range(queue') = Range(queue) \ {x}
            /\ job' = [job EXCEPT ![w] = x]
            /\ at[w] = "scan" /\ at' = [at EXCEPT ![w] = "run"]
  <1>1. PICK i \in DOMAIN queue : /\ queue[i] \notin late
                                  /\ job' = [job EXCEPT ![w] = queue[i]]
                                  /\ queue' = RemoveAt(queue, i)
    BY DEF Take
  <1>2. queue[i] \in Range(queue) /\ Range(queue) \subseteq Items
    BY RangeOfSeq DEF QTypeOK, Range
  <1>3. /\ queue' \in Seq(Items) /\ IsInjective(queue')
        /\ Range(queue') = Range(queue) \ {queue[i]}
    BY <1>1, RemoveAtProperties DEF QTypeOK
  <1>4. QTypeOK'
    BY <1>1, <1>2, <1>3 DEF QTypeOK, Take
  <1> QED BY <1>1, <1>2, <1>3, <1>4 DEF Take

\* Work that is cancelled is out of the list.
LEMMA CancelEffect ==
  ASSUME QTypeOK, NEW x, CancelWork(x)
  PROVE  QTypeOK' /\ Range(queue') = Range(queue) \ {x} /\ UNCHANGED <<at, job>>
  <1>1. PICK i \in DOMAIN queue : queue[i] = x /\ queue' = RemoveAt(queue, i)
    BY DEF CancelWork
  <1>2. /\ queue' \in Seq(Items) /\ IsInjective(queue')
        /\ Range(queue') = Range(queue) \ {x}
    BY <1>1, RemoveAtProperties DEF QTypeOK
  <1> QED BY <1>2 DEF QTypeOK, CancelWork

\* The other steps of the workers, the daemon and the clock leave the list alone.
LEMMA QuietEffect ==
  ASSUME QTypeOK, NEW w \in Workers,
         Idle(w) \/ Wait(w) \/ Timeout(w) \/ DaemonSetsBits \/ \E x \in Items : Elapse(x)
  PROVE  /\ QTypeOK' /\ UNCHANGED <<queue, job>>
         /\ \A v \in Workers : at'[v] = "run" <=> at[v] = "run"
  <1>1. CASE Idle(w) \/ Wait(w) \/ Timeout(w)
    BY <1>1 DEF QTypeOK, Idle, Wait, Timeout
  <1>2. CASE DaemonSetsBits
    BY <1>2, SetBitsEffect DEF QTypeOK, DaemonSetsBits
  <1>3. CASE \E x \in Items : Elapse(x)
    BY <1>3 DEF QTypeOK, Elapse
  <1> QED BY <1>1, <1>2, <1>3

-----------------------------------------------------------------------------
(* The invariant holds at first and after each step.                       *)

\* No registration, no work.
LEMMA InitHolds == Init => IInv
  <1> SUFFICES ASSUME Init PROVE IInv
    OBVIOUS
  <1> USE DEF Init, QInit
  <1>1. /\ Range(queue) = {} /\ Range(free) = {} /\ Range(pending) = {}
        /\ IsInjective(queue) /\ IsInjective(free) /\ IsInjective(pending)
    BY DEF Range, IsInjective
  <1>2. \A w \in Workers : job[w] \notin Entries
    OBVIOUS
  <1>3. Busy = {} /\ Held = {}
    BY <1>1, <1>2 DEF Busy, Out, Held, Range
  <1>4. QTypeOK
    <2>1. queue \in Seq(Items) /\ IsInjective(queue) /\ late \subseteq Range(queue)
      BY <1>1
    <2>2. /\ at \in [Workers -> {"scan", "run", "idle", "asleep"}]
          /\ nap \in [Workers -> BOOLEAN] /\ job \in [Workers -> Items \cup {NoItem}]
      OBVIOUS
    <2> QED BY <2>1, <2>2 DEF QTypeOK
  <1>5. TypeOK
    BY <1>4 DEF TypeOK, Blank, Out, Keys
  <1>6. Holding /\ OneList /\ QueuedApart /\ Once
    BY <1>1, <1>2, <1>3 DEF Holding, OneList, QueuedApart, Once, Out
  <1>7. Known
    BY <1>1, <1>3 DEF Known, Live, Out
  <1>8. LastEventSeen
    BY DEF LastEventSeen, Keys
  <1> QED BY <1>5, <1>6, <1>7, <1>8 DEF IInv, Placed

\* A step that does nothing to the entries.
LEMMA UntouchedPreserves ==
  ASSUME IInv, QTypeOK', job' = job, Range(queue') \cap Entries = Range(queue) \cap Entries,
         \A w \in Workers : at'[w] = "run" <=> at[w] = "run",
         UNCHANGED <<info, heap, free, pending, client, lastKey, stage, signals, told, seen>>,
         works' \in 0 .. MaxWorks
  PROVE  IInv'
  <1> USE DEF IInv, Placed
  <1>1. Held' = Held /\ Busy' = Busy
    BY DEF Held, Busy
  <1>2. TypeOK'
    BY DEF TypeOK
  <1>3. Holding' /\ OneList'
    BY <1>1 DEF Holding, OneList
  <1>4. Range(free) \cup Busy \subseteq Entries
    <2>1. Range(free) \subseteq heap
      BY RangeOfSeq DEF TypeOK, Range
    <2>2. Busy \subseteq heap /\ heap \subseteq Entries
      BY DEF Holding, TypeOK
    <2> QED BY <2>1, <2>2
  <1>5. QueuedApart' /\ Once'
    BY <1>1, <1>4 DEF QueuedApart, Once, Held
  <1>6. Known'
    BY <1>1 DEF Known, Live
  <1>7. LastEventSeen'
    BY DEF LastEventSeen, Waiting, Queued
  <1> QED BY <1>2, <1>3, <1>5, <1>6, <1>7

\* What lists and clients hold is malloc's.
LEMMA InHeap ==
  ASSUME TypeOK
  PROVE  /\ Range(free) \subseteq heap /\ Range(pending) \subseteq heap
         /\ heap \subseteq Entries /\ \A c \in Clients : client[c].entry \in heap \cup {NoItem}
         /\ Range(queue) \subseteq Items
         /\ NoItem \notin Entries
  <1>1. Range(free) \subseteq heap /\ Range(pending) \subseteq heap
    BY RangeOfSeq DEF TypeOK, Range
  <1>2. Range(queue) \subseteq Items
    BY RangeOfSeq DEF TypeOK, QTypeOK, Range
  <1>3. \A c \in Clients : client[c].entry \in heap \cup {NoItem}
    BY DEF TypeOK
  <1> QED BY <1>1, <1>2, <1>3 DEF TypeOK

\* What is being set up is not live; what is queued or run is.
LEMMA LiveHeld ==
  ASSUME Placed
  PROVE  /\ Busy \cap Live = {} /\ Live \subseteq heap /\ Live \subseteq Entries
         /\ \A w \in Users : job[w] \in Entries => job[w] \in Held
         /\ \A e \in Range(queue) \cap Entries : e \in Held
         /\ \A e \in Held : e \in Range(queue) \/ \E w \in Users : job[w] = e
         /\ Held \subseteq Live
  <1> USE DEF Placed
  <1>1. \A e \in Held : e \in Range(queue) \/ \E w \in Users : job[w] = e /\ e \in Entries
    BY DEF Held
  <1>2. Busy \cap Live = {}
    BY <1>1 DEF Live, OneList, QueuedApart, Users
  <1>3. Live \subseteq heap /\ heap \subseteq Entries
    BY InHeap DEF Live, Holding
  <1> QED BY <1>1, <1>2, <1>3 DEF Held, Live

\* A client takes a free entry, or a new one, that nobody else holds.
LEMMA SetupTakePreserves ==
  ASSUME NEW c \in Clients, NEW ev \in Events, IInv, SetupTake(c, ev) PROVE IInv'
  <1> USE DEF IInv, Placed, qvars
  <1>1. PICK e \in Entries :
           /\ \/ /\ e \in Range(free) /\ Available(e) /\ UNCHANGED heap
                 /\ free' \in Seq(heap) /\ IsInjective(free') /\ Range(free') = Range(free) \ {e}
              \/ /\ e \notin heap /\ heap' = heap \cup {e}
                 /\ UNCHANGED free
           /\ client' = [client EXCEPT ![c] = [pc |-> "fill", event |-> ev, entry |-> e]]
    <2>1. PICK e \in Entries :
             /\ \/ /\ \E i \in DOMAIN free :
                         free[i] = e /\ Available(e) /\ free' = RemoveAt(free, i)
                   /\ UNCHANGED heap
                \/ e \notin heap /\ heap' = heap \cup {e} /\ UNCHANGED free
             /\ client' = [client EXCEPT ![c] = [pc |-> "fill", event |-> ev, entry |-> e]]
      BY DEF SetupTake
    <2>2. ASSUME NEW i \in DOMAIN free, free[i] = e, free' = RemoveAt(free, i)
          PROVE  /\ e \in Range(free) /\ free' \in Seq(heap) /\ IsInjective(free')
                 /\ Range(free') = Range(free) \ {e}
      <3>1. free \in Seq(heap) /\ IsInjective(free)
        BY DEF TypeOK, OneList
      <3>2. free[i] \in Range(free)
        BY DEF Range
      <3> QED BY <2>2, <3>1, <3>2, RemoveAtProperties
    <2> QED BY <2>1, <2>2
  <1>2. UNCHANGED <<qvars, info, pending, lastKey, stage, signals, told, seen, works>>
    BY DEF SetupTake
  <1>3. client[c].pc = "out"
    BY DEF SetupTake
  <1>4. e \notin Range(queue) /\ (\A w \in Users : job[w] # e) /\ e \notin Range(pending) /\ e \notin Busy
    <2>1. CASE e \in Range(free) /\ Available(e)
      BY <2>1 DEF OneList, Available
    <2>2. CASE e \notin heap
      <3>1. e \notin Held /\ e \notin Range(pending)
        BY <2>2, InHeap DEF Holding
      <3>2. e \notin Busy
        BY <2>2, InHeap DEF Busy
      <3> QED BY <1>1, <3>1, <3>2 DEF Held
    <2> QED BY <1>1, <2>1, <2>2
  <1>5. e \notin Range(free') /\ Range(free') \subseteq Range(free) /\ heap \subseteq heap' /\ e \in heap'
        /\ heap' \subseteq Entries /\ IsInjective(free') /\ free' \in Seq(heap')
    <2>1. CASE e \in Range(free)
      BY <1>1, <2>1, InHeap
    <2>2. CASE e \notin heap
      <3>1. free \in Seq(heap') /\ heap' = heap \cup {e} /\ free' = free
        BY <1>1, <2>2, InHeap, SeqMonotonic DEF TypeOK
      <3> QED BY <2>2, <3>1, InHeap DEF OneList
    <2> QED BY <1>1, <2>1, <2>2
  <1>6. /\ client'[c].pc = "fill" /\ client'[c].entry = e
        /\ \A d \in Clients : d # c => client'[d] = client[d]
    BY <1>1 DEF TypeOK
  <1>7. Busy' = Busy \cup {e} /\ Held' = Held
    BY <1>2, <1>3, <1>6 DEF Busy, Held
  <1>8. TypeOK'
    <2>1. pending' \in Seq(heap')
      BY <1>2, <1>5, SeqMonotonic DEF TypeOK
    <2>2. client' \in [Clients -> [pc : {"out", "fill", "add"}, event : Events \cup {"none"},
                                   entry : heap' \cup {NoItem}]]
      <3>1. \A d \in Clients : client[d] \in
               [pc : {"out", "fill", "add"}, event : Events \cup {"none"}, entry : heap' \cup {NoItem}]
        BY <1>5 DEF TypeOK
      <3> QED BY <1>1, <1>5, <3>1 DEF TypeOK
    <2>3. QTypeOK'
      BY <1>2 DEF TypeOK, QTypeOK
    <2> QED BY <1>2, <1>5, <2>1, <2>2, <2>3 DEF TypeOK
  <1>9. Holding'
    BY <1>2, <1>5, <1>7 DEF Holding
  <1>10. OneList'
    <2>1. \A d \in Clients : client[d].pc # "out" => client[d].entry # e
      BY <1>4 DEF Busy
    <2>2. \A d, f \in Clients : d # f /\ client'[d].pc # "out" /\ client'[f].pc # "out" =>
             client'[d].entry # client'[f].entry
      BY <1>6, <2>1 DEF OneList
    <2>3. Busy' \cap (Range(free') \cup Range(pending')) = {} /\ Range(free') \cap Range(pending') = {}
      BY <1>2, <1>4, <1>5, <1>7 DEF OneList
    <2>4. \A w \in Users : job'[w] \in Entries => job'[w] \notin Range(free') \cup Busy'
      BY <1>2, <1>4, <1>5, <1>7 DEF OneList
    <2> QED BY <1>2, <1>5, <2>2, <2>3, <2>4 DEF OneList
  <1>11. QueuedApart' /\ Once'
    BY <1>2, <1>4, <1>5, <1>7 DEF QueuedApart, Once
  <1>12. Known'
    BY <1>2, <1>6, <1>7 DEF Known, Live
  <1>13. LastEventSeen'
    BY <1>2 DEF LastEventSeen, Waiting, Queued
  <1> QED BY <1>8, <1>9, <1>10, <1>11, <1>12, <1>13

\* It fills in an entry that nobody else looks at.
LEMMA SetupFillPreserves ==
  ASSUME NEW c \in Clients, IInv, SetupFill(c) PROVE IInv'
  <1> USE DEF IInv, Placed, qvars
  <1> DEFINE e == client[c].entry
             new == [key |-> 0, event |-> client[c].event, param |-> 0]
  <1>1. /\ UNCHANGED <<qvars, heap, free, pending, lastKey, stage, signals, told, seen, works>>
        /\ client[c].pc = "fill" /\ client' = [client EXCEPT ![c].pc = "add"]
    BY DEF SetupFill
  <1>2. e \in Busy /\ e \in heap /\ e \in Entries
    <2>1. e \in Busy
      BY <1>1 DEF Busy
    <2> QED BY <2>1, InHeap DEF Holding
  <1>3. /\ client'[c].pc = "add" /\ client'[c].entry = e /\ client'[c].event = client[c].event
        /\ \A d \in Clients : d # c => client'[d] = client[d]
        /\ client' \in [Clients -> [pc : {"out", "fill", "add"}, event : Events \cup {"none"},
                                    entry : heap \cup {NoItem}]]
    <2>1. client \in [Clients -> [pc : {"out", "fill", "add"}, event : Events \cup {"none"},
                                  entry : heap \cup {NoItem}]]
      BY DEF TypeOK
    <2> QED BY <1>1, <2>1
  <1>4. info' = [info EXCEPT ![e] = new]
    <2>1. info' = [info EXCEPT ![e] = [Blank EXCEPT !.event = client[c].event]]
      BY DEF SetupFill
    <2>2. [Blank EXCEPT !.event = client[c].event] = new
      BY DEF Blank
    <2> QED BY <2>1, <2>2
  <1>5. Busy' = Busy /\ Held' = Held
    BY <1>1, <1>3 DEF Busy, Held
  <1>6. e \notin Live
    BY <1>2, LiveHeld
  <1>7. info'[e] = new /\ \A f \in Entries : f # e => info'[f] = info[f]
    BY <1>2, <1>4 DEF TypeOK
  <1>8. TypeOK'
    <2>1. info' \in [Entries -> [key : Keys \cup {0}, event : Events \cup {"none"},
                                 param : 0 .. MaxSignals]]
      <3>1. new \in [key : Keys \cup {0}, event : Events \cup {"none"}, param : 0 .. MaxSignals]
        BY DEF TypeOK
      <3> QED BY <1>2, <1>4, <3>1 DEF TypeOK
    <2>2. QTypeOK'
      BY <1>1 DEF TypeOK, QTypeOK
    <2> QED BY <1>1, <1>3, <2>1, <2>2 DEF TypeOK
  <1>9. Holding' /\ QueuedApart'
    BY <1>1, <1>5 DEF Holding, QueuedApart
  <1>10. OneList'
    <2>1. \A d, f \in Clients : d # f /\ client'[d].pc # "out" /\ client'[f].pc # "out" =>
             client'[d].entry # client'[f].entry
      BY <1>1, <1>3 DEF OneList
    <2> QED BY <1>1, <1>5, <2>1 DEF OneList
  <1>11. \A f \in Live : info'[f] = info[f] /\ f \in Entries
    BY <1>6, <1>7, LiveHeld
  <1>12. Once'
    <2>1. \A w \in Users : job[w] \in Entries => info'[job[w]] = info[job[w]]
      BY <1>11, LiveHeld
    <2>2. \A f \in Range(pending) : info'[f] = info[f]
      BY <1>11 DEF Live
    <2> QED BY <1>1, <1>5, <2>1, <2>2 DEF Once
  <1>13. Known'
    <2>1. Live' = Live
      BY <1>1, <1>5 DEF Live
    <2>2. \A d \in Clients : client'[d].pc = "add" => info'[client'[d].entry].param = 0
      <3>1. TAKE d \in Clients
      <3>2. CASE d = c
        BY <1>3, <1>7, <3>2
      <3>3. CASE d # c /\ client[d].pc = "add"
        <4>1. client[d].entry # e /\ client[d].entry \in Entries
          BY <1>1, <3>3, InHeap DEF OneList, Holding, Busy
        <4> QED BY <1>3, <1>7, <3>3, <4>1 DEF Known
      <3> QED BY <1>3, <3>2, <3>3
    <2> QED BY <1>1, <1>11, <2>1, <2>2 DEF Known
  <1>14. LastEventSeen'
    <2>1. \A w \in Users : job[w] \in Entries => job[w] \in Live
      BY LiveHeld
    <2>2. \A f \in Range(queue) \cap Entries : f \in Live
      BY LiveHeld
    <2>3. \A k \in Keys : Waiting(k)' = Waiting(k) /\ Queued(k)' = Queued(k)
      BY <1>1, <1>11, <2>1, <2>2 DEF Waiting, Queued
    <2> QED BY <1>1, <2>3 DEF LastEventSeen
  <1> QED BY <1>8, <1>9, <1>10, <1>12, <1>13, <1>14

\* The entry goes to the pending list with a fresh key.
LEMMA SetupAddPreserves ==
  ASSUME NEW c \in Clients, IInv, SetupAdd(c) PROVE IInv'
  <1> USE DEF IInv, Placed, qvars
  <1> DEFINE e == client[c].entry
  <1>1. /\ UNCHANGED <<qvars, heap, free, stage, signals, told, seen, works>>
        /\ client[c].pc = "add" /\ client' = [client EXCEPT ![c] = Out]
        /\ lastKey < MaxKeys /\ lastKey' = lastKey + 1
        /\ pending' = Append(pending, e)
        /\ info' = [info EXCEPT ![e].key = lastKey']
    BY DEF SetupAdd
  <1>2. e \in Busy /\ e \in heap /\ e \in Entries
    <2>1. e \in Busy
      BY <1>1 DEF Busy
    <2> QED BY <2>1, InHeap DEF Holding
  <1>3. client'[c] = Out /\ \A d \in Clients : d # c => client'[d] = client[d]
    BY <1>1 DEF TypeOK
  <1>4. lastKey \in Nat /\ lastKey' \in Keys
    BY <1>1 DEF TypeOK, Keys
  <1>5. /\ info'[e].key = lastKey' /\ info'[e].param = info[e].param
        /\ info'[e].event = info[e].event
        /\ \A f \in Entries : f # e => info'[f] = info[f]
        /\ info' \in [Entries -> [key : Keys \cup {0}, event : Events \cup {"none"},
                                  param : 0 .. MaxSignals]]
    <2>1. info \in [Entries -> [key : Keys \cup {0}, event : Events \cup {"none"},
                                param : 0 .. MaxSignals]]
      BY DEF TypeOK
    <2> QED BY <1>1, <1>2, <1>4, <2>1, ZenonT(60)
  <1>6. e \notin Live /\ e \notin Range(pending)
    BY <1>2, LiveHeld DEF Live
  <1>7. /\ pending' \in Seq(heap) /\ IsInjective(pending')
        /\ Range(pending') = Range(pending) \cup {e}
    BY <1>1, <1>2, <1>6, AppendRange DEF TypeOK, OneList
  <1>8. Busy' = Busy \ {e} /\ Held' = Held
    <2>1. \A d \in Clients : d # c /\ client[d].pc # "out" => client[d].entry # e
      BY <1>1 DEF OneList
    <2>2. Busy' \subseteq Busy \ {e}
      BY <1>3, <2>1 DEF Busy, Out
    <2>3. Busy \ {e} \subseteq Busy'
      BY <1>3 DEF Busy
    <2> QED BY <1>1, <2>2, <2>3 DEF Held
  <1>9. TypeOK'
    <2>1. client' \in [Clients -> [pc : {"out", "fill", "add"}, event : Events \cup {"none"},
                                   entry : heap \cup {NoItem}]]
      <3>1. Out \in [pc : {"out", "fill", "add"}, event : Events \cup {"none"},
                     entry : heap \cup {NoItem}]
        BY DEF Out
      <3> QED BY <1>1, <3>1 DEF TypeOK
    <2>2. QTypeOK'
      BY <1>1 DEF TypeOK, QTypeOK
    <2>3. lastKey' \in 0 .. MaxKeys
      BY <1>4 DEF Keys
    <2> QED BY <1>1, <1>5, <1>7, <2>1, <2>2, <2>3 DEF TypeOK
  <1>10. Holding' /\ QueuedApart'
    BY <1>1, <1>8 DEF Holding, QueuedApart
  <1>11. OneList'
    <2>1. \A d, f \in Clients : d # f /\ client'[d].pc # "out" /\ client'[f].pc # "out" =>
             client'[d].entry # client'[f].entry
      BY <1>1, <1>3 DEF OneList, Out
    <2>2. Range(free) \cap Range(pending') = {}
      BY <1>2, <1>7 DEF OneList
    <2>3. Busy' \cap (Range(free) \cup Range(pending')) = {}
      BY <1>7, <1>8 DEF OneList
    <2> QED BY <1>1, <1>7, <1>8, <2>1, <2>2, <2>3 DEF OneList
  <1>12. \A f \in Live : info'[f] = info[f] /\ f \in Entries
    BY <1>5, <1>6, LiveHeld
  <1>13. \A w \in Users : job[w] \in Entries => job[w] \in Live
    BY LiveHeld
  <1>14. Once'
    <2>1. e \notin Held
      BY <1>6 DEF Live
    <2>2. \A f \in Range(pending) : f \in Live
      BY DEF Live
    <2> QED BY <1>1, <1>7, <1>8, <1>12, <1>13, <2>1, <2>2 DEF Once
  <1>15. Known'
    <2>1. Live' = Live \cup {e}
      BY <1>7, <1>8 DEF Live
    <2>2. info[e].param = 0 /\ told[lastKey'] = 0
      BY <1>1, <1>4 DEF Known
    <2>3. \A f \in Live : info'[f].key \in 1 .. lastKey /\ info'[f].param = told[info'[f].key]
      BY <1>12 DEF Known
    <2>4. 1 .. lastKey \subseteq 1 .. lastKey' /\ lastKey' \in 1 .. lastKey' /\ lastKey' \notin 1 .. lastKey
      BY <1>1, <1>4
    <2>5. \A f \in Live' : info'[f].key \in 1 .. lastKey' /\ info'[f].param = told[info'[f].key]
      BY <1>5, <2>1, <2>2, <2>3, <2>4
    <2>6. \A f, g \in Live' : info'[f].key = info'[g].key => f = g
      <3>1. \A f, g \in Live : info'[f].key = info'[g].key => f = g
        BY <1>12 DEF Known
      <3> QED BY <1>5, <2>1, <2>3, <2>4, <3>1
    <2>7. \A k \in Keys : k > lastKey' => told[k] = 0
      BY <1>1, <1>4 DEF Known, Keys
    <2>8. \A d \in Clients : client'[d].pc = "add" => info'[client'[d].entry].param = 0
      <3> SUFFICES ASSUME NEW d \in Clients, client'[d].pc = "add"
                   PROVE  info'[client'[d].entry].param = 0
        OBVIOUS
      <3>1. d # c
        BY <1>3 DEF Out
      <3>2. client[d].entry # e /\ client[d].entry \in Entries /\ client[d].pc = "add"
        <4>1. client[d].entry \in Busy
          BY <1>3, <3>1 DEF Busy
        <4> QED BY <1>1, <1>3, <3>1, <4>1, InHeap DEF OneList, Holding
      <3> QED BY <1>3, <1>5, <3>1, <3>2 DEF Known
    <2> QED BY <1>1, <2>5, <2>6, <2>7, <2>8 DEF Known
  <1>16. LastEventSeen'
    <2>1. \A f \in Range(queue) \cap Entries : f \in Live
      BY LiveHeld
    <2>2. \A k \in Keys : Waiting(k)' = Waiting(k) /\ Queued(k)' = Queued(k)
      BY <1>1, <1>12, <1>13, <2>1 DEF Waiting, Queued
    <2> QED BY <1>1, <2>2 DEF LastEventSeen
  <1> QED BY <1>9, <1>10, <1>11, <1>14, <1>15, <1>16

\* A one-shot registration that is pending is neither queued nor run: its entry
\* is free when it is torn down.
LEMMA TeardownPreserves ==
  ASSUME TornDown \subseteq OneShot, NEW e \in Entries, IInv, Teardown(e) PROVE IInv'
  <1> USE DEF IInv, Placed, qvars
  <1>1. PICK i \in DOMAIN pending : pending[i] = e /\ pending' = RemoveAt(pending, i)
    BY DEF Teardown
  <1>2. /\ UNCHANGED <<qvars, info, heap, client, lastKey, stage, signals, told, seen, works>>
        /\ info[e].event \in OneShot /\ free' = Append(free, e)
    BY DEF Teardown
  <1>3. e \in Range(pending) /\ e \in heap
    <2>1. e \in Range(pending)
      BY <1>1 DEF Range
    <2> QED BY <2>1, InHeap
  <1>4. /\ pending' \in Seq(heap) /\ IsInjective(pending')
        /\ Range(pending') = Range(pending) \ {e}
    BY <1>1, RemoveAtProperties DEF TypeOK, OneList
  <1>5. e \notin Held /\ e \notin Range(free) /\ e \notin Busy
    BY <1>2, <1>3 DEF Once, OneList
  <1>6. /\ free' \in Seq(heap) /\ IsInjective(free') /\ Range(free') = Range(free) \cup {e}
    BY <1>2, <1>3, <1>5, AppendRange DEF TypeOK, OneList
  <1>7. Busy' = Busy /\ Held' = Held
    BY <1>2 DEF Busy, Held
  <1>8. TypeOK'
    <2>1. QTypeOK'
      BY <1>2 DEF TypeOK, QTypeOK
    <2> QED BY <1>2, <1>4, <1>6, <2>1 DEF TypeOK
  <1>9. e \notin Range(queue) /\ \A w \in Users : job[w] # e
    BY <1>5, LiveHeld
  <1>10. Holding' /\ OneList' /\ QueuedApart'
    BY <1>2, <1>4, <1>5, <1>6, <1>7, <1>9 DEF Holding, OneList, QueuedApart
  <1>11. Once'
    BY <1>2, <1>4, <1>7 DEF Once
  <1>12. Known'
    <2>1. Live' \subseteq Live
      BY <1>4, <1>7 DEF Live
    <2> QED BY <1>2, <2>1 DEF Known
  <1>13. LastEventSeen'
    BY <1>2 DEF LastEventSeen, Waiting, Queued
  <1> QED BY <1>8, <1>10, <1>11, <1>12, <1>13

\* Every registration for the event is told, and whoever is told is queued.
LEMMA SignalPreserves ==
  ASSUME NEW ev \in Events, IInv, Signal(ev) PROVE IInv'
  <1> USE DEF IInv, Placed
  <1> DEFINE A == {e \in Entries : info[e].event = ev}
             s == Keep(pending, A)
             S == Range(s)
  <1>1. /\ s \in Seq(heap) /\ S = Range(pending) \cap A /\ IsInjective(s)
        /\ s = <<>> <=> S = {}
    BY KeepProperties DEF TypeOK, OneList
  <1>2. /\ signals < MaxSignals /\ signals' = signals + 1
        /\ pending' = IF ev \in OneShot THEN Keep(pending, Entries \ S) ELSE pending
        /\ info' = [e \in Entries |-> IF e \in S
                                      THEN [info[e] EXCEPT !.param = signals'] ELSE info[e]]
        /\ told' = [k \in Keys |-> IF \E e \in S : info[e].key = k
                                   THEN signals' ELSE told[k]]
        /\ s = <<>> => UNCHANGED qvars
        /\ s # <<>> => QueueWork(s, {}) \/ QueueWorkFromISR(s, {})
        /\ UNCHANGED <<heap, free, client, lastKey, stage, seen, works>>
    BY DEF Signal
  <1> HIDE DEF s
  <1>3. S \subseteq Range(pending) /\ S \subseteq heap /\ S \subseteq Entries
        /\ \A e \in Range(pending) : e \in S <=> info[e].event = ev
    BY <1>1, InHeap
  <1>4. /\ QTypeOK' /\ Range(queue') = Range(queue) \cup S /\ job' = job
        /\ \A w \in Workers : at'[w] = "run" <=> at[w] = "run"
    <2>1. CASE s = <<>>
      BY <1>1, <1>2, <2>1 DEF TypeOK, QTypeOK, qvars
    <2>2. CASE s # <<>>
      <3>1. QTypeOK /\ s \in Seq(Items)
        BY <1>1, SeqMonotonic DEF TypeOK
      <3> QED BY <1>1, <1>2, <2>2, <3>1, QueueWorkEffect
    <2> QED BY <2>1, <2>2
  <1>5. /\ pending' \in Seq(heap) /\ IsInjective(pending')
        /\ Range(pending') = IF ev \in OneShot THEN Range(pending) \ S ELSE Range(pending)
    <2>1. /\ Keep(pending, Entries \ S) \in Seq(heap) /\ IsInjective(Keep(pending, Entries \ S))
          /\ Range(Keep(pending, Entries \ S)) = Range(pending) \cap (Entries \ S)
      BY KeepProperties DEF TypeOK, OneList
    <2>2. Range(pending) \subseteq Entries
      BY InHeap
    <2> QED BY <1>2, <2>1, <2>2 DEF TypeOK, OneList
  <1>6. signals' \in 0 .. MaxSignals /\ signals' > signals
    BY <1>2 DEF TypeOK
  <1>7. /\ \A e \in Entries : /\ info'[e].key = info[e].key /\ info'[e].event = info[e].event
                               /\ info'[e].param = IF e \in S THEN signals' ELSE info[e].param
        /\ info' \in [Entries -> [key : Keys \cup {0}, event : Events \cup {"none"},
                                  param : 0 .. MaxSignals]]
    <2>1. info \in [Entries -> [key : Keys \cup {0}, event : Events \cup {"none"},
                                param : 0 .. MaxSignals]]
      BY DEF TypeOK
    <2>2. \A e \in Entries : info'[e] = IF e \in S THEN [info[e] EXCEPT !.param = signals']
                                                    ELSE info[e]
      BY <1>2
    <2>3. ASSUME NEW e \in Entries, e \in S
          PROVE  /\ info'[e].key = info[e].key /\ info'[e].event = info[e].event
                 /\ info'[e].param = signals'
                 /\ info'[e] \in [key : Keys \cup {0}, event : Events \cup {"none"},
                                  param : 0 .. MaxSignals]
      <3> DEFINE i == info[e]
      <3>1. i \in [key : Keys \cup {0}, event : Events \cup {"none"}, param : 0 .. MaxSignals]
        BY <2>1
      <3>2. info'[e] = [i EXCEPT !.param = signals']
        BY <2>2, <2>3
      <3>3. [i EXCEPT !.param = signals'] = [key |-> i.key, event |-> i.event, param |-> signals']
        <4> HIDE DEF i
        <4> QED BY <3>1
      <3>4. info'[e] = [key |-> i.key, event |-> i.event, param |-> signals']
        BY <3>2, <3>3
      <3> QED BY <1>6, <3>1, <3>4
    <2>4. ASSUME NEW e \in Entries, e \notin S PROVE info'[e] = info[e]
      BY <2>2, <2>4
    <2>5. DOMAIN info' = Entries /\ info' = [e \in Entries |-> info'[e]]
      BY <1>2
    <2> QED BY <2>1, <2>3, <2>4, <2>5
  <1>8. told' \in [Keys -> 0 .. MaxSignals] /\ told \in [Keys -> 0 .. MaxSignals]
    BY <1>2, <1>6 DEF TypeOK
  <1>9. Busy' = Busy
    BY <1>2 DEF Busy
  <1>10. Held' = Held \cup S
    BY <1>2, <1>3, <1>4 DEF Held
  <1>11. TypeOK'
    BY <1>2, <1>4, <1>5, <1>6, <1>7, <1>8 DEF TypeOK
  <1>12. Holding'
    BY <1>2, <1>3, <1>4, <1>9, <1>10 DEF Holding
  <1>13. OneList' /\ QueuedApart'
    BY <1>2, <1>3, <1>4, <1>5, <1>9 DEF OneList, QueuedApart
  <1>14. Once'
    <2>1. ASSUME NEW e \in Range(pending'), info'[e].event \in OneShot PROVE e \notin Held'
      <3>1. e \in Range(pending) /\ e \in Entries /\ info[e].event \in OneShot
        BY <1>5, <1>7, <2>1, InHeap
      <3>2. e \notin S
        BY <1>3, <1>5, <2>1, <3>1
      <3> QED BY <1>10, <3>1, <3>2 DEF Once
    <2>2. Users' = Users
      BY <1>2
    <2>3. ASSUME NEW w \in Users, job'[w] \in Entries, info'[job'[w]].event \in OneShot
          PROVE  /\ job'[w] \notin Range(queue')
                 /\ \A v \in Users : job'[v] = job'[w] => v = w
      <3>1. job[w] \in Entries /\ info[job[w]].event \in OneShot /\ job[w] \in Held
        BY <1>4, <1>7, <2>3, LiveHeld
      <3>2. job[w] \notin Range(pending)
        BY <3>1 DEF Once
      <3> QED BY <1>3, <1>4, <3>1, <3>2 DEF Once
    <2> QED BY <2>1, <2>2, <2>3 DEF Once
  <1>15. Known'
    <2>1. Live' \subseteq Live /\ Live \subseteq Entries /\ S \subseteq Live
      BY <1>3, <1>5, <1>10, LiveHeld DEF Live
    <2>2. \A e, f \in Live' : info'[e].key = info'[f].key => e = f
      BY <1>7, <2>1 DEF Known
    <2>3. ASSUME NEW e \in Live'
          PROVE  info'[e].key \in 1 .. lastKey' /\ info'[e].param = told'[info'[e].key]
      <3> DEFINE k == info[e].key
      <3>1. e \in Live /\ e \in Entries /\ k \in 1 .. lastKey /\ info[e].param = told[k]
        BY <2>1 DEF Known
      <3>2. k \in Keys /\ info'[e].key = k
        BY <1>7, <3>1 DEF TypeOK, Keys
      <3>3. CASE e \in S
        BY <1>2, <1>7, <3>1, <3>2, <3>3
      <3>4. CASE e \notin S
        <4>1. ~ \E f \in S : info[f].key = k
          BY <2>1, <3>1, <3>4 DEF Known
        <4> QED BY <1>2, <1>7, <3>1, <3>2, <3>4, <4>1
      <3> QED BY <1>2, <3>1, <3>2, <3>3, <3>4
    <2>4. \A k \in Keys : k > lastKey' => told'[k] = 0
      <3>1. \A f \in S : info[f].key <= lastKey
        BY <2>1 DEF Known, TypeOK
      <3>2. \A k \in Keys : k > lastKey => ~ \E f \in S : info[f].key = k
        BY <3>1 DEF TypeOK, Keys
      <3> QED BY <1>2, <3>2 DEF Known
    <2>5. \A c \in Clients : client'[c].pc = "add" => info'[client'[c].entry].param = 0
      <3> SUFFICES ASSUME NEW c \in Clients, client[c].pc = "add"
                   PROVE  info'[client[c].entry].param = 0
        BY <1>2
      <3>1. client[c].entry \in Busy
        BY DEF Busy
      <3>2. client[c].entry \in Entries /\ client[c].entry \notin S
        BY <1>3, <3>1, InHeap DEF OneList, Holding
      <3> QED BY <1>7, <3>2 DEF Known
    <2> QED BY <2>2, <2>3, <2>4, <2>5 DEF Known
  <1>16. LastEventSeen'
    <2> SUFFICES ASSUME NEW k \in Keys, seen'[k] < told'[k]
                 PROVE  Waiting(k)' # {} \/ Queued(k)' # {}
      BY DEF LastEventSeen
    <2>1. CASE \E e \in S : info[e].key = k
      <3>1. PICK e \in S : info[e].key = k
        BY <2>1
      <3>2. e \in Queued(k)'
        BY <1>3, <1>4, <1>7, <3>1 DEF Queued
      <3> QED BY <3>2
    <2>2. CASE ~ \E e \in S : info[e].key = k
      <3>1. seen[k] < told[k]
        BY <1>2, <2>2
      <3>2. Waiting(k)' = Waiting(k)
        BY <1>2, <1>4, <1>7 DEF Waiting
      <3>3. Queued(k) \subseteq Queued(k)'
        BY <1>4, <1>7 DEF Queued
      <3> QED BY <3>1, <3>2, <3>3 DEF LastEventSeen
    <2> QED BY <2>1, <2>2
  <1> QED BY <1>11, <1>12, <1>13, <1>14, <1>15, <1>16

\* What a worker takes is with it instead of in the queue.
LEMMA TakeItemPreserves ==
  ASSUME NEW w \in Workers, IInv, TakeItem(w) PROVE IInv'
  <1> USE DEF IInv, Placed
  <1>1. UNCHANGED nvars /\ QTypeOK
    BY DEF TakeItem, TypeOK
  <1>2. PICK x \in Range(queue) :
           /\ QTypeOK' /\ Range(queue') = Range(queue) \ {x}
           /\ job' = [job EXCEPT ![w] = x]
           /\ at[w] = "scan" /\ at' = [at EXCEPT ![w] = "run"]
    BY <1>1, TakeEffect DEF TakeItem
  <1>3. /\ job[w] = NoItem /\ stage[w] = "call" /\ job'[w] = x /\ at'[w] = "run"
        /\ \A v \in Workers : v # w => job'[v] = job[v] /\ at'[v] = at[v]
    BY <1>1, <1>2 DEF Holding, QTypeOK
  <1>4. NoItem \notin Entries
    BY InHeap
  <1>5. Held' = Held
    <2>1. {job'[v] : v \in Users} \cap Entries = ({job[v] : v \in Users} \cup {x}) \cap Entries
      BY <1>3, <1>4
    <2> QED BY <1>1, <1>2, <2>1 DEF Held, nvars
  <1>6. Busy' = Busy
    BY <1>1 DEF Busy, nvars
  <1>7. TypeOK' /\ Holding' /\ QueuedApart'
    BY <1>1, <1>2, <1>3, <1>5, <1>6 DEF TypeOK, Holding, QueuedApart, nvars
  <1>8. x \notin Range(free) \cup Busy
    BY DEF QueuedApart
  <1>9. OneList'
    BY <1>1, <1>3, <1>6, <1>8 DEF OneList, nvars
  <1>10. Once'
    <2>1. ASSUME x \in Entries, info[x].event \in OneShot
          PROVE  \A v \in Users : job[v] # x
      BY <2>1 DEF Once
    <2>2. ASSUME NEW v \in Users, job'[v] \in Entries, info[job'[v]].event \in OneShot
          PROVE  /\ job'[v] \notin Range(queue')
                 /\ \A u \in Users : job'[u] = job'[v] => u = v
      BY <1>2, <1>3, <2>1, <2>2 DEF Once
    <2>3. \A e \in Range(pending) : info[e].event \in OneShot => e \notin Held'
      BY <1>5 DEF Once
    <2> QED BY <1>1, <2>2, <2>3 DEF Once, nvars
  <1>11. Known'
    BY <1>1, <1>5 DEF Known, Live, nvars
  <1>12. LastEventSeen'
    <2> SUFFICES ASSUME NEW k \in Keys, seen[k] < told[k]
                 PROVE  Waiting(k)' # {} \/ Queued(k)' # {}
      BY <1>1 DEF LastEventSeen, nvars
    <2>1. CASE Waiting(k) # {}
      <3>1. PICK v \in Workers : job[v] \in Entries /\ stage[v] = "call" /\ info[job[v]].key = k
        BY <2>1 DEF Waiting
      <3>2. v # w
        BY <1>3, <1>4, <3>1
      <3> QED BY <1>1, <1>3, <3>1, <3>2 DEF Waiting, nvars
    <2>2. CASE Queued(k) # {}
      <3>1. PICK e \in Range(queue) \cap Entries : info[e].key = k
        BY <2>2 DEF Queued
      <3>2. CASE e = x
        BY <1>1, <1>3, <3>1, <3>2 DEF Waiting, nvars
      <3>3. CASE e # x
        BY <1>1, <1>2, <3>1, <3>3 DEF Queued, nvars
      <3> QED BY <3>2, <3>3
    <2> QED BY <2>1, <2>2 DEF LastEventSeen
  <1> QED BY <1>7, <1>9, <1>10, <1>11, <1>12

\* The call sees the last event of its registration.
LEMMA CallPreserves ==
  ASSUME NEW w \in Workers, IInv, Call(w) PROVE IInv'
  <1> USE DEF IInv, Placed, qvars
  <1> DEFINE e == job[w]
             n == info[e].key
  <1>1. /\ UNCHANGED <<qvars, info, heap, free, pending, client, lastKey, signals, told, works>>
        /\ at[w] = "run" /\ e \in Entries /\ stage[w] = "call"
        /\ stage' = [stage EXCEPT ![w] = "free"]
        /\ seen' = [k \in Keys |-> IF k = n THEN info[e].param ELSE seen[k]]
    BY DEF Call
  <1>2. e \in Live
    BY <1>1, LiveHeld
  <1>3. n \in Keys /\ info[e].param = told[n]
    BY <1>2 DEF Known, TypeOK, Keys
  <1>4. Held' = Held /\ Busy' = Busy
    BY <1>1 DEF Held, Busy
  <1>5. stage' \in [Workers -> {"call", "free", "done"}] /\ \A v \in Workers : v # w => stage'[v] = stage[v]
    BY <1>1 DEF TypeOK
  <1>6. seen' \in [Keys -> 0 .. MaxSignals]
    BY <1>1, <1>3 DEF TypeOK
  <1>7. QTypeOK'
    BY <1>1 DEF TypeOK, QTypeOK
  <1>8. TypeOK'
    BY <1>1, <1>5, <1>6, <1>7 DEF TypeOK
  <1>9. Holding' /\ OneList' /\ QueuedApart' /\ Once'
    BY <1>1, <1>4, <1>5 DEF Holding, OneList, QueuedApart, Once
  <1>10. Known'
    BY <1>1, <1>4 DEF Known, Live
  <1>11. LastEventSeen'
    <2> SUFFICES ASSUME NEW k \in Keys, seen'[k] < told[k]
                 PROVE  Waiting(k)' # {} \/ Queued(k)' # {}
      BY <1>1 DEF LastEventSeen
    <2>1. k # n
      BY <1>1, <1>3 DEF TypeOK
    <2>2. seen[k] < told[k]
      BY <1>1, <2>1
    <2>3. Queued(k)' = Queued(k)
      BY <1>1 DEF Queued
    <2>4. Waiting(k) \subseteq Waiting(k)'
      BY <1>1, <1>5, <2>1 DEF Waiting
    <2> QED BY <2>2, <2>3, <2>4 DEF LastEventSeen
  <1> QED BY <1>8, <1>9, <1>10, <1>11

\* The entry of a one-shot registration is free after its only call: nobody else
\* has it, and this worker uses it no more.  That of a lasting one stays pending.
LEMMA FreePreserves ==
  ASSUME NEW w \in Workers, IInv, Free(w) PROVE IInv'
  <1> USE DEF IInv, Placed, qvars
  <1> DEFINE e == job[w]
             last == info[e].event \in OneShot
  <1>1. /\ UNCHANGED <<qvars, info, heap, pending, client, lastKey, signals, told, seen, works>>
        /\ e \in Entries /\ stage[w] = "free"
        /\ stage' = [stage EXCEPT ![w] = "done"]
        /\ free' = IF last THEN Append(free, e) ELSE free
    BY DEF Free
  <1>2. /\ stage' \in [Workers -> {"call", "free", "done"}] /\ stage'[w] = "done"
        /\ \A v \in Workers : v # w => stage'[v] = stage[v]
    BY <1>1 DEF TypeOK
  <1>3. w \in Users /\ w \notin Users' /\ Users' \subseteq Users /\ e \in Held
    <2>1. w \in Users /\ w \notin Users' /\ Users' \subseteq Users
      BY <1>1, <1>2
    <2> QED BY <1>1, <2>1, LiveHeld
  <1>4. Held' \subseteq Held /\ Busy' = Busy
    BY <1>1, <1>3 DEF Held, Busy
  <1>5. last => /\ e \notin Range(free) /\ e \in heap /\ e \notin Busy /\ e \notin Range(pending)
                /\ e \notin Range(queue) /\ \A v \in Users' : job[v] # e
    BY <1>1, <1>3 DEF OneList, Holding, Once
  <1>6. /\ free' \in Seq(heap) /\ IsInjective(free')
        /\ Range(free') = IF last THEN Range(free) \cup {e} ELSE Range(free)
    <2>1. CASE last
      BY <1>1, <1>5, <2>1, AppendRange DEF TypeOK, OneList
    <2>2. CASE ~last
      BY <1>1, <2>2 DEF TypeOK, OneList
    <2> QED BY <2>1, <2>2
  <1> HIDE DEF last
  <1>7. TypeOK'
    <2>1. QTypeOK'
      BY <1>1 DEF TypeOK, QTypeOK
    <2> QED BY <1>1, <1>2, <1>6, <2>1 DEF TypeOK
  <1>8. Holding'
    <2>1. \A v \in Workers : at'[v] # "run" => job'[v] = NoItem /\ stage'[v] = "call"
      BY <1>1, <1>2, InHeap DEF Holding
    <2> QED BY <1>1, <1>4, <2>1 DEF Holding
  <1>9. QueuedApart' /\ OneList'
    BY <1>1, <1>2, <1>3, <1>4, <1>5, <1>6 DEF QueuedApart, OneList
  <1>10. Once'
    BY <1>1, <1>3, <1>4 DEF Once
  <1>11. Known'
    <2>1. Live' \subseteq Live
      BY <1>1, <1>4 DEF Live
    <2> QED BY <1>1, <2>1 DEF Known
  <1>12. LastEventSeen'
    <2>1. \A k \in Keys : Waiting(k)' = Waiting(k) /\ Queued(k)' = Queued(k)
      BY <1>1, <1>2 DEF Waiting, Queued
    <2> QED BY <1>1, <2>1 DEF LastEventSeen
  <1> QED BY <1>7, <1>8, <1>9, <1>10, <1>11, <1>12

\* A worker that has freed what it had, or had other work, has nothing after it.
LEMMA FinishPreserves ==
  ASSUME NEW w \in Workers, IInv, Finish(w) PROVE IInv'
  <1> USE DEF IInv, Placed
  <1>1. /\ UNCHANGED <<info, heap, free, pending, client, lastKey, signals, told, seen, works>>
        /\ job[w] \in Entries => stage[w] = "done"
        /\ Return(w)
        /\ stage' = [stage EXCEPT ![w] = "call"]
    BY DEF Finish
  <1>2. /\ QTypeOK' /\ queue' = queue /\ at'[w] # "run" /\ job'[w] = NoItem /\ stage'[w] = "call"
        /\ stage' \in [Workers -> {"call", "free", "done"}]
        /\ \A v \in Workers : v # w => job'[v] = job[v] /\ at'[v] = at[v] /\ stage'[v] = stage[v]
    BY <1>1 DEF TypeOK, QTypeOK, Return
  <1>3. NoItem \notin Entries /\ w \in Users'
    BY <1>2, InHeap
  <1>4. \A v \in Users' : job'[v] \in Entries => v \in Users /\ job'[v] = job[v]
    BY <1>2, <1>3
  <1>5. Held' \subseteq Held /\ Busy' = Busy
    BY <1>1, <1>2, <1>4 DEF Held, Busy
  <1>6. TypeOK'
    BY <1>1, <1>2 DEF TypeOK
  <1>7. Holding' /\ QueuedApart'
    BY <1>1, <1>2, <1>5 DEF Holding, QueuedApart
  <1>8. OneList'
    BY <1>1, <1>4, <1>5 DEF OneList
  <1>9. Once'
    BY <1>1, <1>2, <1>4, <1>5 DEF Once
  <1>10. Known'
    <2>1. Live' \subseteq Live
      BY <1>1, <1>5 DEF Live
    <2> QED BY <1>1, <2>1 DEF Known
  <1>11. LastEventSeen'
    <2>1. \A k \in Keys : Waiting(k) \subseteq Waiting(k)'
      BY <1>1, <1>2 DEF Waiting
    <2>2. \A k \in Keys : Queued(k)' = Queued(k)
      BY <1>1, <1>2 DEF Queued
    <2> QED BY <1>1, <2>1, <2>2 DEF LastEventSeen
  <1> QED BY <1>6, <1>7, <1>8, <1>9, <1>10, <1>11

\* The other work is no entry.
LEMMA OtherWorkPreserves ==
  ASSUME NEW x \in Works, IInv, OtherWork(x) PROVE IInv'
  <1>1. UNCHANGED <<info, heap, free, pending, client, lastKey, stage, signals, told, seen>>
    BY DEF OtherWork
  <1>2. QTypeOK /\ works' \in 0 .. MaxWorks
    BY DEF IInv, Placed, TypeOK, OtherWork
  <1>3. x \notin Entries /\ x \in Items
    OBVIOUS
  <1>4. CASE CancelWork(x)
    <2>1. QTypeOK' /\ Range(queue') = Range(queue) \ {x} /\ UNCHANGED <<at, job>>
      BY <1>2, <1>4, CancelEffect
    <2> QED BY <1>1, <1>2, <1>3, <2>1, UntouchedPreserves
  <1>5. CASE \E d \in SUBSET {x} : QueueWork(<<x>>, d) \/ QueueWorkFromISR(<<x>>, d)
    <2>1. <<x>> \in Seq(Items) /\ IsInjective(<<x>>) /\ Range(<<x>>) = {x}
      BY <1>3 DEF IsInjective, Range
    <2>2. /\ QTypeOK' /\ Range(queue') = Range(queue) \cup {x} /\ job' = job
          /\ \A w \in Workers : at'[w] = "run" <=> at[w] = "run"
      BY <1>2, <1>5, <2>1, QueueWorkEffect
    <2> QED BY <1>1, <1>2, <1>3, <2>2, UntouchedPreserves
  <1> QED BY <1>4, <1>5 DEF OtherWork

\* Each step of Next, and a stutter, preserves the invariant.
LEMMA NextPreserves ==
  ASSUME TornDown \subseteq OneShot, IInv, [Next]_vars PROVE IInv'
  <1>1. PICK v : v \in Workers
    BY WorkersAssumption
  <1>2. ASSUME NEW w \in Workers, UNCHANGED nvars,
               Idle(w) \/ Wait(w) \/ Timeout(w) \/ DaemonSetsBits \/ \E x \in Items : Elapse(x)
        PROVE  IInv'
    <2>1. QTypeOK /\ works' \in 0 .. MaxWorks
      BY <1>2 DEF IInv, Placed, TypeOK, nvars
    <2>2. /\ QTypeOK' /\ UNCHANGED <<queue, job>>
          /\ \A u \in Workers : at'[u] = "run" <=> at[u] = "run"
      BY <1>2, <2>1, QuietEffect
    <2> QED BY <1>2, <2>1, <2>2, UntouchedPreserves DEF nvars
  <1>3. CASE UNCHANGED vars
    <2>1. QTypeOK' /\ works' \in 0 .. MaxWorks
      BY <1>3 DEF IInv, Placed, TypeOK, QTypeOK, vars, qvars, nvars
    <2> QED BY <1>3, <2>1, UntouchedPreserves DEF vars, qvars, nvars
  <1>4. ASSUME NEW c \in Clients,
               (\E ev \in Events : SetupTake(c, ev)) \/ SetupFill(c) \/ SetupAdd(c)
        PROVE  IInv'
    BY <1>4, SetupTakePreserves, SetupFillPreserves, SetupAddPreserves
  <1>5. ASSUME NEW w \in Workers, Step(w) PROVE IInv'
    <2>1. CASE TakeItem(w) BY <2>1, TakeItemPreserves
    <2>2. CASE Call(w) BY <2>2, CallPreserves
    <2>3. CASE Free(w) BY <2>3, FreePreserves
    <2>4. CASE Finish(w) BY <2>4, FinishPreserves
    <2>5. CASE Rest(w) BY <2>5, <1>2 DEF Rest
    <2> QED BY <1>5, <2>1, <2>2, <2>3, <2>4, <2>5 DEF Step
  <1>6. CASE \E e \in Entries : Teardown(e)
    BY <1>6, TeardownPreserves
  <1>7. CASE \E ev \in Events : Signal(ev)
    BY <1>7, SignalPreserves
  <1>8. CASE \E x \in Works : OtherWork(x)
    BY <1>8, OtherWorkPreserves
  <1>9. CASE Daemon \/ Time
    BY <1>9, <1>1, <1>2 DEF Daemon, Time
  <1> QED BY <1>3, <1>4, <1>5, <1>6, <1>7, <1>8, <1>9 DEF Next

\* The invariant holds in every reachable state, when no lasting registration
\* is torn down.
THEOREM EntriesAccounted == TornDown \subseteq OneShot => (Spec => []IInv)
  <1> SUFFICES ASSUME TornDown \subseteq OneShot PROVE Spec => []IInv
    OBVIOUS
  <1>1. IInv /\ [Next]_vars => IInv'
    BY NextPreserves
  <1> QED BY <1>1, InitHolds, PTL DEF Spec

\* The variables have their types.
THEOREM TypeCorrect == TornDown \subseteq OneShot => (Spec => []TypeOK)
  <1>1. IInv => TypeOK
    BY DEF IInv, Placed
  <1> QED BY <1>1, EntriesAccounted, PTL

\* An entry is in one list at most, free, pending or being set up, and in neither
\* of the first and the last while it is queued or a worker reads it, however the
\* setups, teardowns, events and calls interleave.  A worker that has freed it
\* may still hold it: what it does then is not about the lists.
THEOREM OneListAlways == TornDown \subseteq OneShot => (Spec => []OneList)
  <1>1. IInv => OneList
    BY DEF IInv, Placed
  <1> QED BY <1>1, EntriesAccounted, PTL

\* No registration that has not seen its last event is left without a call due.
THEOREM NoEventLost == TornDown \subseteq OneShot => (Spec => []LastEventSeen)
  <1>1. IInv => LastEventSeen
    BY DEF IInv
  <1> QED BY <1>1, EntriesAccounted, PTL

-----------------------------------------------------------------------------
(* The notifier calls as Notifier promises, but for the liveness of it.      *)

\* What a client sets up is for an event.
Filled == \A c \in Clients :
             /\ client[c].pc = "fill" => client[c].event \in Events
             /\ client[c].pc = "add" => info[client[c].entry].event \in Events

\* The registrations and the calls that are due, as Notifier sees them.
Armed == {<<info[e].key, info[e].event>> : e \in Range(pending)}
Due == [k \in Keys |-> Cardinality(Waiting(k)) + Cardinality(Queued(k))]

\* Nobody is setting anything up at first.
LEMMA InitFilled == Init => Filled
  BY DEF Init, Filled, Out

\* An entry that is being set up is nobody else's.
LEMMA FilledPreserves ==
  ASSUME IInv, Filled, [Next]_vars PROVE Filled'
  <1> USE DEF IInv, Placed
  <1>1. \A c \in Clients : client[c].pc # "out" => client[c].entry \in Busy /\ client[c].entry \in Entries
    <2>1. \A c \in Clients : client[c].pc # "out" => client[c].entry \in Busy
      BY DEF Busy
    <2> QED BY <2>1, InHeap DEF Holding
  <1>2. ASSUME client' = client, \A e \in Entries : info'[e].event = info[e].event PROVE Filled'
    BY <1>1, <1>2 DEF Filled
  <1>3. ASSUME NEW c \in Clients, NEW ev \in Events, SetupTake(c, ev) PROVE Filled'
    <2>1. PICK e \in Entries : client' = [client EXCEPT ![c] = [pc |-> "fill", event |-> ev, entry |-> e]]
      BY <1>3 DEF SetupTake
    <2>2. client'[c].pc = "fill" /\ client'[c].event = ev /\ \A d \in Clients : d # c => client'[d] = client[d]
      BY <2>1 DEF TypeOK
    <2>3. info' = info
      BY <1>3 DEF SetupTake
    <2> QED BY <2>2, <2>3 DEF Filled
  <1>4. ASSUME NEW c \in Clients, SetupFill(c) PROVE Filled'
    <2> DEFINE e == client[c].entry
    <2>1. /\ client[c].pc = "fill" /\ client' = [client EXCEPT ![c].pc = "add"]
          /\ info' = [info EXCEPT ![e] = [Blank EXCEPT !.event = client[c].event]]
      BY <1>4 DEF SetupFill
    <2>2. /\ client'[c].pc = "add" /\ client'[c].entry = e
          /\ \A d \in Clients : d # c => client'[d] = client[d]
      BY <2>1 DEF TypeOK
    <2>3. /\ info'[e].event = client[c].event
          /\ \A f \in Entries : f # e => info'[f] = info[f]
      BY <1>1, <2>1 DEF TypeOK, Blank
    <2>4. \A d \in Clients : d # c /\ client[d].pc # "out" => client[d].entry # e
      BY <2>1 DEF OneList
    <2> QED BY <1>1, <2>1, <2>2, <2>3, <2>4 DEF Filled
  <1>5. ASSUME NEW c \in Clients, SetupAdd(c) PROVE Filled'
    <2> DEFINE e == client[c].entry
    <2>1. /\ client[c].pc = "add" /\ client' = [client EXCEPT ![c] = Out]
          /\ info' = [info EXCEPT ![e].key = lastKey']
      BY <1>5 DEF SetupAdd
    <2>2. client'[c].pc = "out" /\ \A d \in Clients : d # c => client'[d] = client[d]
      BY <2>1 DEF TypeOK, Out
    <2>3. \A f \in Entries : f # e => info'[f] = info[f]
      BY <2>1 DEF TypeOK
    <2>4. \A d \in Clients : d # c /\ client[d].pc # "out" => client[d].entry # e
      BY <2>1 DEF OneList
    <2> QED BY <1>1, <2>2, <2>3, <2>4 DEF Filled
  <1>6. ASSUME NEW ev \in Events, Signal(ev) PROVE Filled'
    <2> DEFINE s == Keep(pending, {e \in Entries : info[e].event = ev})
    <2>1. /\ client' = client
          /\ info' = [e \in Entries |-> IF e \in Range(s)
                                        THEN [info[e] EXCEPT !.param = signals'] ELSE info[e]]
      BY <1>6 DEF Signal
    <2> HIDE DEF s
    <2>2. \A e \in Entries : info'[e].event = info[e].event
      BY <2>1 DEF TypeOK
    <2> QED BY <1>2, <2>1, <2>2
  <1>7. ASSUME UNCHANGED <<client, info>> PROVE Filled'
    BY <1>2, <1>7
  <1>8. ASSUME NEW w \in Workers, Step(w) PROVE Filled'
    BY <1>7, <1>8 DEF Step, TakeItem, Call, Free, Finish, Rest, nvars
  <1>9. CASE \E e \in Entries : Teardown(e)
    BY <1>7, <1>9 DEF Teardown
  <1>10. CASE \E x \in Works : OtherWork(x)
    BY <1>7, <1>10 DEF OtherWork
  <1>11. CASE Daemon \/ Time \/ UNCHANGED vars
    BY <1>7, <1>11 DEF Daemon, Time, vars, nvars
  <1> QED BY <1>3, <1>4, <1>5, <1>6, <1>8, <1>9, <1>10, <1>11 DEF Next

\* The calls that are due can be counted: at most one from the queue, and one
\* from each worker.
LEMMA DueCount ==
  ASSUME IsFiniteSet(Workers), IInv, NEW k \in Keys
  PROVE  /\ IsFiniteSet(Waiting(k)) /\ Cardinality(Waiting(k)) \in Nat
         /\ \A e, f \in Queued(k) : e = f
         /\ Queued(k) = {} => Cardinality(Queued(k)) = 0
         /\ Queued(k) # {} => Cardinality(Queued(k)) = 1
         /\ Due[k] = Cardinality(Waiting(k)) + Cardinality(Queued(k))
  <1>1. IsFiniteSet(Waiting(k)) /\ Cardinality(Waiting(k)) \in Nat
    <2>1. Waiting(k) \in SUBSET Workers
      BY DEF Waiting
    <2>2. IsFiniteSet(Waiting(k))
      BY <2>1, FS_Subset
    <2> QED BY <2>2, FS_CardinalityType
  <1>2. \A e, f \in Queued(k) : e = f
    <2>1. Queued(k) \subseteq Live
      BY LiveHeld DEF IInv, Queued
    <2>2. \A e \in Queued(k) : info[e].key = k
      BY DEF Queued
    <2> QED BY <2>1, <2>2 DEF IInv, Known
  <1>3. Queued(k) = {} \/ \E e : Queued(k) = {e}
    BY <1>2
  <1>4. /\ Queued(k) = {} => Cardinality(Queued(k)) = 0
        /\ Queued(k) # {} => Cardinality(Queued(k)) = 1
    BY <1>3, FS_EmptySet, FS_Singleton
  <1> QED BY <1>1, <1>2, <1>4 DEF Due

\* A step that Notifier does not see.
LEMMA Unseen ==
  ASSUME Armed' = Armed, lastKey' = lastKey, \A k \in Keys : Due'[k] = Due[k]
  PROVE  [N!Next]_<<Armed, 1 .. lastKey, Due>>
  <1>1. Due' = Due
    BY DEF Due
  <1> QED BY <1>1

\* What makes no call due and ends none: the same entries with the same keys, with
\* the queue and the workers.
LEMMA SameDue ==
  ASSUME IInv, \A e \in Live : info'[e].key = info[e].key,
         Range(queue') \cap Entries = Range(queue) \cap Entries, job' = job, stage' = stage
  PROVE  \A k \in Keys : Waiting(k)' = Waiting(k) /\ Queued(k)' = Queued(k) /\ Due'[k] = Due[k]
  <1>1. /\ \A w \in Users : job[w] \in Entries => job[w] \in Live
        /\ \A e \in Range(queue) \cap Entries : e \in Live
    BY LiveHeld DEF IInv
  <1>2. \A k \in Keys : Waiting(k)' = Waiting(k) /\ Queued(k)' = Queued(k)
    BY <1>1 DEF Waiting, Queued
  <1> QED BY <1>2 DEF Due

\* A client that takes an entry or fills it in is not seen; one that adds it
\* makes a registration.
LEMMA SetupRefines ==
  ASSUME NEW c \in Clients, IInv, Filled,
         (\E ev \in Events : SetupTake(c, ev)) \/ SetupFill(c) \/ SetupAdd(c)
  PROVE  [N!Next]_<<Armed, 1 .. lastKey, Due>>
  <1> DEFINE e == client[c].entry
  <1> USE DEF IInv, Placed
  <1>1. CASE \E ev \in Events : SetupTake(c, ev)
    <2>1. UNCHANGED <<queue, job, info, pending, lastKey, stage>>
      BY <1>1 DEF SetupTake, qvars
    <2>2. Armed' = Armed /\ \A k \in Keys : Due'[k] = Due[k]
      BY <2>1, SameDue DEF Armed
    <2> QED BY <2>1, <2>2, Unseen
  <1>2. ASSUME client[c].pc # "out"
        PROVE  /\ e \in Busy /\ e \in Entries /\ e \notin Live /\ e \notin Range(pending)
               /\ Live \subseteq Entries /\ Range(pending) \subseteq Live
    <2>1. e \in Busy
      BY <1>2 DEF Busy
    <2> QED BY <2>1, InHeap, LiveHeld DEF Holding, Live
  <1>3. CASE SetupFill(c)
    <2>1. /\ UNCHANGED <<queue, job, pending, lastKey, stage>> /\ client[c].pc # "out"
          /\ info' = [info EXCEPT ![e] = [Blank EXCEPT !.event = client[c].event]]
      BY <1>3 DEF SetupFill, qvars
    <2>2. \A f \in Live : info'[f] = info[f]
      BY <1>2, <2>1 DEF TypeOK
    <2>3. Armed' = Armed
      BY <1>2, <2>1, <2>2 DEF Armed
    <2>4. \A k \in Keys : Due'[k] = Due[k]
      BY <2>1, <2>2, SameDue
    <2> QED BY <2>1, <2>3, <2>4, Unseen
  <1>4. CASE SetupAdd(c)
    <2> DEFINE ev == info[e].event
    <2>1. /\ UNCHANGED <<queue, job, stage>>
          /\ client[c].pc = "add" /\ lastKey < MaxKeys /\ lastKey' = lastKey + 1
          /\ info' = [info EXCEPT ![e].key = lastKey']
          /\ pending' = Append(pending, e)
      BY <1>4 DEF SetupAdd, qvars
    <2>2. /\ \A f \in Entries : f # e => info'[f] = info[f]
          /\ info'[e].key = lastKey' /\ info'[e].event = ev
      BY <1>2, <2>1 DEF TypeOK
    <2>3. Range(pending') = Range(pending) \cup {e}
      <3>1. e \in heap
        BY <1>2, <2>1 DEF Holding
      <3> QED BY <2>1, <3>1, AppendRange DEF TypeOK
    <2>4. \A f \in Live : info'[f] = info[f]
      BY <1>2, <2>1, <2>2
    <2>5. Armed' = Armed \cup {<<lastKey', ev>>}
      <3>1. \A f \in Range(pending) : info'[f] = info[f]
        BY <1>2, <2>1, <2>4
      <3> QED BY <2>2, <2>3, <3>1 DEF Armed
    <2>6. Due' = Due
      <3>1. \A k \in Keys : Due'[k] = Due[k]
        BY <2>1, <2>4, SameDue
      <3> QED BY <3>1 DEF Due
    <2>7. ev \in Events
      BY <2>1 DEF Filled
    <2>8. lastKey' \in Keys \ (1 .. lastKey) /\ 1 .. lastKey' = (1 .. lastKey) \cup {lastKey'}
      BY <2>1 DEF TypeOK, Keys
    <2>9. N!Setup
      <3> HIDE DEF ev
      <3> QED BY <2>5, <2>6, <2>7, <2>8 DEF N!Setup, Armed, Due
    <2> QED BY <2>9 DEF N!Next
  <1> QED BY <1>1, <1>3, <1>4

\* A registration that is torn down has no call due: it is for one shot.
LEMMA TeardownRefines ==
  ASSUME TornDown \subseteq OneShot, IsFiniteSet(Workers), IInv, NEW e \in Entries, Teardown(e)
  PROVE  [N!Next]_<<Armed, 1 .. lastKey, Due>>
  <1> USE DEF IInv, Placed
  <1> DEFINE n == info[e].key
             p == <<n, info[e].event>>
  <1>1. PICK i \in DOMAIN pending : pending[i] = e /\ pending' = RemoveAt(pending, i)
    BY DEF Teardown
  <1>2. UNCHANGED <<queue, job, info, lastKey, stage>> /\ info[e].event \in OneShot
    BY DEF Teardown, qvars
  <1>3. e \in Range(pending) /\ e \in Live
    BY <1>1 DEF Range, Live
  <1>4. Range(pending') = Range(pending) \ {e}
    BY <1>1, RemoveAtProperties DEF TypeOK, OneList
  <1>5. e \notin Held
    BY <1>2, <1>3 DEF Once
  <1>6. n \in Keys
    BY <1>3 DEF Known, TypeOK, Keys
  <1>7. p \in Armed /\ Armed' = Armed \ {p}
    <2>1. \A f \in Range(pending) : info[f].key = n => f = e
      BY <1>3 DEF Known, Live
    <2>2. \A f \in Range(pending) : <<info[f].key, info[f].event>> = p => f = e
      BY <2>1
    <2> QED BY <1>2, <1>3, <1>4, <2>2 DEF Armed
  <1>8. Due[n] = 0
    <2>1. \A f \in Held : info[f].key # n
      BY <1>3, <1>5, LiveHeld DEF Known
    <2>2. Waiting(n) = {} /\ Queued(n) = {}
      BY <2>1, LiveHeld DEF Waiting, Queued
    <2> QED BY <1>6, <2>2, FS_EmptySet DEF Due
  <1>9. Due' = Due
    <2>1. \A k \in Keys : Due'[k] = Due[k]
      BY <1>2, SameDue
    <2> QED BY <2>1 DEF Due
  <1>10. Due' = [Due EXCEPT ![p[1]] = 0]
    BY <1>6, <1>8, <1>9 DEF Due
  <1> HIDE DEF p
  <1>11. N!Teardown
    BY <1>2, <1>7, <1>10 DEF N!Teardown, Armed, Due
  <1> QED BY <1>11 DEF N!Next

\* Every registration for the event has a call due, one more than before or the
\* one it already had.
LEMMA SignalRefines ==
  ASSUME IsFiniteSet(Workers), IInv, NEW ev \in Events, Signal(ev)
  PROVE  [N!Next]_<<Armed, 1 .. lastKey, Due>>
  <1> USE DEF IInv, Placed
  <1> DEFINE A == {e \in Entries : info[e].event = ev}
             s == Keep(pending, A)
             S == Range(s)
             called_for == {k \in Keys : <<k, ev>> \in Armed}
  <1>1. /\ s \in Seq(heap) /\ S = Range(pending) \cap A /\ IsInjective(s)
    BY KeepProperties DEF TypeOK, OneList
  <1>2. /\ pending' = IF ev \in OneShot THEN Keep(pending, Entries \ S) ELSE pending
        /\ info' = [e \in Entries |-> IF e \in S
                                      THEN [info[e] EXCEPT !.param = signals'] ELSE info[e]]
        /\ s = <<>> => UNCHANGED qvars
        /\ s # <<>> => QueueWork(s, {}) \/ QueueWorkFromISR(s, {})
        /\ UNCHANGED <<lastKey, stage>>
    BY DEF Signal
  <1> HIDE DEF s
  <1>3. S \subseteq Range(pending) /\ S \subseteq Entries /\ Range(pending) \subseteq Entries
        /\ \A e \in Range(pending) : e \in S <=> info[e].event = ev
    BY <1>1, InHeap
  <1>4. Range(queue') = Range(queue) \cup S /\ job' = job
    <2>1. CASE s = <<>>
      BY <1>1, <1>2, <2>1 DEF Range, qvars
    <2>2. CASE s # <<>>
      <3>1. QTypeOK /\ s \in Seq(Items)
        BY <1>1, SeqMonotonic DEF TypeOK
      <3> QED BY <1>1, <1>2, <2>2, <3>1, QueueWorkEffect
    <2> QED BY <2>1, <2>2
  <1>5. Range(pending') = IF ev \in OneShot THEN Range(pending) \ S ELSE Range(pending)
    <2>1. Range(Keep(pending, Entries \ S)) = Range(pending) \cap (Entries \ S)
      BY KeepProperties DEF TypeOK
    <2> QED BY <1>2, <1>3, <2>1
  <1>6. \A e \in Entries : info'[e].key = info[e].key /\ info'[e].event = info[e].event
    BY <1>2 DEF TypeOK
  <1>7. \A e \in S : info[e].key \in Keys
    BY <1>3 DEF Known, Live, TypeOK, Keys
  <1>8. \A k \in Keys : k \in called_for <=> \E e \in S : info[e].key = k
    BY <1>3 DEF Armed
  <1>9. Armed' = IF ev \in OneShot THEN Armed \ (called_for \X {ev}) ELSE Armed
    <2>1. Armed' = {<<info[e].key, info[e].event>> : e \in Range(pending')}
      BY <1>3, <1>5, <1>6 DEF Armed
    <2>2. CASE ev \in OneShot
      <3>1. \A e \in S : <<info[e].key, info[e].event>> \in called_for \X {ev}
        BY <1>3, <1>7, <1>8
      <3>2. \A e \in Range(pending) : e \notin S => <<info[e].key, info[e].event>> \notin called_for \X {ev}
        BY <1>3
      <3> HIDE DEF called_for
      <3> QED BY <1>5, <2>1, <2>2, <3>1, <3>2 DEF Armed
    <2>3. CASE ev \notin OneShot
      BY <1>5, <2>1, <2>3 DEF Armed
    <2> QED BY <2>2, <2>3
  <1>10. ASSUME NEW k \in Keys
         PROVE  IF k \in called_for THEN Due'[k] \in {Due[k], Due[k] + 1} \ {0} ELSE Due'[k] = Due[k]
    <2>1. Waiting(k)' = Waiting(k)
      BY <1>2, <1>4, <1>6 DEF Waiting
    <2>2. Queued(k)' = Queued(k) \cup {e \in S : info[e].key = k}
      BY <1>3, <1>4, <1>6 DEF Queued
    <2>3. CASE k \notin called_for
      <3>1. Queued(k)' = Queued(k)
        BY <1>8, <2>2, <2>3
      <3>2. /\ Due[k] = Cardinality(Waiting(k)) + Cardinality(Queued(k))
            /\ Due'[k] = Cardinality(Waiting(k)') + Cardinality(Queued(k)')
        BY DEF Due
      <3>3. Due'[k] = Due[k]
        BY <2>1, <3>1, <3>2
      <3> QED BY <2>3, <3>3
    <2>4. CASE k \in called_for
      <3>1. Queued(k)' # {}
        BY <1>8, <2>2, <2>4
      <3>2. Cardinality(Queued(k)') = 1 /\ Due'[k] = Cardinality(Waiting(k)') + Cardinality(Queued(k)')
        <4>1. /\ Queued(k)' # {} => Cardinality(Queued(k)') = 1
              /\ Due'[k] = Cardinality(Waiting(k)') + Cardinality(Queued(k)')
          <5>1. \A e, f \in Queued(k)' : e = f
            <6>1. Queued(k) \subseteq Live /\ {e \in S : info[e].key = k} \subseteq Live
              BY <1>3, LiveHeld DEF Queued, Live
            <6>2. \A e \in Queued(k)' : e \in Live /\ info[e].key = k
              BY <2>2, <6>1 DEF Queued
            <6> QED BY <6>2 DEF Known
          <5>2. Queued(k)' = {} \/ \E e : Queued(k)' = {e}
            BY <5>1
          <5> QED BY <5>2, FS_Singleton DEF Due
        <4> QED BY <3>1, <4>1
      <3>3. /\ Cardinality(Waiting(k)) \in Nat /\ Cardinality(Queued(k)) \in {0, 1}
            /\ Due[k] = Cardinality(Waiting(k)) + Cardinality(Queued(k))
        BY DueCount
      <3>4. Due'[k] = Cardinality(Waiting(k)) + 1
        BY <2>1, <3>2
      <3> QED BY <2>4, <3>3, <3>4
    <2> QED BY <2>3, <2>4
  <1> HIDE DEF S, A
  <1>11. N!Signal
    BY <1>2, <1>9, <1>10 DEF N!Signal, Armed, Due
  <1> QED BY <1>11 DEF N!Next

\* A call that is due stays due when a worker takes it from the queue.
LEMMA TakeItemRefines ==
  ASSUME IsFiniteSet(Workers), IInv, NEW w \in Workers, TakeItem(w)
  PROVE  [N!Next]_<<Armed, 1 .. lastKey, Due>>
  <1> USE DEF IInv, Placed
  <1>1. UNCHANGED nvars /\ QTypeOK
    BY DEF TakeItem, TypeOK
  <1>2. PICK x \in Range(queue) :
           /\ Range(queue') = Range(queue) \ {x} /\ job' = [job EXCEPT ![w] = x]
           /\ at[w] = "scan"
    BY <1>1, TakeEffect DEF TakeItem
  <1>3. /\ job[w] = NoItem /\ stage[w] = "call" /\ job'[w] = x
        /\ \A v \in Workers : v # w => job'[v] = job[v]
    BY <1>1, <1>2 DEF Holding, QTypeOK
  <1>4. NoItem \notin Entries
    BY InHeap
  <1>5. ASSUME NEW k \in Keys PROVE Due'[k] = Due[k]
    <2>1. /\ Cardinality(Waiting(k)) \in Nat /\ IsFiniteSet(Waiting(k))
          /\ \A e, f \in Queued(k) : e = f
          /\ Queued(k) # {} => Cardinality(Queued(k)) = 1
          /\ Due[k] = Cardinality(Waiting(k)) + Cardinality(Queued(k))
      BY DueCount
    <2>2. Due'[k] = Cardinality(Waiting(k)') + Cardinality(Queued(k)')
      BY DEF Due
    <2>3. CASE x \in Entries /\ info[x].key = k
      <3>1. x \in Queued(k) /\ Queued(k)' = Queued(k) \ {x}
        BY <1>1, <1>2, <2>3 DEF Queued, nvars
      <3>2. Queued(k)' = {} /\ Cardinality(Queued(k)) = 1
        BY <2>1, <3>1
      <3>3. w \notin Waiting(k) /\ Waiting(k)' = Waiting(k) \cup {w}
        BY <1>1, <1>3, <1>4, <2>3 DEF Waiting, nvars
      <3>4. Cardinality(Waiting(k)') = Cardinality(Waiting(k)) + 1
        BY <2>1, <3>3, FS_AddElement
      <3> QED BY <2>1, <2>2, <3>2, <3>4, FS_EmptySet
    <2>4. CASE ~(x \in Entries /\ info[x].key = k)
      <3>1. Queued(k)' = Queued(k)
        BY <1>1, <1>2, <2>4 DEF Queued, nvars
      <3>2. Waiting(k)' = Waiting(k)
        BY <1>1, <1>3, <1>4, <2>4 DEF Waiting, nvars
      <3> QED BY <2>1, <2>2, <3>1, <3>2
    <2> QED BY <2>3, <2>4
  <1>6. Armed' = Armed /\ lastKey' = lastKey
    BY <1>1 DEF Armed, nvars
  <1> QED BY <1>5, <1>6, Unseen

\* A callback is a call that was due.
LEMMA CallRefines ==
  ASSUME IsFiniteSet(Workers), IInv, NEW w \in Workers, Call(w)
  PROVE  [N!Next]_<<Armed, 1 .. lastKey, Due>>
  <1> USE DEF IInv, Placed
  <1>1. /\ UNCHANGED <<queue, job, info, pending, lastKey>>
        /\ job[w] \in Entries /\ stage[w] = "call" /\ stage' = [stage EXCEPT ![w] = "free"]
    BY DEF Call, qvars
  <1>2. PICK n \in Keys : n = info[job[w]].key
    <2>1. w \in Users /\ job[w] \in Live
      BY <1>1, LiveHeld
    <2>2. info[job[w]].key \in Keys
      BY <2>1 DEF Known, TypeOK, Keys
    <2> QED BY <2>2
  <1>3. \A k \in Keys : Queued(k)' = Queued(k)
    BY <1>1 DEF Queued
  <1>4. /\ stage'[w] = "free" /\ \A v \in Workers : v # w => stage'[v] = stage[v]
    BY <1>1 DEF TypeOK
  <1>5. w \in Waiting(n)
    BY <1>1, <1>2 DEF Waiting
  <1>6. /\ Waiting(n)' = Waiting(n) \ {w}
        /\ \A k \in Keys : k # n => Waiting(k)' = Waiting(k)
    BY <1>1, <1>2, <1>4 DEF Waiting
  <1>7. /\ IsFiniteSet(Waiting(n)) /\ Cardinality(Waiting(n)) \in Nat
        /\ Cardinality(Queued(n)) \in {0, 1}
        /\ Due[n] = Cardinality(Waiting(n)) + Cardinality(Queued(n))
    BY <1>2, DueCount
  <1>8. /\ Cardinality(Waiting(n)') = Cardinality(Waiting(n)) - 1 /\ Cardinality(Waiting(n)) > 0
    <2>1. Cardinality(Waiting(n)') = Cardinality(Waiting(n)) - 1
      BY <1>5, <1>6, <1>7, FS_RemoveElement
    <2>2. Cardinality(Waiting(n)) # 0
      BY <1>5, <1>7, FS_EmptySet
    <2> QED BY <1>7, <2>1, <2>2
  <1>9. Due[n] > 0
    BY <1>7, <1>8
  <1>10. Due' = [Due EXCEPT ![n] = @ - 1]
    <2>1. Due'[n] = Cardinality(Waiting(n)') + Cardinality(Queued(n)')
      BY <1>2 DEF Due
    <2>2. Due'[n] = Due[n] - 1
      BY <1>2, <1>3, <1>7, <1>8, <2>1
    <2>3. ASSUME NEW k \in Keys, k # n PROVE Due'[k] = Due[k]
      <3>1. /\ Due'[k] = Cardinality(Waiting(k)') + Cardinality(Queued(k)')
            /\ Due[k] = Cardinality(Waiting(k)) + Cardinality(Queued(k))
        BY DEF Due
      <3> QED BY <1>3, <1>6, <2>3, <3>1
    <2>4. DOMAIN Due = Keys /\ DOMAIN Due' = Keys /\ Due = [k \in Keys |-> Due[k]] /\ Due' = [k \in Keys |-> Due'[k]]
      BY DEF Due
    <2> QED BY <1>2, <2>2, <2>3, <2>4
  <1>11. Armed' = Armed
    BY <1>1 DEF Armed
  <1>12. N!Call(n)
    BY <1>1, <1>9, <1>10, <1>11 DEF N!Call, Armed, Due
  <1> QED BY <1>2, <1>12 DEF N!Next

\* What the worker has called it owes no more, when it frees the entry and when
\* it returns.
LEMMA FinishRefines ==
  ASSUME IInv, NEW w \in Workers, Free(w) \/ Finish(w)
  PROVE  [N!Next]_<<Armed, 1 .. lastKey, Due>>
  <1> USE DEF IInv, Placed
  <1>1. /\ UNCHANGED <<queue, info, pending, lastKey>>
        /\ job[w] \in Entries => stage[w] # "call"
        /\ \/ job' = job /\ stage' = [stage EXCEPT ![w] = "done"]
           \/ job' = [job EXCEPT ![w] = NoItem] /\ stage' = [stage EXCEPT ![w] = "call"]
    BY DEF Free, Finish, Return, qvars
  <1>2. /\ job'[w] \in Entries => stage'[w] # "call"
        /\ \A v \in Workers : v # w => job'[v] = job[v] /\ stage'[v] = stage[v]
    BY <1>1, InHeap DEF TypeOK, QTypeOK
  <1>3. ASSUME NEW k \in Keys PROVE Due'[k] = Due[k]
    <2>1. Waiting(k)' = Waiting(k) /\ Queued(k)' = Queued(k)
      BY <1>1, <1>2 DEF Waiting, Queued
    <2> QED BY <2>1 DEF Due
  <1>4. Armed' = Armed
    BY <1>1 DEF Armed
  <1> QED BY <1>1, <1>3, <1>4, Unseen

\* The other work is no entry, and the rest of the queue's steps leave the entries
\* where they are.
LEMMA OthersRefine ==
  ASSUME IInv,
         \/ \E x \in Works : OtherWork(x)
         \/ \E w \in Workers : Rest(w)
         \/ Daemon \/ Time \/ UNCHANGED vars
  PROVE  [N!Next]_<<Armed, 1 .. lastKey, Due>>
  <1> USE DEF IInv, Placed
  <1>1. UNCHANGED <<info, pending, lastKey, stage>>
    BY DEF OtherWork, Rest, Daemon, Time, vars, nvars
  <1>2. QTypeOK
    BY DEF TypeOK
  <1>3. Range(queue') \cap Entries = Range(queue) \cap Entries /\ job' = job
    <2>1. ASSUME NEW x \in Works, OtherWork(x)
          PROVE  Range(queue') \cap Entries = Range(queue) \cap Entries /\ job' = job
      <3>1. x \notin Entries /\ x \in Items
        OBVIOUS
      <3>2. CASE CancelWork(x)
        BY <1>2, <3>1, <3>2, CancelEffect
      <3>3. CASE \E d \in SUBSET {x} : QueueWork(<<x>>, d) \/ QueueWorkFromISR(<<x>>, d)
        <4>1. <<x>> \in Seq(Items) /\ IsInjective(<<x>>) /\ Range(<<x>>) = {x}
          BY <3>1 DEF IsInjective, Range
        <4> QED BY <1>2, <3>1, <3>3, <4>1, QueueWorkEffect, ZenonT(60)
      <3> QED BY <2>1, <3>2, <3>3 DEF OtherWork
    <2>2. CASE (\E w \in Workers : Rest(w)) \/ Daemon \/ Time \/ UNCHANGED vars
      BY <2>2 DEF Rest, Daemon, DaemonSetsBits, Time, Elapse, Idle, Wait, Timeout, vars, qvars
    <2> QED BY <2>1, <2>2
  <1>4. Armed' = Armed
    BY <1>1 DEF Armed
  <1>5. \A k \in Keys : Due'[k] = Due[k]
    BY <1>1, <1>3, SameDue
  <1> QED BY <1>1, <1>4, <1>5, Unseen

\* No registration, no call.
LEMMA InitRefines == Init => N!Init
  <1> SUFFICES ASSUME Init PROVE N!Init
    OBVIOUS
  <1>1. Range(pending) = {} /\ Range(queue) = {} /\ 1 .. lastKey = {}
    BY DEF Init, QInit, Range
  <1>2. \A w \in Workers : job[w] \notin Entries
    BY DEF Init, QInit
  <1>3. \A k \in Keys : Waiting(k) = {} /\ Queued(k) = {}
    BY <1>1, <1>2 DEF Waiting, Queued
  <1>4. \A k \in Keys : Cardinality(Waiting(k)) + Cardinality(Queued(k)) = 0
    BY <1>3, FS_EmptySet
  <1> QED BY <1>1, <1>4 DEF N!Init

\* work_notifier_setup, _signal and _teardown, called by threads and interrupts
\* while the workers call back, keep what Notifier promises: a registration is
\* called only for events after it was set up, never more often than they occur,
\* and not at all once it was torn down.
THEOREM PromisesKept ==
  ASSUME TornDown \subseteq OneShot, IsFiniteSet(Workers)
  PROVE  Spec => N!Safety
  <1>1. Init => IInv /\ Filled /\ N!Init
    BY InitHolds, InitFilled, InitRefines
  <1>2. IInv /\ Filled /\ [Next]_vars => (IInv /\ Filled)'
    BY NextPreserves, FilledPreserves
  <1>3. IInv /\ Filled /\ [Next]_vars => [N!Next]_<<Armed, 1 .. lastKey, Due>>
    <2> SUFFICES ASSUME IInv, Filled, [Next]_vars PROVE [N!Next]_<<Armed, 1 .. lastKey, Due>>
      OBVIOUS
    <2>1. ASSUME NEW c \in Clients,
                 (\E ev \in Events : SetupTake(c, ev)) \/ SetupFill(c) \/ SetupAdd(c)
          PROVE  [N!Next]_<<Armed, 1 .. lastKey, Due>>
      BY <2>1, SetupRefines
    <2>2. ASSUME NEW w \in Workers, Step(w) PROVE [N!Next]_<<Armed, 1 .. lastKey, Due>>
      BY <2>2, TakeItemRefines, CallRefines, FinishRefines, OthersRefine DEF Step
    <2>3. CASE \E e \in Entries : Teardown(e)
      BY <2>3, TeardownRefines
    <2>4. CASE \E ev \in Events : Signal(ev)
      BY <2>4, SignalRefines
    <2>5. CASE (\E x \in Works : OtherWork(x)) \/ Daemon \/ Time \/ UNCHANGED vars
      BY <2>5, OthersRefine
    <2> QED BY <2>1, <2>2, <2>3, <2>4, <2>5 DEF Next
  <1> QED BY <1>1, <1>2, <1>3, PTL DEF Spec, N!Safety, Armed, Due

-----------------------------------------------------------------------------
(* No wake-up is lost, for every number of worker threads and items: first  *)
(* for the queue under any use, then for the notifications on it.           *)

USE WorkersAssumption

\* What the threads and the bit keep.  The bit is only set while every thread
\* is still to look at it, so that it cannot be left set with all asleep.
WInv ==
    /\ at \in [Workers -> {"scan", "run", "idle", "asleep"}]
    /\ nap \in [Workers -> BOOLEAN]
    /\ bit \in BOOLEAN
    /\ bit => \A w \in Workers : at[w] # "asleep"
    /\ NoLostWake

\* The queue starts empty.
LEMMA QInitWake == QInit => WInv
  BY DEF QInit, WInv, NoLostWake

\* Setting the bit leaves a thread that will look at the list.
LEMMA SetBitsWakes ==
  ASSUME WInv, SetBits
  PROVE  /\ at' \in [Workers -> {"scan", "run", "idle", "asleep"}]
         /\ nap' \in [Workers -> BOOLEAN]
         /\ bit' \in BOOLEAN
         /\ bit' => \A w \in Workers : at'[w] # "asleep"
         /\ \E w \in Workers : at'[w] \in {"scan", "run"} \/ (at'[w] = "idle" /\ bit')
  BY DEF WInv, SetBits

\* Queueing work sets the bit, or leaves that to the daemon.
LEMMA QueueWorkWakes ==
  ASSUME ~TimerFull, NEW s, NEW d, WInv, QueueWork(s, d) \/ QueueWorkFromISR(s, d)
  PROVE  WInv'
  <1>1. CASE QueueWork(s, d)
    BY <1>1, SetBitsWakes DEF QueueWork, WInv, NoLostWake
  <1>2. CASE QueueWorkFromISR(s, d)
    BY <1>2 DEF QueueWorkFromISR, WInv, NoLostWake
  <1> QED BY <1>1, <1>2

\* So does the daemon, which does it late.
LEMMA DaemonWakes == ASSUME WInv, DaemonSetsBits PROVE WInv'
  BY SetBitsWakes DEF DaemonSetsBits, WInv, NoLostWake

\* What shortens the list or only moves the clock wakes nobody up.
LEMMA OthersKeepWake ==
  ASSUME NEW x, WInv, CancelWork(x) \/ Elapse(x)
  PROVE  WInv'
  <1>1. CASE CancelWork(x)
    <2>1. queue # <<>>
      BY <1>1 DEF CancelWork, Range
    <2> QED BY <1>1, <2>1 DEF CancelWork, WInv, NoLostWake
  <1>2. CASE Elapse(x)
    BY <1>2 DEF Elapse, WInv, NoLostWake
  <1> QED BY <1>1, <1>2

\* A thread that goes to wait leaves a list that is empty or waits for a delay.
LEMMA ProcessWakes ==
  ASSUME NEW w \in Workers, WInv, Process(w) \/ Return(w)
  PROVE  WInv'
  <1>1. CASE Take(w)
    BY <1>1 DEF Take, WInv, NoLostWake
  <1>2. CASE Return(w)
    BY <1>2 DEF Return, WInv, NoLostWake
  <1>3. CASE Idle(w)
    BY <1>3 DEF Idle, WInv, NoLostWake
  <1>4. CASE Wait(w)
    BY <1>4 DEF Wait, WInv, NoLostWake
  <1>5. CASE Timeout(w)
    BY <1>5 DEF Timeout, WInv, NoLostWake
  <1> QED BY <1>1, <1>2, <1>3, <1>4, <1>5 DEF Process

\* Steps that leave the queue alone keep it.
LEMMA StutterKeepsWake == ASSUME WInv, UNCHANGED qvars PROVE WInv'
  BY DEF WInv, NoLostWake, qvars

-----------------------------------------------------------------------------

\* However the queue is used, no wake-up is lost, if the timer daemon's queue is
\* never full.
THEOREM QueueNeverSleeps == ~TimerFull => (QSpec => []NoLostWake)
  <1> SUFFICES ASSUME ~TimerFull PROVE QSpec => []NoLostWake
    OBVIOUS
  <1>1. QInit => WInv
    BY QInitWake
  <1>2. WInv /\ [QNext]_qvars => WInv'
    <2> SUFFICES ASSUME WInv, [QNext]_qvars PROVE WInv'
      OBVIOUS
    <2> QED BY QueueWorkWakes, DaemonWakes, OthersKeepWake, ProcessWakes,
               StutterKeepsWake DEF QNext
  <1>3. WInv => NoLostWake
    BY DEF WInv
  <1> QED BY <1>1, <1>2, <1>3, PTL DEF QSpec

\* Nor is one lost by the notifications, whoever sets them up, signals them or
\* tears them down, from threads and from interrupts, under the same condition.
THEOREM NotifierNeverSleeps == ~TimerFull => (Spec => []NoLostWake)
  <1> SUFFICES ASSUME ~TimerFull PROVE Spec => []NoLostWake
    OBVIOUS
  <1>1. Init => WInv
    BY QInitWake DEF Init
  <1>2. WInv /\ [Next]_vars => WInv'
    <2> SUFFICES ASSUME WInv, [Next]_vars PROVE WInv'
      OBVIOUS
    <2>1. ASSUME NEW c \in Clients,
                 \/ \E ev \in Events : SetupTake(c, ev)
                 \/ SetupFill(c) \/ SetupAdd(c)
          PROVE  WInv'
      BY <2>1, StutterKeepsWake DEF SetupTake, SetupFill, SetupAdd
    <2>2. ASSUME NEW e \in Entries, Teardown(e) PROVE WInv'
      BY <2>2, StutterKeepsWake DEF Teardown
    <2>3. ASSUME NEW ev \in Events, Signal(ev) PROVE WInv'
      BY <2>3, StutterKeepsWake, QueueWorkWakes DEF Signal
    <2>4. ASSUME NEW x \in Works, OtherWork(x) PROVE WInv'
      BY <2>4, QueueWorkWakes, OthersKeepWake DEF OtherWork
    <2>5. ASSUME NEW w \in Workers, Step(w) PROVE WInv'
      <3>1. CASE TakeItem(w)
        BY <3>1, ProcessWakes DEF TakeItem, Process
      <3>2. CASE Call(w)
        BY <3>2, StutterKeepsWake DEF Call
      <3>3. CASE Free(w)
        BY <3>3, StutterKeepsWake DEF Free
      <3>4. CASE Finish(w)
        BY <3>4, ProcessWakes DEF Finish
      <3>5. CASE Rest(w)
        BY <3>5, ProcessWakes DEF Rest, Process
      <3> QED BY <2>5, <3>1, <3>2, <3>3, <3>4, <3>5 DEF Step
    <2>6. CASE Daemon
      BY <2>6, DaemonWakes DEF Daemon
    <2>7. CASE Time
      BY <2>7, OthersKeepWake DEF Time
    <2>8. CASE UNCHANGED vars
      BY <2>8, StutterKeepsWake DEF vars
    <2> QED BY <2>1, <2>2, <2>3, <2>4, <2>5, <2>6, <2>7, <2>8 DEF Next
  <1>3. WInv => NoLostWake
    BY DEF WInv
  <1> QED BY <1>1, <1>2, <1>3, PTL DEF Spec

=============================================================================
