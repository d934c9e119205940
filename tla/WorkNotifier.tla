---------------------------- MODULE WorkNotifier ----------------------------
(***************************************************************************)
(* The notifications of kwork_notifier.c on the work queue of WorkQueue:   *)
(* work_notifier_setup and work_notifier_teardown called by threads,       *)
(* work_notifier_signal2 by threads and interrupts, and the worker threads *)
(* that run work_notifier_worker.  Some plain work with a delay and        *)
(* work_cancel share the queue.                                            *)
(***************************************************************************)
EXTENDS WorkQueue, FiniteSets

CONSTANTS
    Clients,     \* the threads that set notifications up and tear them down
    Entries,     \* the struct work_notifier_entry_s malloc may return
    Works,       \* other items of the queue
    Events,      \* pairs of evtype and qualifier
    OneShot,     \* the events registered with info.oneshot
    TornDown,    \* the events whose registrations a client may tear down
    MaxKeys,     \* bound: registrations
    MaxSignals,  \* bound: events
    MaxWorks     \* bound: calls of work_queue for other items

ASSUME EntriesAssumption == Items = Entries \cup Works /\ Entries \cap Works = {}
ASSUME EventsAssumption == OneShot \subseteq Events /\ TornDown \subseteq Events
ASSUME BoundsAssumption == {MaxKeys, MaxSignals, MaxWorks} \subseteq Nat

VARIABLES
    info,     \* what each entry holds: [key, event, param]
    heap,     \* the entries malloc has returned; they are never freed
    free,     \* g_notifier_free
    pending,  \* g_notifier_pending
    client,   \* where each client is in work_notifier_setup
    lastKey,  \* notifier_key
    stage,    \* where each worker is in work_notifier_worker
    signals,  \* history: the number of events, the param of the last one
    told,     \* history: the last event whose signal met the registration
    seen,     \* history: the last param the registration was called with
    works     \* the number of calls of work_queue for other items

nvars == <<info, heap, free, pending, client, lastKey, stage, signals, told, seen, works>>
vars == <<qvars, nvars>>

Keys == 1 .. MaxKeys
Blank == [key |-> 0, event |-> "none", param |-> 0]
Out == [pc |-> "out", event |-> "none", entry |-> NoItem]

Init == /\ QInit
        /\ info = [e \in Entries |-> Blank] /\ heap = {}
        /\ free = <<>> /\ pending = <<>>
        /\ client = [c \in Clients |-> Out] /\ lastKey = 0
        /\ stage = [w \in Workers |-> "call"]
        /\ signals = 0 /\ works = 0
        /\ told = [k \in Keys |-> 0] /\ seen = [k \in Keys |-> 0]

-----------------------------------------------------------------------------
(* work_notifier_setup, called by c.                                       *)

Available(e) == e \notin Range(queue)

\* The first free entry whose work is available, or a new one; or -ENOMEM.
SetupTake(c, ev) ==
    /\ client[c].pc = "out" /\ lastKey < MaxKeys
    /\ \E e \in Entries :
          /\ \/ /\ \E i \in DOMAIN free :
                      /\ free[i] = e /\ Available(e)
                      /\ \A j \in 1 .. i - 1 : ~Available(free[j])
                      /\ free' = RemoveAt(free, i)
                /\ UNCHANGED heap
             \/ /\ \A i \in DOMAIN free : ~Available(free[i])
                /\ e \notin heap /\ heap' = heap \cup {e}
                /\ UNCHANGED free
          /\ client' = [client EXCEPT ![c] = [pc |-> "fill", event |-> ev, entry |-> e]]
    /\ UNCHANGED <<qvars, info, pending, lastKey, stage, signals, told, seen, works>>

\* memset and memcpy, outside the critical sections.
SetupFill(c) ==
    /\ client[c].pc = "fill" /\ client' = [client EXCEPT ![c].pc = "add"]
    /\ info' = [info EXCEPT ![client[c].entry] = [Blank EXCEPT !.event = client[c].event]]
    /\ UNCHANGED <<qvars, heap, free, pending, lastKey, stage, signals, told, seen, works>>

SetupAdd(c) ==
    /\ client[c].pc = "add" /\ lastKey < MaxKeys
    /\ lastKey' = lastKey + 1
    /\ info' = [info EXCEPT ![client[c].entry].key = lastKey']
    /\ pending' = Append(pending, client[c].entry)
    /\ client' = [client EXCEPT ![c] = Out]
    /\ UNCHANGED <<qvars, heap, free, stage, signals, told, seen, works>>

\* work_notifier_teardown of a key that is pending; of another it is -ENOENT.
Teardown(e) ==
    /\ info[e].event \in TornDown
    /\ \E i \in DOMAIN pending : pending[i] = e /\ pending' = RemoveAt(pending, i)
    /\ free' = Append(free, e)
    /\ UNCHANGED <<qvars, info, heap, client, lastKey, stage, signals, told, seen, works>>

\* Mutant: what a worker is running is not queued again.
Signal_NotWhileRunning(ev) ==
    LET s == Keep(pending, {e \in Entries : info[e].event = ev})
        q == Keep(s, Entries \ Range(job)) IN
    /\ signals < MaxSignals /\ signals' = signals + 1
    /\ pending' = IF ev \in OneShot
                  THEN Keep(pending, Entries \ Range(s)) ELSE pending
    /\ info' = [e \in Entries |-> IF e \in Range(s)
                                  THEN [info[e] EXCEPT !.param = signals'] ELSE info[e]]
    /\ told' = [k \in Keys |-> IF \E e \in Range(s) : info[e].key = k
                               THEN signals' ELSE told[k]]
    /\ IF q = <<>> THEN UNCHANGED qvars
                   ELSE QueueWork(q, {}) \/ QueueWorkFromISR(q, {})
    /\ UNCHANGED <<heap, free, client, lastKey, stage, seen, works>>

\* Mutant: a one-shot registration stays in the list.
Signal_KeepsOneShot(ev) ==
    LET s == Keep(pending, {e \in Entries : info[e].event = ev}) IN
    /\ signals < MaxSignals /\ signals' = signals + 1
    /\ UNCHANGED pending
    /\ info' = [e \in Entries |-> IF e \in Range(s)
                                  THEN [info[e] EXCEPT !.param = signals'] ELSE info[e]]
    /\ told' = [k \in Keys |-> IF \E e \in Range(s) : info[e].key = k
                               THEN signals' ELSE told[k]]
    /\ IF s = <<>> THEN UNCHANGED qvars
                   ELSE QueueWork(s, {}) \/ QueueWorkFromISR(s, {})
    /\ UNCHANGED <<heap, free, client, lastKey, stage, seen, works>>

\* work_notifier_signal2: all registrations for ev are queued, in their order,
\* and those for one shot leave the list.
Signal(ev) ==
    LET s == Keep(pending, {e \in Entries : info[e].event = ev}) IN
    /\ signals < MaxSignals /\ signals' = signals + 1
    /\ pending' = IF ev \in OneShot
                  THEN Keep(pending, Entries \ Range(s)) ELSE pending
    /\ info' = [e \in Entries |-> IF e \in Range(s)
                                  THEN [info[e] EXCEPT !.param = signals'] ELSE info[e]]
    /\ told' = [k \in Keys |-> IF \E e \in Range(s) : info[e].key = k
                               THEN signals' ELSE told[k]]
    /\ IF s = <<>> THEN UNCHANGED qvars
                   ELSE QueueWork(s, {}) \/ QueueWorkFromISR(s, {})
    /\ UNCHANGED <<heap, free, client, lastKey, stage, seen, works>>

-----------------------------------------------------------------------------
(* The worker threads and the other work.                                  *)

TakeItem(w) == Take(w) /\ UNCHANGED nvars

\* work_notifier_worker calls what info says now.
Call(w) ==
    /\ at[w] = "run" /\ job[w] \in Entries /\ stage[w] = "call"
    /\ stage' = [stage EXCEPT ![w] = "free"]
    /\ LET i == info[job[w]] IN
       seen' = [k \in Keys |-> IF k = i.key THEN i.param ELSE seen[k]]
    /\ UNCHANGED <<qvars, info, heap, free, pending, client, lastKey, signals, told, works>>

\* Mutant: the entry of a lasting notification is freed too.
Free_All(w) ==
    /\ job[w] \in Entries /\ stage[w] = "free"
    /\ stage' = [stage EXCEPT ![w] = "done"]
    /\ free' = Append(free, job[w])
    /\ UNCHANGED <<qvars, info, heap, pending, client, lastKey, signals, told, seen, works>>

\* The callback has returned: the entry of a one-shot notification is free,
\* although the worker has yet to look at its work once more.
Free(w) ==
    /\ job[w] \in Entries /\ stage[w] = "free"
    /\ stage' = [stage EXCEPT ![w] = "done"]
    /\ free' = IF info[job[w]].event \in OneShot THEN Append(free, job[w]) ELSE free
    /\ UNCHANGED <<qvars, info, heap, pending, client, lastKey, signals, told, seen, works>>

\* work_notifier_worker, or the worker of other work, has returned.  Whoever
\* has set the entry up anew meanwhile loses nothing: doing and done only.
Finish(w) ==
    /\ job[w] \in Entries => stage[w] = "done"
    /\ Return(w)
    /\ stage' = [stage EXCEPT ![w] = "call"]
    /\ UNCHANGED <<info, heap, free, pending, client, lastKey, signals, told, seen, works>>

OtherWork(x) ==
    /\ \/ /\ works < MaxWorks /\ works' = works + 1
          /\ \E d \in SUBSET {x} : QueueWork(<<x>>, d) \/ QueueWorkFromISR(<<x>>, d)
       \/ CancelWork(x) /\ UNCHANGED works
    /\ UNCHANGED <<info, heap, free, pending, client, lastKey, stage, signals, told, seen>>

Rest(w) == (Idle(w) \/ Wait(w) \/ Timeout(w)) /\ UNCHANGED nvars
Daemon == DaemonSetsBits /\ UNCHANGED nvars
Time == \E x \in Items : Elapse(x) /\ UNCHANGED nvars

Step(w) == TakeItem(w) \/ Call(w) \/ Free(w) \/ Finish(w) \/ Rest(w)

Next == \/ \E c \in Clients :
              \/ \E ev \in Events : SetupTake(c, ev)
              \/ SetupFill(c) \/ SetupAdd(c)
        \/ \E e \in Entries : Teardown(e)
        \/ \E ev \in Events : Signal(ev)
        \/ \E x \in Works : OtherWork(x)
        \/ \E w \in Workers : Step(w)
        \/ Daemon \/ Time

\* The threads of the kernel run: workers, the timer daemon, the clock; and
\* callbacks return.  No client and no event has to come.
Spec == /\ Init /\ [][Next]_vars
        /\ \A w \in Workers : WF_vars(Step(w))
        /\ WF_vars(Daemon) /\ WF_vars(Time)

-----------------------------------------------------------------------------
(* Properties.                                                             *)

TypeOK ==
    /\ QTypeOK
    /\ info \in [Entries -> [key : Keys \cup {0}, event : Events \cup {"none"},
                             param : 0 .. MaxSignals]]
    /\ heap \subseteq Entries
    /\ free \in Seq(heap) /\ pending \in Seq(heap)
    /\ client \in [Clients -> [pc : {"out", "fill", "add"},
                               event : Events \cup {"none"}, entry : heap \cup {NoItem}]]
    /\ lastKey \in 0 .. MaxKeys /\ stage \in [Workers -> {"call", "free", "done"}]
    /\ signals \in 0 .. MaxSignals /\ works \in 0 .. MaxWorks
    /\ {told, seen} \subseteq [Keys -> 0 .. MaxSignals]

\* The links of an entry are in one list at most: an entry that is being set
\* up or pending is not free, none is in a list twice, and none is free or
\* being set up while a worker still reads what it holds.  Once
\* work_notifier_worker has freed it, it may be both free, or set up anew, and
\* in the hands of the worker, which then touches doing and done alone.
Busy == {client[c].entry : c \in {d \in Clients : client[d].pc # "out"}}
OneList ==
    /\ IsInjective(free) /\ IsInjective(pending)
    /\ Range(free) \cap Range(pending) = {}
    /\ Busy \cap (Range(free) \cup Range(pending)) = {}
    /\ \A c, d \in Clients : c # d /\ client[c].pc # "out" /\ client[d].pc # "out" =>
          client[c].entry # client[d].entry
    /\ \A w \in Workers : job[w] \in Entries /\ stage[w] # "done" =>
          job[w] \notin Range(free) \cup Busy

\* Who has yet to call registration k: a worker that took it, or the next one.
Waiting(k) == {w \in Workers : /\ job[w] \in Entries /\ stage[w] = "call"
                               /\ info[job[w]].key = k}
Queued(k) == {e \in Range(queue) \cap Entries : info[e].key = k}

\* An event is not lost when it is joined with one that is still queued or
\* being handled: until the registration has seen the last param, it is called
\* again.
LastEventSeen ==
    \A k \in Keys : seen[k] < told[k] => Waiting(k) # {} \/ Queued(k) # {}

\* The other work is run or cancelled, whatever its delay.
WorkEnds == \A x \in Works : (x \in Range(queue)) ~> (x \notin Range(queue))

\* The registrations of Notifier are the pending entries; a call is due for
\* each that is queued or with a worker that has not yet called it.
N == INSTANCE Notifier WITH
        armed <- {<<info[e].key, info[e].event>> : e \in Range(pending)},
        used <- 1 .. lastKey,
        due <- [k \in Keys |-> Cardinality(Waiting(k)) + Cardinality(Queued(k))]
ImplementsNotifier == N!Spec

\* "Eliminate a notification previously setup by work_notifier_setup()"
\* (kwork_notifier.c:303): a lasting notification is not called any more when the
\* result was 0.
Eliminated ==
    [][\A w \in Workers : Call(w) /\ info[job[w]].event \notin OneShot =>
                              job[w] \in Range(pending)]_vars

=============================================================================
