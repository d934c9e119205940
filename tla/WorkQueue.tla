----------------------------- MODULE WorkQueue ------------------------------
(***************************************************************************)
(* A kernel work queue: work_queue, work_cancel and the worker threads of  *)
(* work_process (kwork_queue.c, kwork_cancel.c, kwork_process.c), which    *)
(* sleep on one bit of an event group.  Every action but Wait is one       *)
(* critical section.  What the callbacks do is left to the modules that    *)
(* extend this one.                                                        *)
(*                                                                         *)
(* work->worker is not NULL exactly while the item is in the list, so      *)
(* work_available(x) is x \notin Range(queue), and the test of work->doing *)
(* next to it never decides anything.  Nothing waits for work->done, which *)
(* doing guards in work_process; both are left out.                        *)
(***************************************************************************)
EXTENDS Naturals, Sequences, SequencesExt, Sublists

CONSTANTS
    Workers,   \* the worker threads
    Items,     \* the struct work_s that may be queued
    NoItem,
    TimerFull  \* an interrupt may find the timer daemon's queue full

ASSUME WorkersAssumption == Workers # {}
ASSUME ItemsAssumption == NoItem \notin Items
ASSUME TimerFullAssumption == TimerFull \in BOOLEAN

VARIABLES
    queue,  \* wqueue->q
    late,   \* the items in it whose delay has not elapsed
    bit,    \* the bit of g_work_event
    pend,   \* an interrupt has asked the timer daemon to set the bit
    at,     \* where each worker is in work_process
    nap,    \* it waits no longer than until the next delay elapses
    job     \* the item it runs

qvars == <<queue, late, bit, pend, at, nap, job>>

QInit == /\ queue = <<>> /\ late = {}
         /\ bit = FALSE /\ pend = FALSE
         /\ at = [w \in Workers |-> "scan"]
         /\ nap = [w \in Workers |-> FALSE]
         /\ job = [w \in Workers |-> NoItem]

\* Mutant: the bit is lost if no thread waits.
SetBits_Pulse ==
    LET asleep == {w \in Workers : at[w] = "asleep"} IN
    /\ at' = [w \in Workers |-> IF w \in asleep THEN "scan" ELSE at[w]]
    /\ nap' = [w \in Workers |-> w \notin asleep /\ nap[w]]
    /\ bit' = FALSE

\* xEventGroupSetBits: every thread that waits is woken and, as they clear the
\* bit on exit, the bit is gone; it stays for the next one if none waits.
SetBits ==
    LET asleep == {w \in Workers : at[w] = "asleep"} IN
    /\ at' = [w \in Workers |-> IF w \in asleep THEN "scan" ELSE at[w]]
    /\ nap' = [w \in Workers |-> w \notin asleep /\ nap[w]]
    /\ bit' = (asleep = {})

\* work_qqueue of the items s, one after the other: what is already queued
\* moves to the end.
Requeue(s) ==
    LET others == IF Range(s) \cap Range(queue) = {} THEN queue
                  ELSE Keep(queue, Items \ Range(s))
    IN queue' = others \o s

\* work_queue from a thread; the delay of d is not over yet.
QueueWork(s, d) ==
    /\ s # <<>> /\ Requeue(s)
    /\ late' = (late \ Range(s)) \cup d
    /\ SetBits /\ UNCHANGED <<pend, job>>

\* work_queue from an interrupt: xEventGroupSetBitsFromISR, whose failure is
\* passed over: the work is queued, the result is OK, and nobody sets the bit.
QueueWorkFromISR(s, d) ==
    /\ s # <<>> /\ Requeue(s)
    /\ late' = (late \ Range(s)) \cup d
    /\ pend' = TRUE \/ (TimerFull /\ UNCHANGED pend)
    /\ UNCHANGED <<bit, at, nap, job>>

DaemonSetsBits ==
    /\ pend /\ pend' = FALSE
    /\ SetBits /\ UNCHANGED <<queue, late, job>>

\* work_qcancel
CancelWork(x) ==
    /\ \E i \in DOMAIN queue : queue[i] = x /\ queue' = RemoveAt(queue, i)
    /\ late' = late \ {x}
    /\ UNCHANGED <<bit, pend, at, nap, job>>

\* times(): a delay elapses.
Elapse(x) ==
    /\ x \in late /\ late' = late \ {x}
    /\ UNCHANGED <<queue, bit, pend, at, nap, job>>

-----------------------------------------------------------------------------
(* work_process on thread w.                                               *)

\* The first item that is ready leaves the list and becomes available.
Take(w) ==
    /\ at[w] = "scan" /\ at' = [at EXCEPT ![w] = "run"]
    /\ \E i \in DOMAIN queue :
          /\ queue[i] \notin late
          /\ \A j \in 1 .. i - 1 : queue[j] \in late
          /\ job' = [job EXCEPT ![w] = queue[i]]
          /\ queue' = RemoveAt(queue, i)
    /\ UNCHANGED <<late, bit, pend, nap>>

\* The callback has returned.
Return(w) ==
    /\ at[w] = "run" /\ at' = [at EXCEPT ![w] = "scan"]
    /\ job' = [job EXCEPT ![w] = NoItem]
    /\ UNCHANGED <<queue, late, bit, pend, nap>>

\* Mutant: the thread waits for the bit without a limit.
Idle_NoLimit(w) ==
    /\ at[w] = "scan" /\ Range(queue) \subseteq late
    /\ at' = [at EXCEPT ![w] = "idle"]
    /\ UNCHANGED <<queue, late, bit, pend, nap, job>>

\* No item is ready: the thread leaves the critical section.
Idle(w) ==
    /\ at[w] = "scan" /\ Range(queue) \subseteq late
    /\ at' = [at EXCEPT ![w] = "idle"]
    /\ nap' = [nap EXCEPT ![w] = queue # <<>>]
    /\ UNCHANGED <<queue, late, bit, pend, job>>

\* xEventGroupWaitBits, which clears the bit it finds.
Wait(w) ==
    /\ at[w] = "idle"
    /\ IF bit
       THEN /\ at' = [at EXCEPT ![w] = "scan"]
            /\ nap' = [nap EXCEPT ![w] = FALSE]
       ELSE at' = [at EXCEPT ![w] = "asleep"] /\ UNCHANGED nap
    /\ bit' = FALSE
    /\ UNCHANGED <<queue, late, pend, job>>

Timeout(w) ==
    /\ at[w] = "asleep" /\ nap[w]
    /\ at' = [at EXCEPT ![w] = "scan"]
    /\ nap' = [nap EXCEPT ![w] = FALSE]
    /\ UNCHANGED <<queue, late, bit, pend, job>>

Process(w) == Take(w) \/ Idle(w) \/ Wait(w) \/ Timeout(w)

QNext ==
    \/ \E s \in Seq(Items), d \in SUBSET Items :
          d \subseteq Range(s) /\ (QueueWork(s, d) \/ QueueWorkFromISR(s, d))
    \/ DaemonSetsBits
    \/ \E x \in Items : CancelWork(x) \/ Elapse(x)
    \/ \E w \in Workers : Process(w) \/ Return(w)

QSpec == QInit /\ [][QNext]_qvars

-----------------------------------------------------------------------------
(* Properties.                                                             *)

QTypeOK ==
    /\ queue \in Seq(Items) /\ IsInjective(queue)
    /\ late \subseteq Range(queue)
    /\ bit \in BOOLEAN /\ pend \in BOOLEAN
    /\ at \in [Workers -> {"scan", "run", "idle", "asleep"}]
    /\ nap \in [Workers -> BOOLEAN]
    /\ job \in [Workers -> Items \cup {NoItem}]

\* No wake-up is lost between the look at the list and the wait for the bit:
\* while something is queued, some thread runs, is about to find the bit set,
\* or wakes by itself when a delay is over, or the daemon is still to set it;
\* as long as the daemon's queue takes what the interrupts send.
NoLostWake ==
    queue # <<>> =>
        \/ pend
        \/ \E w \in Workers : \/ at[w] \in {"scan", "run"} \/ nap[w]
                              \/ at[w] = "idle" /\ bit

=============================================================================
