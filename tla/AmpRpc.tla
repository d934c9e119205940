------------------------------- MODULE AmpRpc -------------------------------
(***************************************************************************)
(* The calls between the two cores of amprpc.c.  The main core runs Linux: *)
(* it sends calls that the worker threads of the RPC queue execute, and    *)
(* answers the notifications the work notifier proxies to it.  Messages    *)
(* lie in shared memory; their addresses go through mailboxes, four in     *)
(* each direction, each full until the other core has taken its word.      *)
(*                                                                         *)
(* One step of this core ends where it may block or be preempted.  The     *)
(* interrupt takes a step for each mailbox it finds something to do for;   *)
(* meanwhile Linux goes on and the threads do not.                         *)
(***************************************************************************)
EXTENDS WorkQueue, FiniteSets

CONSTANTS
    Mboxes,   \* the mailboxes to Linux, mboxbitmap's bits 4 to 7
    InBoxes,  \* the mailboxes from Linux, 0 to 3
    Slots,    \* msgs[], the messages of the notifications to Linux
    Calls,    \* the messages of the calls Linux may have under way at once
    Blocking, \* those whose operation waits for what need not come
    Callers,  \* the threads of HPWORK that run a remote notification
    None

ASSUME ThingsAssumption ==
    /\ None \notin Mboxes \cup Slots \cup Calls
    /\ Mboxes \cap Slots = {} /\ Mboxes \cap Calls = {} /\ Slots \cap Calls = {}
ASSUME BlockingAssumption == Blocking \subseteq Calls
ASSUME ThreadsAssumption == Workers \cap Callers = {}
ASSUME FiniteAssumption == IsFiniteSet(Mboxes \cup Slots \cup Workers \cup Callers)
ASSUME NumbersAssumption ==
    Items \cup Mboxes \cup InBoxes \subseteq Nat /\ Mboxes \cap InBoxes = {}

VARIABLES
    mboxres,    \* counts the free mailboxes
    mboxbitmap, \* the free mailboxes
    msgres, msgbitmap,  \* the same for msgs[]
    status,     \* rpc->status of each message
    priv,       \* rpc->priv of the messages in msgs[]
    load,       \* the argument of each queued work: a message or a mailbox
    arg,        \* the argument each worker runs with
    pc,         \* where each thread is
    box,        \* i of its msg_other_core
    slot,       \* i of its notifier_worker_proxy
    notified,   \* the callers with a task notification pending
    in, out,    \* the word in each mailbox
    cbk,        \* the mailboxes Linux has emptied: INT_CBK_STA
    isr,        \* i of amprpc_mbox_isr, 0 while the threads run
    linux       \* external: the messages Linux holds

res == <<mboxres, mboxbitmap, msgres, msgbitmap>>
wires == <<in, out, cbk, linux>>
vars == <<qvars, res, status, priv, load, arg, pc, box, slot, notified, wires, isr>>

Threads == Workers \cup Callers
Messages == Calls \cup Slots

\* The message the thread hands to msg_other_core.
Message(t) == IF t \in Workers THEN arg[t] ELSE slot[t]

Init == /\ QInit
        /\ mboxres = Cardinality(Mboxes) /\ mboxbitmap = Mboxes
        /\ msgres = Cardinality(Slots) /\ msgbitmap = Slots
        /\ status = [m \in Messages |-> "finished"]
        /\ priv = [s \in Slots |-> None]
        /\ load = [x \in Items |-> None] /\ arg = [w \in Workers |-> None]
        /\ pc = [t \in Threads |-> "out"]
        /\ box = [t \in Threads |-> None] /\ slot = [c \in Callers |-> None]
        /\ notified = {}
        /\ in = [b \in InBoxes |-> None] /\ out = [b \in Mboxes |-> None]
        /\ cbk = {} /\ linux = Calls /\ isr = 0

-----------------------------------------------------------------------------
(* Linux, as this core relies on it: it takes a word, lets the mailbox go, *)
(* and answers each notification in its own message.                       *)

LinuxIrq(b) ==
    /\ out[b] # None /\ out' = [out EXCEPT ![b] = None]
    /\ linux' = linux \cup {out[b]} /\ cbk' = cbk \cup {b}
    /\ UNCHANGED <<qvars, res, status, priv, load, arg, pc, box, slot, notified, in, isr>>

\* A message in Linux's hands is sent with the status st.
LinuxSend(m, st, b) ==
    /\ m \in linux /\ in[b] = None
    /\ linux' = linux \ {m} /\ in' = [in EXCEPT ![b] = m]
    /\ status' = [status EXCEPT ![m] = st]
    /\ UNCHANGED <<qvars, res, priv, load, arg, pc, box, slot, notified,
                   out, cbk, isr>>

LinuxCall(c, b) == LinuxSend(c, "setup", b)
LinuxAnswer(s, b) == LinuxSend(s, "return", b)

-----------------------------------------------------------------------------
(* amprpc_mbox_isr                                                         *)

\* The mailboxes with something to do that i has not passed.
Flagged == {b \in InBoxes : in[b] # None} \cup cbk
Ahead == {b \in Flagged : b >= isr}

\* find_work: the first item that is not queued; assert(0) if all are.
FindWork(x) == /\ x \in Items \ Range(queue)
               /\ \A y \in Items : y < x => y \in Range(queue)

\* Mutant: the word stays in its mailbox.
IsrMbox_KeepsWord(b) ==
    /\ b \in Ahead /\ (\A a \in Ahead : b <= a) /\ isr' = b + 1
    /\ \E x \in Items :
          /\ FindWork(x) /\ QueueWorkFromISR(<<x>>, {})
          /\ \/ /\ b \in InBoxes /\ load' = [load EXCEPT ![x] = in[b]]
                /\ UNCHANGED <<in, cbk>>
             \/ /\ b \in Mboxes /\ load' = [load EXCEPT ![x] = b]
                /\ cbk' = cbk \ {b} /\ UNCHANGED in
    /\ UNCHANGED <<res, status, priv, arg, pc, box, slot, notified, out, linux>>

\* Mailbox b: the message in it, or that Linux has let it go, is queued.
IsrMbox(b) ==
    /\ b \in Ahead /\ (\A a \in Ahead : b <= a) /\ isr' = b + 1
    /\ \E x \in Items :
          /\ FindWork(x) /\ QueueWorkFromISR(<<x>>, {})
          /\ \/ /\ b \in InBoxes /\ load' = [load EXCEPT ![x] = in[b]]
                /\ in' = [in EXCEPT ![b] = None] /\ UNCHANGED cbk
             \/ /\ b \in Mboxes /\ load' = [load EXCEPT ![x] = b]
                /\ cbk' = cbk \ {b} /\ UNCHANGED in
    /\ UNCHANGED <<res, status, priv, arg, pc, box, slot, notified, out, linux>>

IsrEnd ==
    /\ isr > 0 /\ Ahead = {} /\ isr' = 0
    /\ UNCHANGED <<qvars, res, status, priv, load, arg, pc, box, slot, notified, wires>>

-----------------------------------------------------------------------------
(* msg_other_core, run by a worker with an answer and by a caller.         *)

\* Mutant: the wait for a mailbox is given up and the thread goes on.
TakeMbox_TimesOut(t) ==
    /\ pc[t] = "mbox" /\ pc' = [pc EXCEPT ![t] = "pick"]
    /\ mboxres' = IF mboxres > 0 THEN mboxres - 1 ELSE 0
    /\ UNCHANGED <<qvars, mboxbitmap, msgres, msgbitmap, status, priv, load, arg,
                   box, slot, notified, wires, isr>>

TakeMbox(t) ==
    /\ pc[t] = "mbox" /\ pc' = [pc EXCEPT ![t] = "pick"]
    /\ mboxres > 0 /\ mboxres' = mboxres - 1
    /\ UNCHANGED <<qvars, mboxbitmap, msgres, msgbitmap, status, priv, load, arg,
                   box, slot, notified, wires, isr>>

\* Mutant: the bit is not cleared.
PickMbox_KeepsBit(t) ==
    /\ pc[t] = "pick" /\ pc' = [pc EXCEPT ![t] = "write"]
    /\ \E b \in mboxbitmap : /\ \A a \in mboxbitmap : b <= a
                             /\ UNCHANGED mboxbitmap
                             /\ box' = [box EXCEPT ![t] = b]
    /\ UNCHANGED <<qvars, mboxres, msgres, msgbitmap, status, priv, load, arg,
                   slot, notified, wires, isr>>

\* ffs: the first that is free; assert(i != 0) stops the system if none is.
PickMbox(t) ==
    /\ pc[t] = "pick" /\ pc' = [pc EXCEPT ![t] = "write"]
    /\ \E b \in mboxbitmap : /\ \A a \in mboxbitmap : b <= a
                             /\ mboxbitmap' = mboxbitmap \ {b}
                             /\ box' = [box EXCEPT ![t] = b]
    /\ UNCHANGED <<qvars, mboxres, msgres, msgbitmap, status, priv, load, arg,
                   slot, notified, wires, isr>>

\* The word and the trigger, the last thing do_msg does; a caller then waits.
WriteMbox(t) ==
    /\ pc[t] = "write" /\ box' = [box EXCEPT ![t] = None]
    /\ out' = [out EXCEPT ![box[t]] = Message(t)]
    /\ \/ /\ t \in Workers /\ Return(t)
          /\ arg' = [arg EXCEPT ![t] = None] /\ pc' = [pc EXCEPT ![t] = "out"]
       \/ /\ t \in Callers /\ pc' = [pc EXCEPT ![t] = "reply"]
          /\ UNCHANGED <<qvars, arg>>
    /\ UNCHANGED <<res, status, priv, load, slot, notified, in, cbk, linux, isr>>

-----------------------------------------------------------------------------
(* do_msg and do_mbox_release on the worker threads.                       *)

\* What the work holds is not read any more once it has left the queue.
TakeWork(w) ==
    /\ Take(w) /\ arg' = [arg EXCEPT ![w] = load[job'[w]]]
    /\ load' = [load EXCEPT ![job'[w]] = None]
    /\ pc' = [pc EXCEPT ![w] = "start"]
    /\ UNCHANGED <<res, status, priv, box, slot, notified, wires, isr>>

\* RPC_CALL_M2S with RPC_STATUS_SETUP: the operation, on the worker.  It takes as
\* long as this step is not taken, which is for ever if it is a read, an ioctl
\* or a poll that is never satisfied; nobody looks at RPC_STATUS_DOING meanwhile.
DoCall(w) ==
    /\ pc[w] = "start" /\ arg[w] \in Calls /\ status[arg[w]] = "setup"
    /\ status' = [status EXCEPT ![arg[w]] = "return"]
    /\ pc' = [pc EXCEPT ![w] = "mbox"]
    /\ UNCHANGED <<qvars, res, priv, load, arg, box, slot, notified, wires, isr>>

\* RPC_RET_S2M with RPC_STATUS_RETURN
DoReply(w) ==
    /\ pc[w] = "start" /\ arg[w] \in Slots /\ status[arg[w]] = "return"
    /\ notified' = notified \cup {priv[arg[w]]}
    /\ Return(w) /\ pc' = [pc EXCEPT ![w] = "out"]
    /\ arg' = [arg EXCEPT ![w] = None]
    /\ UNCHANGED <<res, status, priv, load, box, slot, wires, isr>>

DoRelease(w) ==
    /\ pc[w] = "start" /\ arg[w] \in Mboxes
    /\ mboxbitmap' = mboxbitmap \cup {arg[w]}
    /\ pc' = [pc EXCEPT ![w] = "give"] /\ arg' = [arg EXCEPT ![w] = None]
    /\ UNCHANGED <<qvars, mboxres, msgres, msgbitmap, status, priv, load, box,
                   slot, notified, wires, isr>>

\* Mutant: the semaphore is not given.
GiveMbox_Forgets(w) ==
    /\ pc[w] = "give" /\ UNCHANGED mboxres
    /\ Return(w) /\ pc' = [pc EXCEPT ![w] = "out"]
    /\ UNCHANGED <<mboxbitmap, msgres, msgbitmap, status, priv, load, arg, box,
                   slot, notified, wires, isr>>

GiveMbox(w) ==
    /\ pc[w] = "give" /\ mboxres' = mboxres + 1
    /\ Return(w) /\ pc' = [pc EXCEPT ![w] = "out"]
    /\ UNCHANGED <<mboxbitmap, msgres, msgbitmap, status, priv, load, arg, box,
                   slot, notified, wires, isr>>

\* No work has a delay, so nobody's wait times out.
Rest(w) ==
    /\ Idle(w) \/ Wait(w)
    /\ UNCHANGED <<res, status, priv, load, arg, pc, box, slot, notified, wires, isr>>

Daemon ==
    /\ DaemonSetsBits
    /\ UNCHANGED <<res, status, priv, load, arg, pc, box, slot, notified, wires, isr>>

-----------------------------------------------------------------------------
(* notifier_worker_proxy, called by c.                                     *)

\* A remote notification is called, if there is a message for it.
TakeMsg(c) ==
    /\ pc[c] = "out" /\ pc' = [pc EXCEPT ![c] = "slot"]
    /\ msgres > 0 /\ msgres' = msgres - 1
    /\ UNCHANGED <<qvars, mboxres, mboxbitmap, msgbitmap, status, priv, load, arg,
                   box, slot, notified, wires, isr>>

\* Which of the free messages it is makes no difference; filling it in is
\* nobody else's business yet.
PickMsg(c) ==
    /\ pc[c] = "slot" /\ pc' = [pc EXCEPT ![c] = "mbox"]
    /\ \E s \in msgbitmap : /\ msgbitmap' = msgbitmap \ {s}
                            /\ slot' = [slot EXCEPT ![c] = s]
                            /\ priv' = [priv EXCEPT ![s] = c]
                            /\ status' = [status EXCEPT ![s] = "setup"]
    /\ UNCHANGED <<qvars, mboxres, mboxbitmap, msgres, load, arg, box, notified, wires, isr>>

\* Mutant: the task notification is not cleared.
Wake_KeepsNotification(c) ==
    /\ pc[c] = "reply" /\ c \in notified
    /\ pc' = [pc EXCEPT ![c] = "givemsg"] /\ UNCHANGED notified
    /\ status' = [status EXCEPT ![slot[c]] = "finished"]
    /\ msgbitmap' = msgbitmap \cup {slot[c]}
    /\ slot' = [slot EXCEPT ![c] = None]
    /\ UNCHANGED <<qvars, mboxres, mboxbitmap, msgres, priv, load, arg, box, wires, isr>>

\* ulTaskNotifyTakeIndexed; the result is copied back, RPC_STATUS_FINISHED, and
\* the message is free again.
Wake(c) ==
    /\ pc[c] = "reply" /\ c \in notified
    /\ pc' = [pc EXCEPT ![c] = "givemsg"] /\ notified' = notified \ {c}
    /\ status' = [status EXCEPT ![slot[c]] = "finished"]
    /\ msgbitmap' = msgbitmap \cup {slot[c]}
    /\ slot' = [slot EXCEPT ![c] = None]
    /\ UNCHANGED <<qvars, mboxres, mboxbitmap, msgres, priv, load, arg, box, wires, isr>>

GiveMsg(c) ==
    /\ pc[c] = "givemsg" /\ pc' = [pc EXCEPT ![c] = "out"]
    /\ msgres' = msgres + 1
    /\ UNCHANGED <<qvars, mboxres, mboxbitmap, msgbitmap, status, priv, load, arg,
                   box, slot, notified, wires, isr>>

-----------------------------------------------------------------------------
Linux == \/ \E b \in Mboxes : LinuxIrq(b)
         \/ \E b \in InBoxes : \/ \E c \in Calls : LinuxCall(c, b)
                               \/ \E s \in Slots : LinuxAnswer(s, b)

Work(w) == \/ TakeWork(w) \/ DoReply(w) \/ DoRelease(w) \/ GiveMbox(w)
           \/ Rest(w) \/ PickMbox(w) \/ WriteMbox(w)

Notify(c) == \/ PickMsg(c) \/ Wake(c) \/ GiveMsg(c)
             \/ PickMbox(c) \/ WriteMbox(c)

Isr == (\E b \in InBoxes \cup Mboxes : IsrMbox(b)) \/ IsrEnd

\* The threads and the daemon do not run during the interrupt.
Run == \/ Daemon
       \/ \E w \in Workers : TakeMbox(w) \/ Work(w) \/ DoCall(w)
       \/ \E c \in Callers : TakeMbox(c) \/ TakeMsg(c) \/ Notify(c)

Next == Linux \/ Isr \/ (isr = 0 /\ Run)

Spec == Init /\ [][Next]_vars

\* Every thread that can run does, though interrupted; the interrupt and the
\* daemon are served, Linux takes its words and answers.  A semaphore wakes who
\* has waited longest, so nobody starves at the mailboxes.  The calls that are
\* not Blocking return; the others may or may not.  Linux need not call, nor is
\* there a notification.
Fairness ==
    /\ WF_vars(Isr) /\ WF_vars(Daemon)
    /\ \A b \in Mboxes : WF_vars(LinuxIrq(b))
    /\ \A s \in Slots : SF_vars(\E b \in InBoxes : LinuxAnswer(s, b))
    /\ \A w \in Workers : WF_vars(Work(w) \/ (arg[w] \notin Blocking /\ DoCall(w)))
    /\ \A c \in Callers : WF_vars(Notify(c))
    /\ \A t \in Threads : SF_vars(TakeMbox(t))

FairSpec == Spec /\ Fairness

-----------------------------------------------------------------------------
(* Properties.                                                             *)

TypeOK ==
    /\ QTypeOK
    /\ mboxres \in 0 .. Cardinality(Mboxes) /\ mboxbitmap \subseteq Mboxes
    /\ msgres \in 0 .. Cardinality(Slots) /\ msgbitmap \subseteq Slots
    /\ status \in [Messages -> {"setup", "return", "finished"}]
    /\ priv \in [Slots -> Callers \cup {None}]
    /\ load \in [Items -> Messages \cup Mboxes \cup {None}]
    /\ arg \in [Workers -> Messages \cup Mboxes \cup {None}]
    /\ \A w \in Workers : pc[w] \in {"out", "start", "mbox", "pick", "write", "give"}
    /\ \A c \in Callers : pc[c] \in {"out", "slot", "mbox", "pick",
                                     "write", "reply", "givemsg"}
    /\ box \in [Threads -> Mboxes \cup {None}]
    /\ slot \in [Callers -> Slots \cup {None}]
    /\ notified \subseteq Callers
    /\ in \in [InBoxes -> Messages \cup {None}]
    /\ out \in [Mboxes -> Messages \cup {None}]
    /\ cbk \subseteq Mboxes /\ linux \subseteq Messages /\ isr \in Nat

\* assert(i != 0) of msg_other_core and notifier_worker_proxy: who has taken
\* the semaphore finds a bit, however many threads are between the two.
NoAssert ==
    /\ \A t \in Threads : pc[t] = "pick" => mboxbitmap # {}
    /\ \A c \in Callers : pc[c] = "slot" => msgbitmap # {}

\* assert(0) of find_work: whatever an interrupt has to queue, an item is there.
\* It takes an item for each call of Linux, each notification that can be under
\* way and each mailbox; with fewer the assertion fails.
WorksSuffice ==
    Flagged # {} => Items \ Range(queue) # {}

\* As many items as that.  CONFIG_RPCWORK_NUM is a number, and how many calls
\* Linux makes at once is Linux's affair.
EnoughItems ==
    /\ IsFiniteSet(Items) /\ IsFiniteSet(Calls)
    /\ Cardinality(Items) >= Cardinality(Messages \cup Mboxes)

\* Where a mailbox or a message is.
Working(x) == {<<"queue", q>> : q \in {q \in Range(queue) : load[q] = x}}
                  \cup {<<"worker", w>> : w \in {w \in Workers : arg[w] = x}}
MboxPlaces(b) ==
    {<<"free", a>> : a \in {b} \cap mboxbitmap}
        \cup {<<"thread", t>> : t \in {t \in Threads : box[t] = b}}
        \cup {<<"full", a>> : a \in {a \in {b} : out[a] # None}}
        \cup {<<"emptied", a>> : a \in {b} \cap cbk} \cup Working(b)
MessagePlaces(m) ==
    {<<"free", a>> : a \in {m} \cap msgbitmap}
        \cup {<<"caller", c>> : c \in {c \in Callers :
                  slot[c] = m /\ (pc[c] # "reply" \/ c \in notified)}}
        \cup {<<"out", b>> : b \in {b \in Mboxes : out[b] = m}}
        \cup {<<"linux", a>> : a \in {m} \cap linux}
        \cup {<<"in", b>> : b \in {b \in InBoxes : in[b] = m}} \cup Working(m)
One(P) == \E p \in P : P = {p}

\* Every mailbox is free, in one thread's hands, full, emptied or about to be
\* released, and never two of these: no word is overwritten before Linux has
\* taken it, no mailbox is released twice, and none leaks.
MboxesKept == \A b \in Mboxes : One(MboxPlaces(b))

\* Every message is in exactly one place: no call is lost or run twice, no two
\* notifications share a message, and the task notification that lets a caller
\* go on is the one for its own message, not one left over.
MessagesKept == \A m \in Messages : One(MessagePlaces(m))

\* All mailboxes wait to be released.
NoMbox == /\ mboxres = 0 /\ mboxbitmap = {}
          /\ Mboxes \subseteq {load[queue[i]] : i \in DOMAIN queue}

\* The worker is in a call that may never return.
InCall(w) == pc[w] = "start" /\ arg[w] \in Blocking

\* No worker goes on: each is in such a call, or waits for a mailbox that only a
\* worker can release, or sleeps, woken for other work that is queued too.
Stuck == /\ \A w \in Workers : \/ InCall(w) \/ at[w] = "asleep"
                               \/ pc[w] = "mbox" /\ NoMbox
         /\ \E w \in Workers : at[w] # "asleep"

\* Every call is answered and every notification returns, unless the operation of
\* the call itself never does or, from some moment on, no worker goes on: nothing
\* else keeps them.
CallsEnd ==
    /\ \A c \in Calls : \/ status[c] = "setup" ~> c \in linux
                        \/ <>[](Stuck \/ \E w \in Workers : InCall(w) /\ arg[w] = c)
    /\ \A c \in Callers : \/ pc[c] = "slot" ~> pc[c] = "out"
                          \/ <>[]Stuck
=============================================================================
