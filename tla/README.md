# TLA+ models of the hcRTOS SDK's core drivers

The repository is the SDK for HiChip HC15xx/HC16xx boards (projectors, cast dongles): a FreeRTOS kernel with
drivers, a boot loader, a firmware updater, cast services and demo applications. Most of its files are third-party
(FreeRTOS, yaffs2, LVGL, FFmpeg), build recipes, or wrappers around binary libraries. What the SDK itself decides is
in a few thousand lines of driver and service code; this directory models those.

Paths below are relative to `src/components/`; `drivers/` is `kernel/source/drivers/`.

## 1. The system's parts

| Part | State | Operations | What makes it correct |
|---|---|---|---|
| **kshm ring** `drivers/kshm/kshm.c` | a descriptor in shared memory: two sets of pointers `rd[2]`, `wt[2]`, `reserved[2]`, the `index` of the set in use with KSHM_RESET_FLAG, `rd_times`, `wt_times`; the bytes of the ring | request, copy and update, once for the writer and once for the reader; two kinds of reset; reserve; three size queries | no lock: an unread byte is never granted, a read is whole or answered KSHM_RESETED, packets come out in order and once, both threads get on |
| **persistent memory** `drivers/persistentmem/persistent-memory.c` | an array in RAM with its list of written ranges; a NOR partition in two halves that hold a log of it; `ofs`, `ofs_next` | write, read; full-half compaction; recovery at boot | a write is atomic and durable whatever power does; a boot ends, and not in an assert |
| **node ioctls**, same file | a chain of records in that array, `valid` | create, delete, get, put, get size, mark invalid | the chain is a map; no call leaves it without an end |
| **work queue** `kernel/source/third_party/nuttx/sched/wqueue/` | a list of items with delays, one bit of an event group per queue, the worker threads; the queue of the timer daemon | queue (thread, interrupt), cancel, process | no wake-up is lost, delayed work runs |
| **work notifier** `kwork_notifier.c`, same directory | pending and free entries; each entry's work item | setup, teardown, signal (thread, interrupt), the worker that calls back | an entry is in one list; the last event is told; no call for an event before the setup or after a successful teardown |
| **inter-core RPC** `drivers/amprpc/amprpc.c` | mailbox and message bitmaps with their semaphores, RPC work items, task notifications | call, notify, the mailbox interrupt, the workers | a mailbox and a message are in one place; the assertions hold; a call is answered |
| **firmware update** `hcfota/source/hcfota.c` with `applications/apps-bootloader/source/cmd/upgrade.c` | the flash partitions, `ota_doing` and the version in the system data | check, erase, backups, upgrades; the boot decision | a torn firmware always makes the next boot look for an image; a finished update is not repeated; a boot ends |
| **cast scene** `hccast/source/common/hccast_scene.c` with `miracast/hccast_mira_service.c` and `wifi_mgr/hccast_p2p_ctrl_wext.c` | the scene, the flags of a switch and of a Miracast restart, whether Miracast is on, its polling thread, three mutexes | switch, reset, the restart thread, service start and stop, the polling thread, the threads that restore the network after a session | no deadlock; Miracast is off in the scene of a cast; what was stopped comes back; a switch returns |
| **system data** `drivers/base/sysdata.c` | one record of the persistent memory | get, set | as the node ioctls |
| **kshm list** `drivers/kshm/kshm_list.c` | a linked-list variant of kshm behind a critical section | as kshm | as kshm |
| watchdog, input, glock, MTD, hudi, libuac, media player, cast services, demos, file systems, FreeRTOS | | | see `PROJECT.json`, each with the reason it is left out |

How they interact: applications write settings through the node ioctls (`sysdata.c`, `hudi_persistentmem.c`); the
firmware updater sets `ota_doing` there, the boot loader reads it after a restart. kshm connects a decoder or a USB
class driver (writer) to a sink, an application or a demultiplexer (reader), each calling from its own thread. The
RPC carries calls from one core to the other through hardware mailboxes and one of the work queues; a notification
for the other core is a callback of the work notifier that makes such a call. The scene switch starts and stops
Miracast from the threads of the cast services.

Where it is hard: kshm and the scene flags are accessed by two threads without a lock; the persistent memory must
survive a power cut at any instruction, its own recovery included; the RPC's interrupt, workers and callers share
two bitmaps and a bounded set of work items; the update spans three components and several minutes in which the
power may fail. `PROJECT.json` lists the hazards at their lines; section 6 has those that are left out of it.

## 2. Modules

    KshmFifo          abstract: a FIFO of packets with a reset
      ^ Kshm          kshm.c                         KshmProofs: implements KshmFifo, and all its invariants
    NodeMap           abstract: id -> record
      ^ PersistentNodes   the node ioctls            PersistentNodesProofs: implements NodeMap, uses AtomicStore
          | uses
    AtomicStore       abstract: an array, one atomic durable write at a time
      ^ PersistentMem     log, compaction, recovery, power cuts
                                                     PersistentMemProofs: implements AtomicStore with one cut, and
                                                     its invariants with any number (CutsAllowed)
    FirmwareUpdate    hcfota_internal, the boot loader   FirmwareUpdateProofs: TornIsFlagged, NoSecondTime, MovedKept
                      (the record of system data as NodeMap promises it)
    Notifier          abstract: registrations and the calls that are due
      ^ WorkNotifier      kwork_notifier.c           WorkNotifierProofs: keeps Notifier's promises, OneList,
                                                     LastEventSeen
          | extends
        WorkQueue         kwork_queue.c, kwork_process.c    NoLostWake, in WorkNotifierProofs
          | extended by
        AmpRpc            amprpc.c                   AmpRpcProofs: NoAssert, MboxesKept, MessagesKept, WorksSuffice
    CastScene         the scene switch and Miracast  CastSceneProofs: TypeOK, StopRemembered, SceneAlone
    Sublists          removal from lists             SublistsProofs: what it keeps

(`^`: the module below implements the one above, checked as a property, and proved: of PersistentMem with one cut, of
WorkNotifier all but the liveness that Notifier promises.) `AtomicStore` is where the two persistent memory modules
meet: PersistentMem implements it with `store` the array as readers see it and `pending` the write in flight;
PersistentNodes has these two variables itself and is proved to step as AtomicStore allows. The MC modules only name
the sets a configuration needs.

A definition whose name ends in `_Something` after the name of another one, under a comment `Mutant:`, is a bug that
could have been made at that place; it is used by nothing in the specification and serves to see that the property
named for it in `PROJECT.json` notices.

### Kshm

`rd`, `wt` and `reserved` have an entry for each pointer set. `w.pc` and `r.pc` say where each thread stands. A
thread is cut wherever it loads or stores a word the other side stores:

- kshm_write is `Offer` (the call), `RequestWriteLoad` (line 415, the read pointer is loaded), `RequestWrite`
  (refuse, grant, or reset the empty ring), `Copy`, `UpdateWrite` (line 482, the packet is there) and `WriteTimes`
  (line 483, it is counted). Between the load and the grant the reader may move on, and between the last two it may
  take the packet and count it before the writer has. `CopyFails` is a DMA channel that cannot be had; `GiveUp` a caller that does not retry.
- kshm_special_reset zeroes the idle set, then stores the index with the flag: `ZeroIdleSet` and `SpecialResetFlip`.
- kshm_read is `RequestReadLoad`, `RequestRead`, `ReadCopy`, `UpdateRead` (where the flag is looked at),
  `UpdateReadStore`, and `ReadTimesLoad`, `ReadTimesStore` for the `++` of line 354.

Callers send a header of fixed length and then the payload it announces, so the reader knows the length of the next
packet as long as no reset has happened; after one it may ask for any length (`RequestRead`). One writer and one
reader are what all callers in the repository have. kshm_reset, which takes no precaution at all, is taken while both
threads are outside the driver; the racing use in `usb_libuac.c` is listed as a hazard.

`q`, `kept`, `out` and `stale` are history: the packets in each set, the offsets read last, the last bytes returned,
and whether a reset fell into an increment. No action depends on them but through the length the reader knows.

### PersistentMem

One unit of flash is four bytes; a node takes its data and two units, a half ends in one unit for its CRC. A half is
not a string of bytes but what the driver can tell of one: its good nodes, what follows them (`junk`), and its last
word (`mark`: blank, part of a CRC, the CRC of its first n nodes, or wrong). A call or a boot is a list of flash
operations, `todo`, in the order of the code; each is a step, and `PowerCut` may fall before or inside any. `Boot*`
are the branches of prepare_block in their order; each leads to the list of operations that branch performs.

What is assumed of the flash, which is not in the repository's own code (`external` in the map):
- an erase runs from the low addresses upward; cut off, it leaves a damaged suffix of the nodes' log in place of the
  good nodes, or a blank header with dirt behind it, and the mark goes last (`HalfErased`);
- a program cut off leaves bits that are neither blank nor a valid node (`Garbled`), or part of a CRC (`MarkedPart`);
  which programs can be cut in the middle is the constant `Torn`;
- a program over used cells only clears bits: another CRC over a CRC makes neither (`MarkedFull`);
- a CRC never matches by accident, and flash operations fail only together with the power.

The driver holds one mutex over each call, so the power supply is the only thing that interleaves.

### PersistentNodes

A word of the array is a header (id, size) or a datum. `node_find`, `NodeCreate`, `NodeDelete` and `NodePut` compute
one write each from the array as it is and hand it to the store (`Log`); `Written` is its outcome and `Reboot` a
power cut, after which a write that was in flight may have been applied or not. A size that wraps in 16 bits, the id
0 as an argument and a raw write(2) into the chain are outside the model; the hazards say what they do.

### FirmwareUpdate

`flash` is what each partition holds: a version, its old data, or `Torn` while it is erased or half written. `store`
is the record of the system data as the running driver has it in RAM; `kept` is the set of records the next boot may
find, because a chip erase or an image that contains the persistent memory changes the flash under the running
driver: a later node call is then lost, or not, with a compaction. `upd` is hcfota_internal with one action per
flash or node call, `main` is where app_main of the boot loader stands, or that the firmware runs.

- `Mounted` .. `Result` are fs_mount_notify on the thread that mounts disks, which runs beside the boot loader's
  wait with its timeouts (`Timeout`, `Ready`). `Result` is the four outcomes. The timeout and a late disk race.
- `Check` is the checksum and the version; its failing branch is a bad image. `SetDoing` is two node calls when there
  is no record. Backups come first (`CheckBlockSpace` puts the list in order). A failed entry is ORed into the result
  and the loop goes on (`FailEntry`).
- The running firmware may ask for an update at the next boot (`AppReboot`, two node calls again) or make one itself.

Images are what the repository's generators write: plain; with a chip erase and the persistent memory, which is then
the last entry and comes with `ignore_version_update`; and, from the header's definition, with moved partitions. An
image has two versions: that of its header (`build/tools/fdt/HCFota_Generator.c:1216`) and, if it brings the
persistent memory, that of the record in it (`shipped`), which `build/tools/genpersistentmem/main.c` (and its copy
`build/tools/fdt/genpersistentmem.c`) takes from an option of its own and else leaves 0. The boards' `post-build.sh`
pass the same version to both, but nothing in either generator or in hcfota.c compares them. An
image that is not plain and has no store would, after a chip erase, be installed at each boot. `installed` is the image
installed last, if its version was recorded: a plain image that is installed in the same boot after an image with a
store failed is not recorded, the driver having been marked invalid, and it is installed again. A moved partition cut off half way is not restored by the retry: the
old place may already be gone. The record is only compared for equality, so a downgrade is an update. Upgrades from
USB host, network and RAM, the standby start and eMMC are left out.

### WorkQueue, WorkNotifier

Every action is a critical section of the code, except `Wait`, the wait for the bit; work_queue's setting of the bit
comes right after its critical section and is taken with it, or, from an interrupt, left to the timer daemon (`pend`).
With `TimerFull` the queue of that daemon may have no room left: work_queue then sets nothing and answers OK
(`kwork_queue.c:183`). How long that queue is, CONFIG_TIMER_QUEUE_LENGTH, and who else fills it is not the work queue's
affair; the runs of the queue's users have TimerFull = FALSE.
`nap` says whether a sleeping worker has a timeout. work->worker is not NULL exactly while the item is in the list,
which is why `Available` is a test of the list, and an item can be queued again while its callback runs.
`Keep` of Sublists is the loop that takes elements
out of a list. work_notifier_setup is three steps: it takes an entry, fills it outside the critical section, adds it.
A callback's end is two: `Free` is work_notifier_worker giving a one-shot entry back, `Finish` is work_process, which
then still looks at the item in it (`doing`, `done`). In between the entry is free while the worker has it, and may be
set up, signalled and taken by another worker; what the first still writes is then the second's. Nothing in the
repository waits for `done`, so that nothing depends on it. A client in the
model tears down one-shot registrations, as the drivers do; lasting ones are torn down in `work_eliminated`, where the
entry may then be reused under the worker.

### AmpRpc

A step of a thread ends where it may block or be preempted: at each semaphore and each critical section. The
interrupt (`isr`) handles one mailbox after the other while Linux goes on and the threads stand still. Linux is
external: it takes words and answers (`LinuxIrq`, `LinuxAnswer`) and may call (`LinuxCall`); a call keeps its message
until it is answered. A worker runs a call (`DoCall`, whatever the operation; one of a `Blocking` call may never return, such as
a poll without events, and is then a `DoCall` not taken, which the fairness allows), hands an answer to the caller (`DoReply`) or frees a mailbox (`DoRelease`,
`GiveMbox`). Callers of remote notifications are threads of HPWORK. A notification too large for a message returns at
once and changes nothing; a call with an unknown id is never answered (line 211) and is left out.

### CastScene

Each read or write of a flag that another thread decides on is a step; labels are the lines' purposes (`at`). `holder`
are the three mutexes. A service is named by the scene it asks for and casts from one thread; it may overlap with
others, end, or ask for NEED_REST. The polling thread offers a phone and switches scenes itself (`Offer`, `Switch`).

The event LISTEN ends the session there is. It comes from hccast_mira_service_start, twice, in the starting thread
(`InitP2p`, `On` and the two `Hear` before them), and from the library when the phone has gone (`PhoneLeaves`); `back`
is where the thread goes on. `Hear`, `Ask` and `Answer` are the handler's tests, the call of the application and what
it does about the network, `Switch` its switch to no scene, `Heard` the flag of the restart. In `Answer` the
application says whether it restores the network itself (`valid`, one of `Answers`): the projector, the hcscreen and
the cast test do; for one that does not (hcscreenhybrid), or without a callback, the handler starts a thread, one of
`Helpers`. hccast_mira_wifi_reconnect_thread stops the service (`Forget` .. `Join`, the same code as a switch's, but
outside g_mira_scene_mutex), then `Drop` and `Calm`; hccast_mira_hostap_enable_thread begins with `Drop`, stops the service
if it is on (`Stat`) and starts it again (`StartService` .. `On`), outside that mutex too. `job` is which of them a
helper runs, `helped` (history) which kinds have been started. The bounded
waits into DLNA and AirCast, `last_scene`, USB mirroring, a failing p2p_init, and applications that start or stop
Miracast themselves are left out; AIRCAST_PLAY behaves as DLNA_PLAY does.

## 3. Runs

| Run | Question | Bounds |
|---|---|---|
| `kshm` | every interleaving: TypeOK, NoOverwrite, NoTornRead, HeadReadable, FreeSizeHonoured, PacketsCounted, FIFO refinement | ring of 10, alignment 2, lengths 1, 3, 5 (2, 4, 6 rounded), 4 packets, 2 resets |
| `kshm_live` | both threads get on (fairness), the reserve is kept by every grant but that of a reset | ring of 5, lengths 1 and 2, reserves 0 and 2, 4 packets, 1 reset |
| `persist` | one cut anywhere, every write that fits: refinement of AtomicStore, log = array | 3 cells, halves of 10, 5 writes, 1 cut, all programs torn |
| `persist_cuts` | cuts in the recovery too: refinement of AtomicStore | 3 cells, halves of 7, 6 writes of a cell, 3 cuts, only copies torn |
| `persist_torn` | a boot always ends, a write is always decided (fairness); no assert fails and no cell goes back to an earlier value before a third cut | 3 cells, halves of 7, 5 writes of a cell, 3 cuts, all programs torn |
| `persist_nodes` | the chain is a map and ends | 7 words, 3 ids, sizes 0, 3 and 8 bytes, 6 calls |
| `update` | torn firmware is flagged to the next boot, moved data are kept, nothing is installed twice unless its store has another version, a boot ends (fairness) | 4 partitions and the store, 4 images, one of them with the generator's version 0 in its store, 2 cuts during updates, 1 failing call |
| `work` | entries in one list, no lost wake-up, the last event is told, delayed work ends, refinement of Notifier with its liveness | 2 workers, 2 entries, a one-shot and a lasting event, 2 registrations, 2 signals, a delayed item |
| `rpc` | assertions, enough work items, one place for each mailbox and message, calls end (fairness) | 2 workers, 1 caller, 2 mailboxes out, 1 in, 1 call, which may block, 1 message, 4 items; calls and notifications without end |
| `scene` | TypeOK; until a thread restores the network: Miracast off in a cast, a stop remembered, a switch returns, Miracast comes back (fairness) | 3 services, 2 casts, 1 phone, 2 of these in all; 1 helper, both answers |
| `persist_seal`, `work_eliminated` | disagreements, see 5 | small |

Why the bounds suffice. In `kshm` the lengths make the write pointer take every aligned position, wrap with and
without a gap at the end, fill the ring exactly, and find it empty but too small; four packets go round it more than
once, the second reset finds the first one still unseen. Lengths that are no multiple of the alignment keep the
packet and its place apart. In the persistent-memory runs a half of 7 is the smallest `CapacityAssumption` allows; a
compaction then comes every one or two writes. A half of 10 takes three nodes of one cell and ends exactly before the
mark, the case in which a scan reads the mark as a header; nodes of two and three cells end in front of it, and the
range list merges on either side and on both. The three passing runs were also done with every half from 7 to 11,
with the same result. Three cuts are a write, its recovery and the recovery of that; every branch of prepare_block is
taken with two. In `persist_torn` the third cut is what makes NoAssert and NeverOlder stop short: each begins with the
number of cuts from which the code no longer keeps it (`cuts > 2`), so that the bound of the run hides nothing. In `persist_nodes` three records of up to one word fit, or two of the largest size, and a third of
that size does not.

In `update` two cuts are an update and its repeat after the reboot, with a cut each, also with different images, and
the failing call comes in addition. In `work` two signals are one that finds the work of the first queued, taken or
done; two registrations of which a second reuses the entry of a first. In `rpc` the behaviours do not end: each thing
is used again, by another worker, in every order. Four items are one for each call and notification that can be under
way and for each mailbox, what `WorksSuffice` needs; with three it fails. CallsEnd was also checked of two calls, one of which
blocks, without a notification. In `scene` two comers are two services that
overlap, one service twice, a cast after the restart of the first, or a phone before, during or after a cast. A helper
needs a phone; one is enough, since a second session needs a start of Miracast after the first. With an application
that restores the network itself (Answers = {TRUE}) the invariants were also checked for two casts and a phone, there
with TLC's deadlock check, which finds none.

Every cfg sets `CHECK_DEADLOCK FALSE`. The bounds on packets, writes, calls, events and cuts end
each behaviour, a failed assert stops the driver for good, a torn boot loader does not start, and the RPC and the
threads of Miracast really can stop (section 5). That some threads of `scene` wait for each other before that is
excluded by SwitchEnds and RestartComes.

Fairness. `Kshm!FairSpec` has weak fairness on each thread's own steps: the threads are FreeRTOS tasks that poll
(`kshm_read` and `kshm_write` in loops with a delay), and what they do inside a call never blocks. A reader that
never polls is not fair, and nothing is promised of it. Offering packets, giving up, failing DMA, resets and reserves are
free. `PersistentMem!FairSpec` has weak fairness on booting and on the steps of a call: the driver's code runs to its
end unless power fails, and the number of cuts is bounded. Callers are free. `FirmwareUpdate!FairSpec`: the boot
loader's timeouts expire and its calls return; disks, users and power are free, so a boot that has found an image and
failed may wait for the disk to be plugged in again, as the code's message asks (`Retry`). `WorkNotifier!Spec`: each
worker, the timer daemon and the clock; callbacks return; clients and events are free. `AmpRpc!FairSpec`: the same,
with Linux taking every word and answering every notification; strong fairness only on xSemaphoreTake, which serves
who has waited longest, and on Linux's answer through a mailbox it shares with its calls. Of a call only that is fair
which is not `Blocking`: a worker may stay in the others for ever. `CastScene!Spec`: each
thread is scheduled, the helpers too, and time passes; media need not end, nor a phone come.

TypeOK of the modules whose cfg does not list it says what the variables hold; it also is true in those runs.

## 4. Proofs

**KshmProofs** proves, for every `Size`, `Align`, `Lens`, `Reserves` and any number of packets and resets,
`Spec => []TypeOK`, `[]NoOverwrite` and `[]NoTornRead`, from the assumptions in Kshm and one more, `Fits`: a rounded
length is smaller than the ring (`MCKshmFull.cfg` shows what happens at equality). Neither invariant is inductive. What
makes a grant safe is where the unread packets lie: the strengthening `IInv` says that `q[index]` is a chain of
places from `rd` to `wt`, each beginning where the one before ends or at 0 if it did not fit, wrapping at most once,
and that the read pointer the writer loaded is one the reader had earlier in that chain, so that the room computed
from it is at most the room there is. To this come, for each program counter, what the thread holds (the grant is
clear of the chain; the copy is the chain's head or a reset is pending). There is one step per action, and the lemmas
on `Advance`, `Grant` and chains are stated once. HeadReadable and FreeSizeHonoured then follow from the chain alone.
The other three need more, on top of `IInv`:
- `RingIsFifo` is the refinement of KshmFifo: `Stored` says that the bytes of every unread packet are its own and that
  what the reader has copied, unless a reset is pending, is the head; each step is then a write, a read, a reset or a
  stutter of the FIFO (`FifoStep`). This is what the driver promises as a whole.
- `PacketsAlwaysCounted` needs `Counted` (the counters differ, modulo TimesMod, by the packets in the ring, less the
  one written but not yet counted, and the one read but not yet counted) and that a ring cannot hold more packets than bytes (`LayoutLength`, by the pigeonhole
  principle); hence its hypothesis `TimesSuffice`, true of any ring with counters of 32 bits.
- `ReserveIsKept`, of every grant but that of a reset, needs `Trailed`: the bytes read last lie right behind the read pointer, or behind the place near the
  end where the reader turned, which a reserve that crosses the end is counted from.

**PersistentNodesProofs** proves `UsesStore`: every step of the node ioctls, a power cut included, is a step of
AtomicStore over the same array. Together with the runs that check PersistentMem against AtomicStore it justifies
looking at the chain without the flash. It also proves `[]ChainEnds` and that the node ioctls implement NodeMap
(`ChainIsMap`), for any array, ids and sizes. `Chain(s, H, e)` says of an array s that the records begin at the places H,
follow each other from 0 to the end e, have different ids, and that from e on nothing is used; `ChainFollowed` says
that node_find then returns the record with the id. The inductive invariant is that the array is such a chain and that
a write in flight is one of the three (`Good`) on the array as it still is; `CreateKeeps`, `DeleteKeeps` and `PutKeeps`
say what becomes of the chain and the map when it is applied. node_find is a recursion; that its loop has a value at
all (`FindIsLoop`), and what it is, is shown by a least counterexample, as the naturals are well-founded (`WFMin`).

**WorkNotifierProofs** proves NoLostWake for any set of workers and items, if the timer daemon's queue is never full
(`~TimerFull`), twice: `QueueNeverSleeps` for the queue
however it is used, `NotifierNeverSleeps` for the notifier on it. The strengthening `WInv` adds the types of the
workers' places and that the bit is only up while no worker is asleep: setting it wakes all that sleep, and the first
clears it. It uses nothing about what callbacks do, so it holds of every module that extends WorkQueue.

It also proves `[]OneList` and `[]LastEventSeen` for any entries, workers, clients and events. `IInv`
adds to them where an entry may be at the same time (`QueuedApart`, and `Once` for one-shot registrations), that a
worker holds an item only while it runs it (`Holding`), and that the entries that can still lead to a call have
different keys and the parameter of the last event (`Known`). Its hypothesis, `TornDown \subseteq OneShot`, is how the
drivers use the notifier; without it the theorems are false: a lasting entry is freed with its work queued
(`work_eliminated`) and setup may fill it anew under the worker.

On the same invariant stands `PromisesKept`, the refinement of Notifier without its fairness: each step is a step of
Notifier or not seen by it. A signal makes for each registration it meets the calls that are due one more, or leaves
them as they are and not 0, since the item is queued once however often (`SignalRefines`); taking an item moves a call
from the queue to the worker (`TakeItemRefines`); a teardown finds none due, which is where `Once` is needed.

**SublistsProofs** has the facts about lists these proofs need: `Keep` keeps the elements it should, no others, in
their order, and none twice; removal at a place and concatenation likewise. `Keep` counts instead of recurring, so
that this can be proved without induction.

**PersistentMemProofs** proves what the runs `persist` and `persist_torn` check of the driver's safety, for every size
of the array and of a half, every set of writes, and any number of writes and cuts. `Shaped` and `[]NodesCover` need
no hypothesis: whatever is written, past the end of the array too, and wherever power fails, the ranges of merge_node
lie apart and cover what was written. The others have two, and neither is there for the proof's convenience; without
it the property is false, and a run or a cfg of section 5 shows how.
- `Inside`: writes stay in the array (`MCPersistPastEnd`). write(2) lets a caller seek past its end; none does.
- `CutsAllowed`, one of three: a cut tears at most seals; there is only one cut, which may tear anything; or there are
  any number, tearing logged nodes and seals, none of them during a boot or its repair (`MCPersistRepair`,
  `MCPersistAssert`). Under it hold `[]ReadyIsClean`, `[]LogMatchesArray`, `[]NoAssert`, `[]TypeOK` and `NeverOlder`.
- `StoreImplemented`, the refinement of AtomicStore, is under a single cut, anywhere and torn as it may be:
  two cuts that tear nothing break it (`persist_seal`).

The inductive invariant `IInv` says of each place in a call what is in the two halves (`AtReady` .. `AtKeep`, one
named stage for each `todo`), and of a driver without power that it finds one of three situations (`Off`): one half in
use and the other blank (`Lone`), a sealed half being copied or its copy being erased (`Sealing`), or a complete copy
beside a half whose erase was begun (`Keeping`). In each, the half that prepare_block will choose `Serves`: its scan
gives in every cell what readers last saw, what the write in flight stores, or nothing; with one cut all of one of
the first two. Each branch of Boot is shown to choose that half, and each cut to lead to one of the three.

Three groups of lemmas carry this. A scan is a loop over the log, UsedBy and MergeNode are loops too; that each loop
has a value, and each of their facts, is shown by counting up to its length with a least counterexample (`WFMin`) in
place of an induction. `MergeNode` keeps the ranges apart and covers what it covered and the new one; so a scan of the
copy of the array gives the array (`CopyOf`), whatever order the ranges are in. And the copy fits below the seal:
update_next_block silently drops a node that does not. That is `CapacityAssumption`, and the attempt to prove it found
the earlier form of the assumption too small for arrays of an even number of cells: ranges that lie apart are at most
every other cell, but the last may be longer and end at the last cell. TLC then confirmed that the old bound loses
cells (4 cells, halves of 7, Extra 2). The driver checks no such bound; it is what a partition has to satisfy.

**FirmwareUpdateProofs** proves `[]TornIsFlagged`, `NoSecondTime` and `[]MovedKept` for any partitions, images, numbers
of cuts and failing calls. `Course` is what every update goes through: the stages, that what is left to do is the end
of the plan (backups, then upgrades), and that what was written has the new version. On it stand three inductive
invariants, one for each property: `Doubted` (while the flash is torn every record that may be found is a reason to
look for an image, and stays one when the modes are cleared), `Recorded` (the version installed last is in all of
them, unless its store has another) and `Backed` with `InPlace` (the data of each backup are where the loop has brought them). The hypotheses are
about images, of which hcfota.c checks none, and are stated at the end of FirmwareUpdate: each image brings the whole
firmware (`WholeFirmware`), no call fails under an image that brings the persistent memory (`StoreNotFaulty`, the
hazard at `hcfota.c:1642`), one that erases the chip or ignores the version brings it (`StoreBrought`), and moves do
not overlap (`MovesApart`). The images of `update` satisfy them all, which an assumption of MCFirmwareUpdate has TLC
evaluate. The moves need no hypothesis about failures.

**AmpRpcProofs** proves `[]NoAssert`, `[]MboxesKept` and `[]MessagesKept` for any number of mailboxes, messages, workers and callers.
The assertions are about two counters: `IInv` says that the free bits are exactly as many as mboxres, the threads that
have taken the semaphore and not yet a bit, and the releases that have set a bit and not yet given the semaphore
(`MboxCount`), and the same of the messages. That a mailbox is in exactly one place is split
into `Somewhere` (none leaks) and `Apart` (no two places at once), each with one step per action; what can hold a
mailbox is only what the interrupt put into the queue (`Places`), and no two callers have the same message
(`SlotsApart`). The counting rests on the cardinality theorems of
the library and on the assumption that the sets are finite. For the messages `MInv` says the same in three parts:
what is on its way is in one place of it (`OneWay`), a notification is on its way or answered exactly while its caller
waits (`Matched`), and an item in the queue carries something (`Loaded`). `[]WorksSuffice` follows for systems with
`EnoughItems`, at least as many items as messages, calls of Linux and mailboxes: were all items busy when the interrupt
needs one, each would carry a different one of these, and the one the interrupt brings is not among them. That is a
condition on CONFIG_RPCWORK_NUM, of which the code checks nothing but the assert itself.

**CastSceneProofs** proves `[]TypeOK`, `[]StopRemembered` and `[]SceneAlone` for any services, helpers, casts and
phones, and that with Answers = {TRUE} both hold without their exceptions (`RequestNeverLost`, `NeverBeside`): then no
helper is ever started (`NeverHelped`). `IInv` ties the scene mutex to the places of the code that hold it (`Owners`), so that a switch and a restart are never
both behind it, says what its holder knows of the service there (`Phases`), that a stop that is still to be made good
for has its flag up and Miracast off (`Owed`), and that a service whose scene stands while Miracast runs or is being
started has its switch still to come to the stop (`Scened`). Helpers are in it as long as they do no harm: only those
that restore the access point start the service (`Works`), and what a reconnect thread does leaves `Scened` as it is.

Each inductive invariant was first checked by TLC on the instances of section 3; that of PersistentMem also with 3
and 4 cells, with 3 cuts under each of the alternatives of CutsAllowed that allow them, and with 5 cuts and 5 writes
that tear logged nodes and seals.

Only model-checked: all liveness, which depends on fairness and ENABLED, and so the liveness part of Notifier; and of
PersistentMem what the runs check outside CutsAllowed: that with writes of one cell several cuts leave the store atomic, also when they tear a copy (`persist_cuts`), and that with two cuts of any kind, the second
perhaps in the repair of the first, no assert fails and no cell goes back (`persist_torn`). The former depends on
sizes that leave no room behind a seal; the latter fails at a third cut (section 5). Under CutsAllowed the theorems have
no such bound (`Alive`, `OnlyNewer`).

## 5. Where code and comments disagree

Two runs are part of the project:

- `persist_seal`: a seal left by a first cut goes stale when the log grows; the branch at line 547 then keeps a
  half-made copy, and a confirmed write is lost.
- `work_eliminated`: work_notifier_teardown of a lasting notification answers 0 while its callback is queued or
  already with a worker, and still comes (`kwork_notifier.c:342`, against the comment at 303). Only for a one-shot
  notification does -ENOENT tell the caller so.

The others are there to be run by hand, each a cfg whose one property is violated:

- `MCKshmStuck.cfg`: an empty ring that stands exactly a packet's length from its start neither grants nor resets
  (`kshm.c` line 427 lets the packet through, line 441 ff. refuse it); the writer is refused for ever.
- `MCKshmFull.cfg`: a packet of exactly the ring's size is accepted and lost, though only larger ones are called an
  error (`kshm.c:430`).
- `MCKshmAvail.cfg`: the reader takes and counts a packet between `kshm.c:482`, where it appears, and 483, where the
  writer counts it; kshm_get_avail_packets answers almost 2^31 then.
- `MCKshmReserve.cfg`: the reset of an empty ring grants the place at 0 although the bytes the reader has reserved lie
  there (`kshm.c:432-435`).
- `MCWorkTimerFull.cfg`: an interrupt finds the timer daemon's queue full; its work stays in the list with every worker
  asleep (`kwork_queue.c:183`).
- `MCAmpAsleep.cfg`: one worker is in a call that does not return, the other asleep with work in the queue: of two items
  the bit woke only the first.
- `MCPersistAssert.cfg`: three cuts make the assert at line 601 fail at this and at every later boot.
- `MCPersistRepair.cfg`: the branch "Because the erase operation may not be completely finished" (line 571) is also
  reached without an interrupted erase, from two cuts in programs, and wipes both halves.
- `MCPersistPastEnd.cfg`: a write past the end of the array is logged, answered as done, and not applied; the log
  keeps 16 bits of its start, so that it shows up elsewhere after a restart (line 314).
- `MCFirmwareRefused.cfg`: an interrupted update tears the firmware and leaves the old version in the record; a disk
  with just that version is then refused, "just launch from old firmware" (`upgrade.c:523`), which cannot be launched.

- `MCFirmwareUnlabelled.cfg`: an image whose persistent memory was generated with another version than its header is
  installed again after it was installed (`genpersistentmem/main.c:297`, `hcfota.c:1560`).
- `MCCastLost.cfg`: a phone leaves, the reconnect thread is started, a service switches to its scene and asks for
  Miracast again (`hccast_scene.c:276`); the thread's stop then clears that (`hccast_mira_service.c:498`).
- `MCCastBeside.cfg`: the hostap thread starts Miracast (`hccast_mira_service.c:164`), outside g_mira_scene_mutex, when
  a service has just found it off: it runs beside the cast.
- `MCCastStuck.cfg`: the same start holds g_mira_svr_mutex and waits for g_p2p_mutex; a switch holds that and waits
  for the polling thread to end, which waits for g_mira_svr_mutex. TLC's deadlock check finds it too.

The RPC can stop, and no comment says otherwise. Mailboxes are released by the workers that wait for mailboxes to
answer: with as many calls as workers at once, all mailboxes full, every worker waits in msg_other_core
(`amprpc.c:346`) and the releases stay in the queue. With the shipped defaults of four mailboxes and eight threads,
eight concurrent callers on Linux are enough. One worker may also sleep through it: of two items queued while it goes
to sleep the bit wakes one worker for the first. And a worker runs the call's operation itself, poll with the
caller's timeout for one (`amprpc.c:158`): as many calls that do not return as there are workers stop all others.
`CallsEnd` therefore says that a call is answered unless it is itself such a call or the workers are `Stuck` in these
ways, for ever.

These bound what the passing runs can claim. `persist` has one cut: two are enough for `persist_seal`. `persist_cuts`
has writes of one cell, so that nothing fits behind a seal, and tears neither a logged node (`MCPersistRepair`) nor a
seal: a torn seal behind a full log is read as a header, and a second cut in the repair keeps a part of the array.
With two cuts and everything torn what is left is `NeverOlder`: cells may be lost, and a half that an interrupted
erase left dirty may be used as if it were blank, but no cell goes back to an earlier value; a third cut, in the
branch that starts over, breaks that as well and `NoAssert` too (`MCPersistAssert`). `scene` ends its promises where a helper begins, except TypeOK and, for a
reconnect thread, SceneAlone. The lengths of `kshm_live` are at
most half the ring, those of `kshm` smaller than the ring. `update` lets no entry fail of an image that brings the
persistent memory: its record would say that nothing is under way (`hcfota.c:1642`), over a torn firmware.

## 6. What is left

Further hazards without a property:

- `usb_libuac.c:612` kshm_reset from a thread that is neither reader nor writer; `kshm.c:433` the reset inside
  kshm_request_write that leaves a reader with a header and no payload; `kshm.c:523` a grant left by a failed DMA copy.
- `persistent-memory.c:173` results of flash calls are dropped; `:1009` a size that wraps in 16 bits; `:921` the id 0.
- `hcfota.c:1464` backups between device types; `upgrade.c:622` a notifier block registered twice, into a chain that is
  in a binary library.
- `sound/snd_core.c:121` a teardown that answers -ENOENT is ignored and the device freed;
  `:504` the key is cleared after the wake-up; `video/hc16xx_fb.c:1073` two registrations share one key.
- `hccast_scene.c:479` the tick that is zeroed between two reads (the model has the step, the eight seconds are not
  a property); `:482` and `hccast_mira_service.c:517` an application that starts Miracast during a restart or a stop.

Next, in this order:

1. KshmList against KshmFifo, the same abstract specification as the ring.
2. Applications' own starts and stops of Miracast in CastScene, with the two hazards above.
3. Proofs: ImplementsStore for several cuts, with what makes a seal stale as its hypothesis.

Not modelled: parts in binary libraries or third-party code (the players, the Wi-Fi supplicant, FreeRTOS, the file
systems, LVGL), register access (watchdog, MTD, clocks), the FAT and yaffs variants of the persistent memory, which
have no recovery of their own, and the demo applications. `PROJECT.json` has the reason for each.
