--------------------------- MODULE FirmwareUpdate ---------------------------
(***************************************************************************)
(* hcfota_internal (hcfota.c), the boot loader that calls it or launches   *)
(* the firmware (upgrade.c, main.c), and the record of system data in the  *)
(* persistent memory by which the two agree across a power cut.            *)
(*                                                                         *)
(* The record survives each node call whole (NodeMap, AtomicStore), but    *)
(* the flash under it may be erased by the chip erase or rewritten by the  *)
(* image.  kept is the set of records the next boot may find there; store  *)
(* is the one the running driver holds in RAM.                             *)
(***************************************************************************)
EXTENDS Naturals, Sequences, SequencesExt, FiniteSets, Sublists

CONSTANTS
    Parts,      \* the partitions an image may write, the store apart
    BootPart,   \* the one the boot loader runs from
    FirmPart,   \* the one bootm checks and starts
    Store,      \* the partition of the persistent memory
    Images,     \* [version, shipped, ignore, erase, entries] as tools may build them:
                \* shipped is the version in the persistent memory it brings
    Faulty,     \* the images during whose update a flash call may fail
    Torn,       \* what a partition holds that is erased or half written
    NoRecord,   \* no system data
    NoImage,    \* no disk, or a disk without an image
    MaxCuts,    \* bound: power cuts during an update
    MaxFails    \* bound: failing flash calls or space checks

ASSUME PartsAssumption == /\ {BootPart, FirmPart} \subseteq Parts
                          /\ Store \notin Parts
                          /\ Torn \notin Parts \cup Nat
ASSUME ImagesAssumption ==
    /\ NoImage \notin Parts \cup Images
    /\ Images \subseteq [version : Nat \ {0}, shipped : Nat, ignore : BOOLEAN, erase : BOOLEAN,
                         entries : Seq([to : Parts \cup {Store},
                                        from : Parts \cup {NoImage}])]
    /\ \A im \in Images : \A k \in DOMAIN im.entries :
          im.entries[k].to = Store => /\ im.ignore /\ k = Len(im.entries)
                                      /\ im.entries[k].from = NoImage
ASSUME RecordAssumption ==
    NoRecord \notin [doing : BOOLEAN, version : Nat, modes : BOOLEAN]
ASSUME BoundsAssumption == {MaxCuts, MaxFails} \subseteq Nat

VARIABLES
    flash,   \* what each partition holds
    store,   \* the record as node_get of the running driver returns it
    valid,   \* gdev->valid: node calls are answered
    kept,    \* the records the next boot may find
    main,    \* where app_main of the boot loader is, or "running" the firmware
    upd,     \* hcfota_internal: [pc, img, todo, rc, and was: what a backup is to move]
    disk,    \* the image on the disk that is plugged in
    seen,    \* its mounting has been announced
    cuts, fails,
    installed \* history: the image last installed, none from the start of an update

vars == <<flash, store, valid, kept, main, upd, disk, seen, cuts, fails, installed>>

Idle == [pc |-> "idle", img |-> NoImage, todo |-> <<>>, rc |-> "ok", was |-> <<>>]
Zeroed == [doing |-> FALSE, version |-> 0, modes |-> FALSE]
Versions == {im.version : im \in Images} \cup {im.shipped : im \in Images} \cup {0, 1}
Record == [doing : BOOLEAN, version : Versions, modes : BOOLEAN] \cup {NoRecord}

\* The generator of the persistent memory takes a version of its own, 0 unless it
\* is given one.
Shipped(im) == [doing |-> FALSE, version |-> im.shipped, modes |-> FALSE]
Brings(im) == \E e \in Range(im.entries) : e.to = Store

\* A node call changed the record in RAM and logged the change.  If the flash
\* under the driver was erased, the log is lost unless a compaction copied it.
Logged(s) == /\ store' = s
             /\ kept' = (kept \ {store}) \cup {s}

\* get_ota_detect_mode
Looks(s) == s = NoRecord \/ s.version = 0 \/ s.doing \/ s.modes

\* hcfota_entry: IH_ENTTRY_REMAP and IH_ENTTRY_NORMAL
Backups(im) == Keep(im.entries, {e \in Range(im.entries) : e.from # NoImage})
Upgrades(im) == Keep(im.entries, {e \in Range(im.entries) : e.from = NoImage})

\* The partitions of the firmware, which is of version 1 at first; the others
\* hold data no image brought, named by the partition.
Entries == UNION {Range(im.entries) : im \in Images}
Firm == {e.to : e \in {f \in Entries : f.from = NoImage}} \
            ({e.from : e \in Entries} \cup {Store})

Init == /\ flash = [p \in Parts |-> IF p \in Firm THEN 1 ELSE p]
        /\ \E s \in {NoRecord, [doing |-> FALSE, version |-> 1, modes |-> FALSE]} :
              store = s /\ kept = {s}
        /\ valid = TRUE /\ main = "off" /\ upd = Idle
        /\ disk = NoImage /\ seen = FALSE
        /\ cuts = 0 /\ fails = 0 /\ installed = NoImage

-----------------------------------------------------------------------------
(* The boot loader.                                                        *)

PowerOn ==
    /\ main = "off"
    /\ store' \in kept /\ kept' = {store'} /\ valid' = TRUE
    /\ main' = IF flash[BootPart] = Torn THEN "dead" ELSE "detect"
    /\ seen' = FALSE
    /\ UNCHANGED <<flash, upd, disk, cuts, fails, installed>>

\* upgrade_detect: what the record says, or the key held down (upgrade_force).
Detect ==
    /\ main = "detect"
    /\ main' \in {"wait"} \cup (IF Looks(store) THEN {} ELSE {"launch"})
    /\ UNCHANGED <<flash, store, valid, kept, upd, disk, seen, cuts, fails, installed>>

\* do_hcfota_upgrade returns: to app_main, which launches the firmware, or, the
\* second time, to the console.
After(m) == IF m \in {"wait", "hold"} THEN "launch" ELSE "console"

\* No disk, or none with an image, within CONFIG_BOOT_HCFOTA_TIMEOUT.  The test
\* of g_upgrade_mode by the notifier may already have been passed ("found").
Timeout ==
    /\ main \in {"wait", "wait2"} /\ main' = After(main)
    /\ UNCHANGED <<flash, store, valid, kept, upd, disk, seen, cuts, fails, installed>>

\* fs_mount_notify on the thread that mounts, up to the stat of the image.
Mounted ==
    /\ main \in {"wait", "wait2", "hold", "hold2"} /\ ~seen /\ seen' = TRUE
    /\ upd.pc = "idle" /\ disk # NoImage
    /\ upd' = [Idle EXCEPT !.pc = "found", !.img = disk]
    /\ UNCHANGED <<flash, store, valid, kept, main, disk, cuts, fails, installed>>

\* complete(&hcfota_ready): the boot loader then waits for upgrade_done.
Ready ==
    /\ upd.pc = "found" /\ upd' = [upd EXCEPT !.pc = "check"]
    /\ main' = CASE main = "wait" -> "hold" [] main = "wait2" -> "hold2" [] OTHER -> main
    /\ UNCHANGED <<flash, store, valid, kept, disk, seen, cuts, fails, installed>>

\* Mutant: a refused version does not complete upgrade_done.
Result_Unanswered ==
    /\ upd.pc = "result" /\ main # "running" /\ upd' = [Idle EXCEPT !.rc = upd.rc]
    /\ IF valid /\ store # NoRecord THEN Logged([store EXCEPT !.modes = FALSE])
                                    ELSE UNCHANGED <<store, kept>>
    /\ main' = IF upd.rc = "ok" THEN "off" ELSE main
    /\ UNCHANGED <<flash, valid, disk, seen, cuts, fails, installed>>

\* set_ota_detect_mode(NONE), then what the return value asks for.
Result ==
    /\ upd.pc = "result" /\ main # "running" /\ upd' = [Idle EXCEPT !.rc = upd.rc]
    /\ IF valid /\ store # NoRecord THEN Logged([store EXCEPT !.modes = FALSE])
                                    ELSE UNCHANGED <<store, kept>>
    /\ main' = CASE upd.rc = "ok"      -> "off"
                 [] upd.rc = "version" -> IF main \in {"hold", "hold2"} THEN After(main) ELSE main
                 [] OTHER              -> main
    /\ UNCHANGED <<flash, valid, disk, seen, cuts, fails, installed>>

\* bootm starts a firmware whose checksum is right; it takes the processor, so
\* that an update still going on ends there.
Launch ==
    /\ main = "launch"
    /\ IF flash[FirmPart] # Torn
       THEN /\ main' = "running" /\ upd' = Idle
            /\ store' \in kept /\ kept' = {store'} /\ valid' = TRUE
       ELSE main' = "wait2" /\ UNCHANGED <<upd, store, kept, valid>>
    /\ UNCHANGED <<flash, disk, seen, cuts, fails, installed>>

-----------------------------------------------------------------------------
(* The running firmware.                                                   *)

\* hcfota_reboot: creates the record if there is none; a second call sets the
\* modes; reset.
AppReboot ==
    /\ main = "running" /\ upd.pc = "idle"
    /\ IF valid /\ store = NoRecord
       THEN Logged(Zeroed) /\ UNCHANGED main
       ELSE /\ main' = "off"
            /\ IF valid THEN Logged([store EXCEPT !.modes = TRUE])
                        ELSE UNCHANGED <<store, kept>>
    /\ UNCHANGED <<flash, valid, upd, disk, seen, cuts, fails, installed>>

\* An application upgrades from a disk or the network and reboots on success.
AppUpdate(im) ==
    /\ main = "running" /\ upd.pc = "idle"
    /\ upd' = [Idle EXCEPT !.pc = "check", !.img = im]
    /\ UNCHANGED <<flash, store, valid, kept, main, disk, seen, cuts, fails, installed>>

AppResult ==
    /\ upd.pc = "result" /\ main = "running" /\ upd' = Idle
    /\ main' = IF upd.rc = "ok" THEN "off" ELSE main
    /\ UNCHANGED <<flash, store, valid, kept, disk, seen, cuts, fails, installed>>

-----------------------------------------------------------------------------
(* hcfota_internal, one action per flash or node call.                     *)

\* Mutant: only an older version is refused.
Check_NotOlder ==
    /\ upd.pc = "check"
    /\ \/ /\ upd' = IF valid /\ store # NoRecord /\ store.version > upd.img.version
                    THEN [upd EXCEPT !.pc = "result", !.rc = "version"]
                    ELSE [upd EXCEPT !.pc = "doing"]
          /\ UNCHANGED fails
       \/ /\ fails < MaxFails /\ fails' = fails + 1
          /\ upd' = [upd EXCEPT !.pc = "result", !.rc = "upgrade"]
    /\ UNCHANGED <<flash, store, valid, kept, main, disk, seen, cuts, installed>>

\* The checksum and the version are compared before anything is changed.
Check ==
    /\ upd.pc = "check"
    /\ \/ /\ upd' = IF valid /\ store # NoRecord /\ store.version = upd.img.version
                    THEN [upd EXCEPT !.pc = "result", !.rc = "version"]
                    ELSE [upd EXCEPT !.pc = "doing"]
          /\ UNCHANGED fails
       \/ /\ fails < MaxFails /\ fails' = fails + 1
          /\ upd' = [upd EXCEPT !.pc = "result", !.rc = "upgrade"]
    /\ UNCHANGED <<flash, store, valid, kept, main, disk, seen, cuts, installed>>

\* hcfota_set_doing(1), its result dropped, and mark_invalid: one call creates
\* the record, another sets the flag.
SetDoing ==
    /\ upd.pc = "doing" /\ installed' = NoImage
    /\ IF valid /\ store = NoRecord
       THEN Logged(Zeroed) /\ UNCHANGED <<upd, valid>>
       ELSE /\ IF valid THEN Logged([store EXCEPT !.doing = TRUE])
                        ELSE UNCHANGED <<store, kept>>
            /\ valid' = (valid /\ ~upd.img.ignore)
            /\ upd' = [upd EXCEPT !.pc = IF upd.img.erase THEN "erase" ELSE "space",
                                  !.was = [e \in Range(Backups(upd.img)) |-> flash[e.from]]]
    /\ UNCHANGED <<flash, main, disk, seen, cuts, fails>>

\* MTD_ERASE of the whole chip, one partition after the other.
EraseChip ==
    /\ upd.pc = "erase"
    /\ \/ \E p \in Parts : /\ flash[p] # Torn
                           /\ flash' = [flash EXCEPT ![p] = Torn]
                           /\ UNCHANGED <<kept, upd>>
       \/ /\ kept # {NoRecord} /\ kept' = {NoRecord}
          /\ UNCHANGED <<flash, upd>>
       \/ /\ kept = {NoRecord} /\ \A p \in Parts : flash[p] = Torn
          /\ upd' = [upd EXCEPT !.pc = "space"]
          /\ UNCHANGED <<flash, kept>>
    /\ UNCHANGED <<store, valid, main, disk, seen, cuts, fails, installed>>

\* Mutant: the entries are done in the order of the image.
CheckBlockSpace_InOrder ==
    /\ upd.pc = "space"
    /\ \/ /\ upd' = [upd EXCEPT !.pc = "entry",
                                !.todo = upd.img.entries]
          /\ UNCHANGED fails
       \/ /\ fails < MaxFails /\ fails' = fails + 1
          /\ upd' = [upd EXCEPT !.pc = "result", !.rc = "upgrade"]
    /\ UNCHANGED <<flash, store, valid, kept, main, disk, seen, cuts, installed>>

\* hcfota_check_block_space over all entries; backups are done first.
CheckBlockSpace ==
    /\ upd.pc = "space"
    /\ \/ /\ upd' = [upd EXCEPT !.pc = "entry",
                                !.todo = Backups(upd.img) \o Upgrades(upd.img)]
          /\ UNCHANGED fails
       \/ /\ fails < MaxFails /\ fails' = fails + 1
          /\ upd' = [upd EXCEPT !.pc = "result", !.rc = "upgrade"]
    /\ UNCHANGED <<flash, store, valid, kept, main, disk, seen, cuts, installed>>

\* hcfota_do_backup, hcfota_do_upgrade: the partition is erased, then written.
BeginEntry ==
    /\ upd.pc = "entry" /\ upd.todo # <<>>
    /\ upd' = [upd EXCEPT !.pc = "writing"]
    /\ IF Head(upd.todo).to = Store
       THEN /\ kept' = kept \cup {Shipped(upd.img), NoRecord}
            /\ UNCHANGED flash
       ELSE /\ flash' = [flash EXCEPT ![Head(upd.todo).to] = Torn]
            /\ UNCHANGED kept
    /\ UNCHANGED <<store, valid, main, disk, seen, cuts, fails, installed>>

EndEntry ==
    /\ upd.pc = "writing"
    /\ upd' = [upd EXCEPT !.pc = "entry", !.todo = Tail(upd.todo)]
    /\ LET e == Head(upd.todo) IN
       IF e.to = Store
       THEN kept' = {Shipped(upd.img)} /\ UNCHANGED flash
       ELSE /\ flash' = [flash EXCEPT ![e.to] =
                            IF e.from = NoImage THEN upd.img.version ELSE flash[e.from]]
            /\ UNCHANGED kept
    /\ UNCHANGED <<store, valid, main, disk, seen, cuts, fails, installed>>

\* A read, an erase or a write fails: the loop goes on with the next entry.
FailEntry ==
    /\ \/ upd.pc = "entry" /\ upd.todo # <<>>
       \/ upd.pc = "writing"
    /\ upd.img \in Faulty /\ fails < MaxFails /\ fails' = fails + 1
    /\ upd' = [upd EXCEPT !.pc = "entry", !.todo = Tail(upd.todo), !.rc = "upgrade"]
    /\ UNCHANGED <<flash, store, valid, kept, main, disk, seen, cuts, installed>>

\* Mutant: the flag is cleared although an entry failed.
ClearDoing_Always ==
    /\ upd.pc = "entry" /\ upd.todo = <<>>
    /\ IF valid THEN Logged([store EXCEPT !.doing = FALSE])
                ELSE UNCHANGED <<store, kept>>
    /\ upd' = [upd EXCEPT !.pc = IF upd.img.ignore THEN "result" ELSE "version"]
    /\ installed' = IF upd.img.ignore THEN upd.img ELSE installed
    /\ UNCHANGED <<flash, valid, main, disk, seen, cuts, fails>>

\* All entries done; hcfota_set_doing(0) only if none failed.
ClearDoing ==
    /\ upd.pc = "entry" /\ upd.todo = <<>>
    /\ IF upd.rc = "ok"
       THEN /\ IF valid THEN Logged([store EXCEPT !.doing = FALSE])
                        ELSE UNCHANGED <<store, kept>>
            /\ upd' = [upd EXCEPT !.pc = IF upd.img.ignore THEN "result" ELSE "version"]
            /\ installed' = IF upd.img.ignore THEN upd.img ELSE installed
       ELSE /\ upd' = [upd EXCEPT !.pc = "result"]
            /\ UNCHANGED <<store, kept, installed>>
    /\ UNCHANGED <<flash, valid, main, disk, seen, cuts, fails>>

\* hcfota_set_sysdata_version
SetVersion ==
    /\ upd.pc = "version"
    /\ IF valid THEN Logged([store EXCEPT !.version = upd.img.version])
                ELSE UNCHANGED <<store, kept>>
    /\ upd' = [upd EXCEPT !.pc = "result"]
    /\ installed' = IF valid THEN upd.img ELSE installed
    /\ UNCHANGED <<flash, valid, main, disk, seen, cuts, fails>>

Internal == \/ Check \/ SetDoing \/ EraseChip \/ CheckBlockSpace \/ BeginEntry
            \/ EndEntry \/ FailEntry \/ ClearDoing \/ SetVersion

-----------------------------------------------------------------------------
(* The user and the power.                                                 *)

\* A disk is pulled out or plugged in while nothing reads it.
Swap ==
    /\ upd.pc = "idle" /\ seen' = FALSE
    /\ disk' \in (Images \cup {NoImage}) \ {disk}
    /\ UNCHANGED <<flash, store, valid, kept, main, upd, cuts, fails, installed>>

\* A disk without an image, or one that comes after the boot loader moved on.
NoFirmware ==
    /\ \/ main \in {"wait", "wait2", "hold", "hold2"} /\ disk = NoImage
       \/ main \in {"launch", "console"}
    /\ upd.pc = "idle" /\ ~seen /\ seen' = TRUE
    /\ IF valid /\ store # NoRecord THEN Logged([store EXCEPT !.modes = FALSE])
                                    ELSE UNCHANGED <<store, kept>>
    /\ UNCHANGED <<flash, valid, main, upd, disk, cuts, fails, installed>>

PowerCut ==
    /\ main # "off" /\ main' = "off" /\ upd' = Idle
    /\ upd.pc # "idle" => cuts < MaxCuts
    /\ cuts' = IF upd.pc = "idle" THEN cuts ELSE cuts + 1
    /\ UNCHANGED <<flash, store, valid, kept, disk, seen, fails, installed>>

Boot == PowerOn \/ Detect \/ Timeout \/ Ready \/ Result \/ Launch \/ AppResult

Next == \/ Boot \/ Internal \/ Mounted \/ AppReboot
        \/ \E im \in Images : AppUpdate(im)
        \/ Swap \/ NoFirmware \/ PowerCut

Spec == Init /\ [][Next]_vars

\* The boot loader's timeouts expire and its calls return; disks, users,
\* power and failing calls do as they like.
FairSpec == Spec /\ WF_vars(Boot) /\ WF_vars(Internal)

-----------------------------------------------------------------------------
(* Properties.                                                             *)

Content == Versions \cup Parts \cup {Torn}
Updates == [pc : {"idle", "found", "check", "doing", "erase", "space", "entry",
                  "writing", "version", "result"},
            img : Images \cup {NoImage}, todo : Seq(Entries),
            rc : {"ok", "version", "upgrade"},
            was : (UNION {[Range(Backups(im)) -> Content] : im \in Images}) \cup {<<>>}]

\* The types; and there always is a record, or none, for the next boot to find.
TypeOK ==
    /\ flash \in [Parts -> Content]
    /\ store \in Record /\ valid \in BOOLEAN
    /\ kept \subseteq Record /\ kept # {}
    /\ main \in {"off", "detect", "wait", "hold", "launch", "wait2", "hold2",
                 "console", "running", "dead"}
    /\ upd \in Updates
    /\ disk \in Images \cup {NoImage} /\ seen \in BOOLEAN
    /\ cuts \in 0 .. MaxCuts /\ fails \in 0 .. MaxFails
    /\ installed \in Images \cup {NoImage}

\* The partitions of the firmware are written and of one version.
Whole == \A p, q \in Firm : flash[p] # Torn /\ flash[p] = flash[q]

\* Whenever the flash does not hold one whole firmware, the record any next
\* boot may find makes the boot loader look for an image: through the creation
\* of the record, the chip erase, the space check behind it, failed entries and
\* an image that replaces the persistent memory itself.
TornIsFlagged == ~Whole => \A s \in kept : Looks(s)

\* The store an image brings is of the image's version, as the build scripts
\* make it, which pass both generators the same one.
Labelled(im) == Brings(im) => im.shipped = im.version

\* An image that was installed is not installed again, nor one of its version:
\* after the reset the version is found, whichever of the two ways it was
\* recorded.  The exception is an image whose store has another version than its
\* header: it is installed whenever it is found.
NoSecondTime ==
    [][/\ upd.pc = "doing" /\ upd'.pc # "doing"
       /\ installed # NoImage /\ Labelled(installed)
       => installed.version # upd.img.version]_vars

\* Without the exception, which the code does not keep.
NeverAgain == [][upd.pc = "doing" /\ upd'.pc # "doing" => installed # upd.img]_vars

\* What an update that succeeds has moved is what the partition held when it
\* began: nothing of the image is written before all backups are done.
MovedKept ==
    upd.pc \in {"version", "result"} /\ upd.rc = "ok" =>
        \A e \in Range(Backups(upd.img)) : flash[e.to] = upd.was[e]

\* A boot ends: in the firmware, the console or a reset, or after a failed
\* update waiting for the disk to be plugged in again (upgrade.c says so).
Retry == main \in {"hold", "hold2"} /\ upd.pc = "idle" /\ upd.rc = "upgrade"
BootEnds ==
    (main = "detect") ~> (main \in {"off", "running", "console"} \/ Retry)

\* "version check fail, just launch from old firmware" (upgrade.c:523): a
\* refused image leaves a firmware that can be launched.
RefusedHasFirmware ==
    upd.pc = "result" /\ upd.rc = "version" => flash[FirmPart] # Torn

-----------------------------------------------------------------------------
(* What the first three of them need of the images; the code checks none.  *)

\* Every image brings the whole firmware.
WholeFirmware == \A im \in Images : Firm \subseteq {e.to : e \in Range(Upgrades(im))}

\* No flash call fails while an image with a persistent memory is installed:
\* its record says that nothing is under way, whatever went before.
StoreNotFaulty == \A im \in Images \cap Faulty : ~Brings(im)

\* An image that erases the chip, or is to ignore the version, brings a store.
StoreBrought ==
  \A im \in Images : im.ignore \/ im.erase => Brings(im)

\* No partition is written twice, what is to move is not erased, and nothing is
\* moved to a place that is itself to be moved.
MovesApart ==
  \A im \in Images :
     /\ \A i, j \in DOMAIN im.entries : i # j => im.entries[i].to # im.entries[j].to
     /\ \A e, f \in Range(Backups(im)) : e.to # f.from
     /\ Range(Backups(im)) # {} => ~im.erase

=============================================================================
