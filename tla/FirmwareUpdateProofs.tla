------------------------ MODULE FirmwareUpdateProofs ------------------------
(* What survives an update, for any partitions and images and any number of  *)
(* power cuts and failing calls.                                             *)
EXTENDS FirmwareUpdate, SublistsProofs

USE PartsAssumption

\* The entries of an image in the order they are done in.
Plan(im) == Backups(im) \o Upgrades(im)

\* How many of them the loop is through with.
Done == Len(Plan(upd.img)) - Len(upd.todo)

InLoop == upd.pc \in {"entry", "writing"}

\* What the update has gone through: an image is at hand, and a record.
Stages ==
  /\ main = "off" => upd.pc = "idle"
  /\ upd.pc # "idle" => upd.img \in Images
  /\ upd.pc \in {"erase", "space", "entry", "writing", "version"} /\ valid => store # NoRecord
  /\ upd.pc \in {"found", "check", "doing", "erase", "space", "version"} => upd.rc = "ok"
  /\ InLoop => upd.rc = "ok" \/ upd.img \in Faulty
  /\ upd.pc = "erase" => upd.img.erase
  /\ upd.pc \in {"erase", "space", "entry", "writing", "version"} /\ upd.img.ignore => ~valid

\* What is left to do is the end of the plan.
Planned ==
  /\ InLoop => /\ Done \in Nat
               /\ \A i \in 1 .. Len(upd.todo) : upd.todo[i] = Plan(upd.img)[Done + i]
  /\ upd.pc = "writing" => upd.todo # <<>>

\* The partitions written so far hold the new version.
Upgraded ==
  InLoop /\ upd.rc = "ok" =>
     \A j \in 1 .. Done :
        LET e == Plan(upd.img)[j] IN
        /\ e.from = NoImage /\ e.to # Store
        /\ upd.pc = "writing" => e.to # Head(upd.todo).to
        => flash[e.to] = upd.img.version

Course == TypeOK /\ Stages /\ Planned /\ Upgraded

-----------------------------------------------------------------------------
(* The inductive invariants of the three properties.                       *)

\* A record that stays a reason to look for an image when the modes are cleared.
Flagged(s) == s = NoRecord \/ s.version = 0 \/ s.doing
Safe == /\ \A s \in kept : Flagged(s)
        /\ valid => Flagged(store)

\* The persistent memory of the image is being written, all else is.
AllButStore ==
  /\ upd.rc = "ok" /\ ~valid /\ Whole /\ upd.img.ignore
  /\ \A i \in 1 .. Len(upd.todo) : upd.todo[i].to = Store
  /\ upd.pc = "entry" => upd.todo = <<>>

Doubted ==
  /\ valid => kept \subseteq {store, NoRecord}
  /\ ~Whole => Safe
  /\ upd.pc \in {"erase", "space"} => Safe
  /\ InLoop => Safe \/ AllButStore
  /\ upd.pc = "version" => Whole
  /\ /\ ~valid /\ main # "off"
     /\ \/ upd.pc \in {"idle", "found", "check", "doing", "version"}
        \/ upd.pc = "result" /\ upd.rc # "ok"
     => Safe

\* The version of what was installed last is in the records.
Recorded ==
  /\ valid => kept = {store}
  /\ upd.pc \in {"erase", "space", "entry", "writing", "version"} => installed = NoImage
  /\ installed # NoImage /\ Labelled(installed) =>
        /\ \A s \in kept : s # NoRecord /\ s.version = installed.version
        /\ valid => store # NoRecord /\ store.version = installed.version
        /\ ~valid => main = "off" \/ (upd.pc = "result" /\ upd.rc = "ok")
  /\ upd.pc = "doing" => ~ (valid /\ store # NoRecord /\ store.version = upd.img.version)
  /\ upd.pc = "entry" /\ upd.rc = "ok" /\ upd.todo = <<>> /\ upd.img.ignore
        => kept = {Shipped(upd.img)}

\* What is to move is untouched until the loop, and has moved behind it.
Backed ==
  /\ upd.pc = "space" => \A e \in Range(Backups(upd.img)) : flash[e.from] = upd.was[e]
  /\ MovedKept

\* Where the data of a backup is while entry number n is being written.
Place(e, j, n) == IF j <= n THEN e.to ELSE e.from

\* While the entries are written, each backup is where the loop has brought it.
InPlace ==
  InLoop /\ upd.rc = "ok" =>
     \A j \in DOMAIN Plan(upd.img) :
        Plan(upd.img)[j].from # NoImage =>
           flash[Place(Plan(upd.img)[j], j, Done)] = upd.was[Plan(upd.img)[j]]

-----------------------------------------------------------------------------
(* The plan of an image.                                                   *)

\* The backups come first, the store last, and nothing is left out.
LEMMA PlanProperties ==
  ASSUME NEW im \in Images
  PROVE  /\ Plan(im) \in Seq(Entries) /\ Range(Plan(im)) = Range(im.entries)
         /\ \A e \in Range(im.entries) : e.to \in Parts \cup {Store} /\ e.from \in Parts \cup {NoImage}
         /\ \A k \in DOMAIN Plan(im) : /\ Plan(im)[k].to \in Parts \cup {Store}
                                       /\ Plan(im)[k].from \in Parts \cup {NoImage}
         /\ \A j, k \in DOMAIN Plan(im) :
               j < k /\ Plan(im)[j].from = NoImage => Plan(im)[k].from = NoImage
         /\ \A k \in DOMAIN Plan(im) :
               Plan(im)[k].to = Store => /\ k = Len(Plan(im)) /\ im.ignore
                                         /\ Plan(im)[k].from = NoImage
  <1> DEFINE s == im.entries
             M == {e \in Range(s) : e.from # NoImage}
             U == {e \in Range(s) : e.from = NoImage}
             b == Backups(im)
             u == Upgrades(im)
             p == Plan(im)
  <1>1. s \in Seq([to : Parts \cup {Store}, from : Parts \cup {NoImage}])
    BY ImagesAssumption
  <1>2. s \in Seq(Range(s)) /\ Range(s) \subseteq Entries
        /\ \A e \in Range(s) : e.to \in Parts \cup {Store} /\ e.from \in Parts \cup {NoImage}
    <2>1. \A k \in DOMAIN s : s[k] \in [to : Parts \cup {Store}, from : Parts \cup {NoImage}]
      <3> DEFINE T == [to : Parts \cup {Store}, from : Parts \cup {NoImage}]
      <3>1. s \in Seq(T)
        BY <1>1
      <3> HIDE DEF s, T
      <3>2. \A k \in DOMAIN s : s[k] \in T
        BY <3>1
      <3> QED BY <3>2 DEF T
    <2>2. s \in Seq(Range(s))
      <3> HIDE DEF s
      <3> QED BY <1>1 DEF Range
    <2>3. Range(s) \subseteq Entries
      BY DEF Entries
    <2> QED BY <2>1, <2>2, <2>3 DEF Range
  <1>3. /\ b \in Seq(Range(s)) /\ Range(b) = M
        /\ u \in Seq(Range(s)) /\ Range(u) = U
    <2>1. b = Keep(s, M) /\ u = Keep(s, U)
      BY DEF Backups, Upgrades
    <2>2. /\ Keep(s, M) \in Seq(Range(s)) /\ Range(Keep(s, M)) = Range(s) \cap M
          /\ Keep(s, U) \in Seq(Range(s)) /\ Range(Keep(s, U)) = Range(s) \cap U
      BY <1>2, KeepProperties
    <2> QED BY <2>1, <2>2
  <1>4. p \in Seq(Range(s)) /\ Range(p) = M \cup U
    BY <1>3, ConcatRange DEF Plan
  <1>5. \A k \in DOMAIN p : p[k] \in Range(s)
    BY <1>4
  <1>6. p \in Seq(Entries) /\ Range(p) = Range(s)
    <2>1. M \cup U = Range(s)
      OBVIOUS
    <2> HIDE DEF p, M, U, s
    <2> QED BY <1>2, <1>4, <2>1, SeqMonotonic
  <1>7. /\ DOMAIN p = 1 .. Len(b) + Len(u) /\ Len(p) = Len(b) + Len(u)
        /\ Len(b) \in Nat /\ Len(u) \in Nat
        /\ \A k \in 1 .. Len(b) : p[k] = b[k]
        /\ \A k \in 1 .. Len(b) + Len(u) : k > Len(b) => p[k] = u[k - Len(b)]
    <2> HIDE DEF b, u
    <2> QED BY <1>3 DEF Plan, b, u
  <1>8. /\ \A k \in 1 .. Len(b) : b[k].from # NoImage
        /\ \A k \in 1 .. Len(u) : u[k].from = NoImage
    <2>1. /\ \A k \in 1 .. Len(b) : b[k] \in M
          /\ \A k \in 1 .. Len(u) : u[k] \in U
      <3> HIDE DEF b, u, M, U
      <3> QED BY <1>3 DEF Range
    <2> QED BY <2>1
  <1> HIDE DEF b, u, p
  <1>9. \A j, k \in DOMAIN p : j < k /\ p[j].from = NoImage => p[k].from = NoImage
    BY <1>7, <1>8
  <1>10. ASSUME NEW k \in DOMAIN p, p[k].to = Store
         PROVE  k = Len(p) /\ im.ignore /\ p[k].from = NoImage
    <2>1. PICK i \in DOMAIN s : s[i] = p[k]
      <3> HIDE DEF s
      <3> QED BY <1>5 DEF Range
    <2>2. im.ignore /\ p[k].from = NoImage
      BY <1>10, <2>1, ImagesAssumption
    <2> HIDE DEF M, U
    <2>3. k > Len(b) /\ k - Len(b) \in 1 .. Len(u) /\ p[k] = u[k - Len(b)]
      BY <1>7, <1>8, <2>2
    <2>4. ASSUME k # Len(p) PROVE FALSE
      <3> DEFINE a == k - Len(b)
      <3>1. a \in DOMAIN u /\ a + 1 \in DOMAIN u /\ a < a + 1
        BY <1>3, <1>7, <2>3, <2>4
      <3>2. PICK m, n \in DOMAIN s : m < n /\ s[m] = u[a]
        <4>1. u = Keep(s, U)
          BY DEF Upgrades, U, u
        <4> HIDE DEF U, s, a
        <4> QED BY <1>2, <3>1, <4>1, KeepOrder
      <3>3. s[m].to = Store
        BY <1>10, <2>3, <3>2
      <3>4. m = Len(s)
        BY <3>3, ImagesAssumption
      <3> QED BY <1>1, <3>2, <3>4
    <2> QED BY <2>2, <2>4
  <1> QED BY <1>2, <1>5, <1>6, <1>9, <1>10 DEF p

\* What is to be moved is one of the entries, and comes from a partition.
LEMMA BackupsOf ==
  ASSUME NEW im \in Images
  PROVE  /\ Range(Backups(im)) = {e \in Range(im.entries) : e.from # NoImage}
         /\ Range(Upgrades(im)) = {e \in Range(im.entries) : e.from = NoImage}
  <1> DEFINE s == im.entries
             M == {e \in Range(s) : e.from # NoImage}
             U == {e \in Range(s) : e.from = NoImage}
  <1>1. s \in Seq([to : Parts \cup {Store}, from : Parts \cup {NoImage}])
    BY ImagesAssumption
  <1>2. Backups(im) = Keep(s, M) /\ Upgrades(im) = Keep(s, U)
    BY DEF Backups, Upgrades
  <1>3. M \subseteq Range(s) /\ U \subseteq Range(s)
    OBVIOUS
  <1> HIDE DEF s, M, U
  <1>4. Range(Keep(s, M)) = Range(s) \cap M /\ Range(Keep(s, U)) = Range(s) \cap U
    BY <1>1, KeepProperties
  <1> QED BY <1>2, <1>3, <1>4 DEF s, M, U

-----------------------------------------------------------------------------
(* Types.                                                                  *)

Rec == [doing : BOOLEAN, version : Versions, modes : BOOLEAN]

\* What the node calls write into the record.
LEMMA RecordFields ==
  ASSUME NEW s \in Rec
  PROVE  /\ \A b \in BOOLEAN :
               /\ [s EXCEPT !.doing = b] = [doing |-> b, version |-> s.version, modes |-> s.modes]
               /\ [s EXCEPT !.modes = b] = [doing |-> s.doing, version |-> s.version, modes |-> b]
               /\ [s EXCEPT !.doing = b] \in Rec /\ [s EXCEPT !.modes = b] \in Rec
         /\ \A v \in Versions :
               /\ [s EXCEPT !.version = v] = [doing |-> s.doing, version |-> v, modes |-> s.modes]
               /\ [s EXCEPT !.version = v] \in Rec
  BY DEF Rec

\* The record or nothing; the image's version is one of Versions.
LEMMA RecordTypes ==
  /\ Record = Rec \cup {NoRecord} /\ NoRecord \notin Rec /\ Zeroed \in Rec
  /\ \A im \in Images : Shipped(im) \in Rec /\ im.version \in Versions /\ im.version \in Nat \ {0}
  <1>1. \A im \in Images : im.version \in Nat \ {0}
    BY ImagesAssumption
  <1>2. \A im \in Images : im.version \in Versions
    BY <1>1, Zenon DEF Versions
  <1>3. Versions \subseteq Nat
    <2>1. \A im \in Images : im.shipped \in Nat
      BY ImagesAssumption
    <2> QED BY <1>1, <2>1 DEF Versions
  <1>6. \A im \in Images : im.shipped \in Versions
    BY DEF Versions
  <1>4. NoRecord \notin Rec
    BY <1>3, RecordAssumption DEF Rec
  <1>5. 0 \in Versions
    BY DEF Versions
  <1> QED BY <1>1, <1>2, <1>4, <1>5, <1>6 DEF Rec, Record, Zeroed, Shipped

\* An assignment to fields of upd.
LEMMA UpdFields ==
  ASSUME upd \in Updates, NEW p, NEW x, NEW y
  PROVE  /\ [upd EXCEPT !.pc = p] =
               [pc |-> p, img |-> upd.img, todo |-> upd.todo, rc |-> upd.rc, was |-> upd.was]
         /\ [upd EXCEPT !.pc = p, !.rc = x] =
               [pc |-> p, img |-> upd.img, todo |-> upd.todo, rc |-> x, was |-> upd.was]
         /\ [upd EXCEPT !.pc = p, !.was = x] =
               [pc |-> p, img |-> upd.img, todo |-> upd.todo, rc |-> upd.rc, was |-> x]
         /\ [upd EXCEPT !.pc = p, !.todo = x] =
               [pc |-> p, img |-> upd.img, todo |-> x, rc |-> upd.rc, was |-> upd.was]
         /\ [upd EXCEPT !.pc = p, !.todo = x, !.rc = y] =
               [pc |-> p, img |-> upd.img, todo |-> x, rc |-> y, was |-> upd.was]
         /\ [Idle EXCEPT !.rc = x] =
               [pc |-> "idle", img |-> NoImage, todo |-> <<>>, rc |-> x, was |-> <<>>]
         /\ [Idle EXCEPT !.pc = p, !.img = x] =
               [pc |-> p, img |-> x, todo |-> <<>>, rc |-> "ok", was |-> <<>>]
  <1> DEFINE one == [upd EXCEPT !.pc = p]
             two == [upd EXCEPT !.pc = p, !.todo = x]
             zero == [Idle EXCEPT !.pc = p]
  <1>1. one = [pc |-> p, img |-> upd.img, todo |-> upd.todo, rc |-> upd.rc, was |-> upd.was]
    BY DEF Updates
  <1>2. /\ [upd EXCEPT !.pc = p, !.rc = x] = [one EXCEPT !.rc = x]
        /\ [upd EXCEPT !.pc = p, !.was = x] = [one EXCEPT !.was = x]
        /\ two = [one EXCEPT !.todo = x]
        /\ [upd EXCEPT !.pc = p, !.todo = x, !.rc = y] = [two EXCEPT !.rc = y]
    BY DEF Updates
  <1>3. two = [pc |-> p, img |-> upd.img, todo |-> x, rc |-> upd.rc, was |-> upd.was]
    <2> HIDE DEF one, two
    <2> QED BY <1>1, <1>2
  <1>4. zero = [pc |-> p, img |-> NoImage, todo |-> <<>>, rc |-> "ok", was |-> <<>>]
        /\ [Idle EXCEPT !.pc = p, !.img = x] = [zero EXCEPT !.img = x]
    BY DEF Idle
  <1>5. [Idle EXCEPT !.rc = x] =
               [pc |-> "idle", img |-> NoImage, todo |-> <<>>, rc |-> x, was |-> <<>>]
    BY DEF Idle
  <1>6. [zero EXCEPT !.img = x] =
               [pc |-> p, img |-> x, todo |-> <<>>, rc |-> "ok", was |-> <<>>]
    <2> HIDE DEF zero
    <2> QED BY <1>4
  <1> HIDE DEF one, two, zero
  <1>7. [upd EXCEPT !.pc = p, !.rc = x] =
               [pc |-> p, img |-> upd.img, todo |-> upd.todo, rc |-> x, was |-> upd.was]
    BY <1>1, <1>2
  <1>8. [upd EXCEPT !.pc = p, !.was = x] =
               [pc |-> p, img |-> upd.img, todo |-> upd.todo, rc |-> upd.rc, was |-> x]
    BY <1>1, <1>2
  <1>9. [upd EXCEPT !.pc = p, !.todo = x, !.rc = y] =
               [pc |-> p, img |-> upd.img, todo |-> x, rc |-> y, was |-> upd.was]
    <2>1. [upd EXCEPT !.pc = p, !.todo = x, !.rc = y] = [two EXCEPT !.rc = y]
      BY <1>2
    <2>2. [two EXCEPT !.rc = y] =
               [pc |-> p, img |-> upd.img, todo |-> x, rc |-> y, was |-> upd.was]
      BY <1>3
    <2> QED BY <2>1, <2>2, Zenon
  <1>10. [Idle EXCEPT !.pc = p, !.img = x] =
               [pc |-> p, img |-> x, todo |-> <<>>, rc |-> "ok", was |-> <<>>]
    BY <1>4, <1>6
  <1> USE DEF one, two
  <1> QED BY ONLY <1>1, <1>3, <1>5, <1>7, <1>8, <1>9, <1>10, Zenon

\* The update goes on with the same image; it starts with another; it ends.
Goes(p, t, r, w) == upd' = [pc |-> p, img |-> upd.img, todo |-> t, rc |-> r, was |-> w]
Starts(p, im) == upd' = [pc |-> p, img |-> im, todo |-> <<>>, rc |-> "ok", was |-> <<>>]
Ends == \E r \in {"ok", "version", "upgrade"} :
           upd' = [pc |-> "idle", img |-> NoImage, todo |-> <<>>, rc |-> r, was |-> <<>>]

\* Where each step leaves the update.
LEMMA UpdSteps ==
  ASSUME upd \in Updates
  PROVE  /\ Mounted => Starts("found", disk)
         /\ \A im \in Images : AppUpdate(im) => Starts("check", im)
         /\ Ready => Goes("check", upd.todo, upd.rc, upd.was)
         /\ Check => \/ Goes("doing", upd.todo, upd.rc, upd.was)
                     \/ \E r \in {"version", "upgrade"} : Goes("result", upd.todo, r, upd.was)
         /\ SetDoing => \/ UNCHANGED upd
                        \/ Goes(IF upd.img.erase THEN "erase" ELSE "space", upd.todo, upd.rc,
                                [e \in Range(Backups(upd.img)) |-> flash[e.from]])
         /\ EraseChip => UNCHANGED upd \/ Goes("space", upd.todo, upd.rc, upd.was)
         /\ CheckBlockSpace => \/ Goes("entry", Plan(upd.img), upd.rc, upd.was)
                               \/ Goes("result", upd.todo, "upgrade", upd.was)
         /\ BeginEntry => Goes("writing", upd.todo, upd.rc, upd.was)
         /\ EndEntry => Goes("entry", Tail(upd.todo), upd.rc, upd.was)
         /\ FailEntry => Goes("entry", Tail(upd.todo), "upgrade", upd.was)
         /\ ClearDoing => Goes(IF upd.rc = "ok" /\ ~upd.img.ignore THEN "version" ELSE "result",
                               upd.todo, upd.rc, upd.was)
         /\ SetVersion => Goes("result", upd.todo, upd.rc, upd.was)
         /\ Result \/ AppResult \/ PowerCut => Ends
         /\ Launch => UNCHANGED upd \/ Ends
         /\ PowerOn \/ Detect \/ Timeout \/ AppReboot \/ Swap \/ NoFirmware \/ UNCHANGED vars
               => UNCHANGED upd
  <1> USE DEF Goes
  <1>1. upd.rc \in {"ok", "version", "upgrade"}
    BY DEF Updates
  <1>2. ASSUME NEW p, upd' = [upd EXCEPT !.pc = p]
        PROVE  Goes(p, upd.todo, upd.rc, upd.was)
    BY <1>2, UpdFields, Zenon
  <1>3. ASSUME NEW p, NEW r, upd' = [upd EXCEPT !.pc = p, !.rc = r]
        PROVE  Goes(p, upd.todo, r, upd.was)
    BY <1>3, UpdFields, Zenon
  <1>4. ASSUME NEW r \in {"ok", "version", "upgrade"}, upd' = [Idle EXCEPT !.rc = r] PROVE Ends
    BY <1>4, UpdFields, Zenon DEF Ends
  <1>5. upd' = Idle => Ends
    BY DEF Ends, Idle
  <1>6. ASSUME NEW p, NEW im, upd' = [Idle EXCEPT !.pc = p, !.img = im] PROVE Starts(p, im)
    BY <1>6, UpdFields, ZenonT(60) DEF Starts
  <1> HIDE DEF Goes
  <1>7. Mounted => Starts("found", disk)
    BY <1>6 DEF Mounted
  <1>8. \A im \in Images : AppUpdate(im) => Starts("check", im)
    BY <1>6 DEF AppUpdate
  <1>9. Ready => Goes("check", upd.todo, upd.rc, upd.was)
    BY <1>2 DEF Ready
  <1>10. Check => \/ Goes("doing", upd.todo, upd.rc, upd.was)
                  \/ \E r \in {"version", "upgrade"} : Goes("result", upd.todo, r, upd.was)
    BY <1>2, <1>3 DEF Check
  <1>11. ASSUME SetDoing
         PROVE  \/ UNCHANGED upd
                \/ Goes(IF upd.img.erase THEN "erase" ELSE "space", upd.todo, upd.rc,
                        [e \in Range(Backups(upd.img)) |-> flash[e.from]])
    <2> DEFINE p == IF upd.img.erase THEN "erase" ELSE "space"
               w == [e \in Range(Backups(upd.img)) |-> flash[e.from]]
    <2>1. UNCHANGED upd \/ upd' = [upd EXCEPT !.pc = p, !.was = w]
      BY <1>11 DEF SetDoing
    <2> HIDE DEF p, w
    <2>2. UNCHANGED upd \/ Goes(p, upd.todo, upd.rc, w)
      BY <2>1, UpdFields, Zenon DEF Goes
    <2> QED BY <2>2 DEF p, w
  <1>12. EraseChip => UNCHANGED upd \/ Goes("space", upd.todo, upd.rc, upd.was)
    BY <1>2 DEF EraseChip
  <1>13. ASSUME CheckBlockSpace
         PROVE  \/ Goes("entry", Plan(upd.img), upd.rc, upd.was)
                \/ Goes("result", upd.todo, "upgrade", upd.was)
    <2>1. \/ upd' = [upd EXCEPT !.pc = "entry", !.todo = Plan(upd.img)]
          \/ upd' = [upd EXCEPT !.pc = "result", !.rc = "upgrade"]
      BY <1>13 DEF CheckBlockSpace, Plan
    <2> QED BY <1>3, <2>1, UpdFields, ZenonT(60) DEF Goes
  <1>14. BeginEntry => Goes("writing", upd.todo, upd.rc, upd.was)
    BY <1>2 DEF BeginEntry
  <1>15. EndEntry => Goes("entry", Tail(upd.todo), upd.rc, upd.was)
    <2>1. EndEntry => upd' = [upd EXCEPT !.pc = "entry", !.todo = Tail(upd.todo)]
      BY DEF EndEntry
    <2> QED BY <2>1, UpdFields, Zenon DEF Goes
  <1>16. FailEntry => Goes("entry", Tail(upd.todo), "upgrade", upd.was)
    <2>1. FailEntry => upd' = [upd EXCEPT !.pc = "entry", !.todo = Tail(upd.todo), !.rc = "upgrade"]
      BY DEF FailEntry
    <2> QED BY <2>1, UpdFields, ZenonT(60) DEF Goes
  <1>17. ClearDoing => Goes(IF upd.rc = "ok" /\ ~upd.img.ignore THEN "version" ELSE "result",
                            upd.todo, upd.rc, upd.was)
    BY <1>2 DEF ClearDoing
  <1>18. SetVersion => Goes("result", upd.todo, upd.rc, upd.was)
    BY <1>2 DEF SetVersion
  <1>19. Result \/ AppResult \/ PowerCut => Ends
    BY <1>1, <1>4, <1>5 DEF Result, AppResult, PowerCut
  <1>20. Launch => UNCHANGED upd \/ Ends
    BY <1>5 DEF Launch
  <1>21. PowerOn \/ Detect \/ Timeout \/ AppReboot \/ Swap \/ NoFirmware \/ UNCHANGED vars
            => UNCHANGED upd
    BY DEF PowerOn, Detect, Timeout, AppReboot, Swap, NoFirmware, vars
  <1> QED BY <1>7, <1>8, <1>9, <1>10, <1>11, <1>12, <1>13, <1>14, <1>15, <1>16, <1>17, <1>18,
             <1>19, <1>20, <1>21, Zenon

\* The step of a field that has a value of the field's type.
LEMMA UpdTypes ==
  ASSUME upd \in Updates
  PROVE  /\ \A p \in {"check", "doing", "erase", "space", "entry", "writing", "version", "result"},
               t \in Seq(Entries), r \in {"ok", "version", "upgrade"} :
               Goes(p, t, r, upd.was) => upd' \in Updates
         /\ \A p \in {"found", "check"}, im \in Images : Starts(p, im) => upd' \in Updates
         /\ Ends => upd' \in Updates
  <1>1. /\ upd.img \in Images \cup {NoImage}
        /\ upd.was \in (UNION {[Range(Backups(im)) -> Content] : im \in Images}) \cup {<<>>}
    BY DEF Updates
  <1>2. <<>> \in Seq(Entries)
    OBVIOUS
  <1>3. <<>> \in (UNION {[Range(Backups(im)) -> Content] : im \in Images}) \cup {<<>>}
    OBVIOUS
  <1> DEFINE W == (UNION {[Range(Backups(im)) -> Content] : im \in Images}) \cup {<<>>}
  <1> HIDE DEF W
  <1>4. \A p \in {"check", "doing", "erase", "space", "entry", "writing", "version", "result"},
           t \in Seq(Entries), r \in {"ok", "version", "upgrade"} :
           Goes(p, t, r, upd.was) => upd' \in Updates
    BY <1>1 DEF Goes, Updates, W
  <1>5. \A p \in {"found", "check"}, im \in Images : Starts(p, im) => upd' \in Updates
    BY <1>2, <1>3 DEF Starts, Updates
  <1>6. Ends => upd' \in Updates
    BY <1>2, <1>3 DEF Ends, Updates
  <1> QED BY <1>4, <1>5, <1>6

\* The next entry is the one of the plan, and writes a partition or the store.
LEMMA HeadOf ==
  ASSUME upd \in Updates, Stages, Planned, InLoop, upd.todo # <<>>
  PROVE  /\ Len(upd.todo) \in Nat \ {0} /\ Done + 1 \in DOMAIN Plan(upd.img)
         /\ Head(upd.todo) = Plan(upd.img)[Done + 1]
         /\ Len(upd.todo) = 1 <=> Done + 1 = Len(Plan(upd.img))
         /\ Head(upd.todo).to # Store => Head(upd.todo).to \in Parts
         /\ Head(upd.todo).from # NoImage => Head(upd.todo).from \in Parts
  <1> DEFINE p == Plan(upd.img)
  <1>1. upd.img \in Images /\ upd.todo \in Seq(Entries)
    BY DEF Stages, InLoop, Updates
  <1>2. /\ p \in Seq(Entries)
        /\ \A k \in DOMAIN p : p[k].to \in Parts \cup {Store} /\ p[k].from \in Parts \cup {NoImage}
    BY <1>1, PlanProperties
  <1>3. Len(upd.todo) \in Nat \ {0} /\ Head(upd.todo) = upd.todo[1]
    BY <1>1
  <1>4. Done \in Nat /\ upd.todo[1] = p[Done + 1]
    <2>1. \A i \in 1 .. Len(upd.todo) : upd.todo[i] = p[Done + i]
      BY DEF Planned
    <2>2. 1 \in 1 .. Len(upd.todo)
      BY <1>3
    <2>3. Done \in Nat
      BY DEF Planned
    <2> HIDE DEF p
    <2> QED BY <2>1, <2>2, <2>3
  <1>6. Done = Len(p) - Len(upd.todo)
    BY DEF Done
  <1> HIDE DEF p
  <1>5. Done + 1 \in DOMAIN p /\ (Len(upd.todo) = 1 <=> Done + 1 = Len(p))
    <2>1. Len(p) \in Nat /\ DOMAIN p = 1 .. Len(p)
      BY <1>2
    <2> DEFINE n == Len(p)
               m == Len(upd.todo)
    <2>2. Done = n - m /\ Done \in Nat /\ m \in Nat \ {0} /\ n \in Nat
      BY <1>3, <1>4, <1>6, <2>1
    <2> HIDE DEF n, m, Done
    <2>3. Done + 1 \in 1 .. n /\ (m = 1 <=> Done + 1 = n)
      BY <2>2
    <2> QED BY <2>1, <2>3 DEF n, m
  <1> QED BY <1>2, <1>3, <1>4, <1>5 DEF p

\* The entries that are through are of the plan, and before the next one.
LEMMA DoneIn ==
  ASSUME upd \in Updates, Stages, Planned, InLoop, NEW j \in 1 .. Done
  PROVE  /\ upd.img \in Images /\ j \in DOMAIN Plan(upd.img) /\ Done <= Len(Plan(upd.img))
         /\ Plan(upd.img)[j].to # Store => Plan(upd.img)[j].to \in Parts
         /\ Plan(upd.img)[j].from # NoImage => Plan(upd.img)[j].from \in Parts
         /\ upd.todo # <<>> /\ Plan(upd.img)[j].from = NoImage => Head(upd.todo).from = NoImage
  <1> DEFINE p == Plan(upd.img)
             m == Len(upd.todo)
             n == Len(p)
  <1>1. upd.img \in Images /\ m \in Nat
    BY DEF Stages, InLoop, Updates
  <1>2. /\ p \in Seq(Entries)
        /\ \A k \in DOMAIN p : p[k].to \in Parts \cup {Store} /\ p[k].from \in Parts \cup {NoImage}
        /\ \A h, k \in DOMAIN p : h < k /\ p[h].from = NoImage => p[k].from = NoImage
    BY <1>1, PlanProperties
  <1>3. n \in Nat /\ DOMAIN p = 1 .. n
    BY <1>2
  <1>4. Done \in Nat /\ Done = n - m
    <2>1. Done = n - m
      BY DEF Done
    <2> QED BY <2>1 DEF Planned
  <1> HIDE DEF p, m, n, Done
  <1>5. j \in DOMAIN p /\ Done <= n
    BY <1>1, <1>3, <1>4
  <1>6. ASSUME upd.todo # <<>>, p[j].from = NoImage PROVE Head(upd.todo).from = NoImage
    <2>1. Head(upd.todo) = p[Done + 1] /\ Done + 1 \in DOMAIN p
      BY <1>6, HeadOf DEF p
    <2>2. j < Done + 1
      BY <1>4
    <2> QED BY <1>2, <1>5, <1>6, <2>1, <2>2
  <1> QED BY <1>1, <1>2, <1>5, <1>6 DEF p, n

\* The record after a node call.
LEMMA LoggedTypes ==
  ASSUME TypeOK, NEW s \in Record, Logged(s)
  PROVE  store' \in Record /\ kept' \subseteq Record /\ kept' # {}
  BY DEF TypeOK, Logged

\* The types are preserved.
LEMMA NextTypes == TypeOK /\ Stages /\ Planned /\ [Next]_vars => TypeOK'
  <1> SUFFICES ASSUME TypeOK, Stages, Planned, [Next]_vars PROVE TypeOK'
    OBVIOUS
  <1>0. upd \in Updates /\ upd.todo \in Seq(Entries) /\ upd.rc \in {"ok", "version", "upgrade"}
    BY DEF TypeOK, Updates
  <1>1. \A s \in Rec : /\ \A b \in BOOLEAN : [s EXCEPT !.doing = b] \in Rec
                                             /\ [s EXCEPT !.modes = b] \in Rec
                       /\ \A v \in Versions : [s EXCEPT !.version = v] \in Rec
    BY RecordFields
  <1>2. /\ Record = Rec \cup {NoRecord} /\ Zeroed \in Record /\ 0 \in Versions
        /\ \A im \in Images : Shipped(im) \in Record /\ im.version \in Versions
    BY RecordTypes DEF Versions
  <1>3. /\ \A s \in Record \ {NoRecord} :
               /\ \A b \in BOOLEAN : [s EXCEPT !.doing = b] \in Record
                                     /\ [s EXCEPT !.modes = b] \in Record
               /\ \A v \in Versions : [s EXCEPT !.version = v] \in Record
    BY <1>1, <1>2
  <1> DEFINE Mem == store' \in Record /\ kept' \subseteq Record /\ kept' # {} /\ valid' \in BOOLEAN
             Count == cuts' \in 0 .. MaxCuts /\ fails' \in 0 .. MaxFails /\ installed' \in Images \cup {NoImage}
             Outer == /\ main' \in {"off", "detect", "wait", "hold", "launch", "wait2", "hold2",
                                    "console", "running", "dead"}
                      /\ disk' \in Images \cup {NoImage} /\ seen' \in BOOLEAN
  <1>4. ASSUME flash' \in [Parts -> Content], Mem, Count, Outer, upd' \in Updates PROVE TypeOK'
    BY <1>4 DEF TypeOK
  <1>5. ASSUME UNCHANGED upd PROVE upd' \in Updates
    BY <1>0, <1>5
  <1>6. Ends => upd' \in Updates
    BY <1>0, UpdTypes
  <1>7. ASSUME NEW p \in {"check", "doing", "erase", "space", "entry", "writing", "version", "result"},
               NEW t \in Seq(Entries), NEW r \in {"ok", "version", "upgrade"},
               Goes(p, t, r, upd.was)
        PROVE  upd' \in Updates
    BY <1>0, <1>7, UpdTypes
  <1>8. CASE PowerOn
    <2>1. upd' \in Updates
      BY <1>0, <1>5, <1>8, UpdSteps
    <2> QED BY <1>8, <2>1 DEF PowerOn, TypeOK
  <1>9. CASE Detect \/ Timeout \/ Swap
    <2>1. upd' \in Updates
      BY <1>0, <1>5, <1>9, UpdSteps
    <2> QED BY <1>9, <2>1 DEF Detect, Timeout, Swap, After, TypeOK
  <1>10. CASE Ready
    <2>1. upd' \in Updates
      BY <1>0, <1>7, <1>10, UpdSteps
    <2> QED BY <1>10, <2>1 DEF Ready, TypeOK
  <1>11. CASE Result \/ AppResult
    <2>1. upd' \in Updates
      BY <1>0, <1>6, <1>11, UpdSteps
    <2>2. CASE AppResult
      BY <2>1, <2>2 DEF AppResult, TypeOK
    <2>3. CASE Result
      <3>1. Mem
        BY <1>3, <2>3, LoggedTypes DEF Result, TypeOK
      <3>2. Outer
        BY <2>3 DEF Result, After, TypeOK
      <3> QED BY <2>1, <2>3, <3>1, <3>2 DEF Result, TypeOK
    <2> QED BY <1>11, <2>2, <2>3
  <1>12. CASE Launch
    <2>1. upd' \in Updates
      BY <1>0, <1>5, <1>6, <1>12, UpdSteps
    <2>2. Mem
      <3>1. CASE store' \in kept /\ kept' = {store'} /\ valid' = TRUE
        BY <3>1 DEF TypeOK
      <3>2. CASE UNCHANGED <<store, kept, valid>>
        BY <3>2 DEF TypeOK
      <3> QED BY <1>12, <3>1, <3>2 DEF Launch
    <2> QED BY <1>12, <2>1, <2>2 DEF Launch, TypeOK
  <1>13. CASE AppReboot \/ NoFirmware
    <2>1. upd' \in Updates
      BY <1>0, <1>5, <1>13, UpdSteps
    <2>2. Mem
      BY <1>2, <1>3, <1>13, LoggedTypes DEF AppReboot, NoFirmware, TypeOK
    <2> QED BY <1>13, <2>1, <2>2 DEF AppReboot, NoFirmware, TypeOK
  <1>14. CASE Mounted \/ \E im \in Images : AppUpdate(im)
    <2>1. upd' \in Updates
      <3>1. CASE Mounted
        <4>1. disk \in Images
          BY <3>1 DEF Mounted, TypeOK
        <4> QED BY <1>0, <3>1, <4>1, UpdSteps, UpdTypes
      <3>2. CASE \E im \in Images : AppUpdate(im)
        BY <1>0, <3>2, UpdSteps, UpdTypes
      <3> QED BY <1>14, <3>1, <3>2
    <2> QED BY <1>14, <2>1 DEF Mounted, AppUpdate, TypeOK
  <1>15. CASE PowerCut
    <2>1. upd' \in Updates
      BY <1>0, <1>6, <1>15, UpdSteps
    <2>2. Count
      BY <1>15, BoundsAssumption DEF PowerCut, TypeOK
    <2> QED BY <1>15, <2>1, <2>2 DEF PowerCut, TypeOK
  <1>16. CASE Check
    <2>1. upd' \in Updates
      BY <1>0, <1>7, <1>16, UpdSteps
    <2>2. Count
      BY <1>16, BoundsAssumption DEF Check, TypeOK
    <2> QED BY <1>16, <2>1, <2>2 DEF Check, TypeOK
  <1>17. CASE SetDoing
    <2>1. upd' \in Updates
      <3>1. CASE UNCHANGED upd
        BY <1>5, <3>1
      <3>2. ASSUME Goes(IF upd.img.erase THEN "erase" ELSE "space", upd.todo, upd.rc,
                        [e \in Range(Backups(upd.img)) |-> flash[e.from]])
            PROVE  upd' \in Updates
        <4> DEFINE w == [e \in Range(Backups(upd.img)) |-> flash[e.from]]
        <4>1. upd.img \in Images
          BY <1>17 DEF SetDoing, Stages
        <4>2. \A e \in Range(Backups(upd.img)) : e.from \in Parts
          <5>1. Range(Backups(upd.img)) \subseteq Range(upd.img.entries)
                /\ \A e \in Range(Backups(upd.img)) : e.from # NoImage
            BY <4>1, BackupsOf
          <5>2. \A e \in Range(upd.img.entries) : e.from \in Parts \cup {NoImage}
            BY <4>1, PlanProperties
          <5> QED BY <5>1, <5>2
        <4>3. w \in [Range(Backups(upd.img)) -> Content]
          BY <4>2 DEF TypeOK
        <4>4. w \in (UNION {[Range(Backups(im)) -> Content] : im \in Images}) \cup {<<>>}
          BY <4>1, <4>3
        <4> HIDE DEF w
        <4> QED BY <1>0, <3>2, <4>1, <4>4 DEF Goes, Updates, w
      <3> QED BY <1>0, <1>17, <3>1, <3>2, UpdSteps
    <2>2. Mem
      BY <1>2, <1>3, <1>17, LoggedTypes DEF SetDoing, TypeOK
    <2> QED BY <1>2, <1>17, <2>1, <2>2 DEF SetDoing, TypeOK
  <1>18. CASE EraseChip
    <2>1. upd' \in Updates
      BY <1>0, <1>5, <1>7, <1>18, UpdSteps
    <2>2. flash' \in [Parts -> Content] /\ Mem
      BY <1>2, <1>18 DEF EraseChip, TypeOK, Content
    <2> QED BY <1>18, <2>1, <2>2 DEF EraseChip, TypeOK
  <1>19. CASE CheckBlockSpace
    <2>1. upd' \in Updates
      <3>1. Plan(upd.img) \in Seq(Entries)
        BY <1>19, PlanProperties DEF CheckBlockSpace, Stages
      <3> QED BY <1>0, <1>7, <1>19, <3>1, UpdSteps
    <2>2. Count
      BY <1>19, BoundsAssumption DEF CheckBlockSpace, TypeOK
    <2> QED BY <1>19, <2>1, <2>2 DEF CheckBlockSpace, TypeOK
  <1>20. CASE BeginEntry
    <2>1. upd' \in Updates
      BY <1>0, <1>7, <1>20, UpdSteps
    <2>2. flash' \in [Parts -> Content]
      BY <1>20 DEF BeginEntry, TypeOK, Content
    <2>3. Mem
      BY <1>2, <1>20 DEF BeginEntry, Stages, TypeOK
    <2> QED BY <1>20, <2>1, <2>2, <2>3 DEF BeginEntry, TypeOK
  <1>21. CASE EndEntry
    <2>1. Tail(upd.todo) \in Seq(Entries)
      BY <1>0, <1>21 DEF EndEntry, Planned
    <2>2. upd' \in Updates
      BY <1>0, <1>7, <1>21, <2>1, UpdSteps
    <2>3. upd.img \in Images
      BY <1>21 DEF EndEntry, Stages
    <2>4. flash' \in [Parts -> Content]
      <3> DEFINE e == Head(upd.todo)
      <3>1. e.to # Store => e.to \in Parts /\ (e.from = NoImage \/ e.from \in Parts)
        <4>1. upd.todo # <<>> /\ InLoop
          BY <1>21 DEF EndEntry, InLoop, Planned
        <4> QED BY <1>0, <4>1, HeadOf
      <3>2. upd.img.version \in Content
        BY <1>2, <2>3 DEF Content
      <3> QED BY <1>21, <3>1, <3>2 DEF EndEntry, TypeOK
    <2>5. Mem
      BY <1>2, <1>21, <2>3 DEF EndEntry, TypeOK
    <2> QED BY <1>21, <2>2, <2>4, <2>5 DEF EndEntry, TypeOK
  <1>22. CASE FailEntry
    <2>1. Tail(upd.todo) \in Seq(Entries)
      BY <1>0, <1>22 DEF FailEntry, Planned
    <2>2. upd' \in Updates
      BY <1>0, <1>7, <1>22, <2>1, UpdSteps
    <2>3. Count
      BY <1>22, BoundsAssumption DEF FailEntry, TypeOK
    <2> QED BY <1>22, <2>2, <2>3 DEF FailEntry, TypeOK
  <1>23. CASE ClearDoing
    <2>1. upd' \in Updates
      BY <1>0, <1>7, <1>23, UpdSteps
    <2>2. Mem
      BY <1>3, <1>23, LoggedTypes DEF ClearDoing, Stages, TypeOK
    <2>3. Count
      BY <1>2, <1>23 DEF ClearDoing, Stages, TypeOK
    <2> QED BY <1>23, <2>1, <2>2, <2>3 DEF ClearDoing, TypeOK
  <1>24. CASE SetVersion
    <2>1. upd' \in Updates
      BY <1>0, <1>7, <1>24, UpdSteps
    <2>2. upd.img.version \in Versions
      BY <1>2, <1>24 DEF SetVersion, Stages
    <2>3. Mem
      BY <1>3, <1>24, <2>2, LoggedTypes DEF SetVersion, Stages, TypeOK
    <2>4. Count
      BY <1>2, <1>24 DEF SetVersion, Stages, TypeOK
    <2> QED BY <1>24, <2>1, <2>3, <2>4 DEF SetVersion, TypeOK
  <1>25. CASE UNCHANGED vars
    BY <1>25 DEF vars, TypeOK
  <1> QED BY <1>8, <1>9, <1>10, <1>11, <1>12, <1>13, <1>14, <1>15, <1>16, <1>17, <1>18, <1>19,
             <1>20, <1>21, <1>22, <1>23, <1>24, <1>25 DEF Next, Boot, Internal

-----------------------------------------------------------------------------
(* The course of an update.                                                *)

\* The fields of upd after a step.
LEMMA MoveFields ==
  /\ \A p, t, r, w : Goes(p, t, r, w) => /\ upd'.pc = p /\ upd'.img = upd.img /\ upd'.todo = t
                                         /\ upd'.rc = r /\ upd'.was = w
  /\ \A p, im : Starts(p, im) => upd'.pc = p /\ upd'.img = im /\ upd'.rc = "ok"
  /\ Ends => upd'.pc = "idle"
  BY DEF Goes, Starts, Ends

\* The stages follow each other, with the image and the record at hand.
LEMMA NextStages == TypeOK /\ Stages /\ Planned /\ [Next]_vars => Stages'
  <1> SUFFICES ASSUME TypeOK, Stages, Planned, [Next]_vars PROVE Stages'
    OBVIOUS
  <1> USE DEF InLoop
  <1>1. upd \in Updates
    BY DEF TypeOK
  <1>2. NoRecord \notin Rec /\ Zeroed \in Rec /\ store \in Rec \cup {NoRecord}
    BY RecordTypes DEF TypeOK
  <1>3. /\ \A b \in BOOLEAN : store # NoRecord => /\ [store EXCEPT !.doing = b] # NoRecord
                                                  /\ [store EXCEPT !.modes = b] # NoRecord
        /\ \A v \in Versions : store # NoRecord => [store EXCEPT !.version = v] # NoRecord
    <2> SUFFICES ASSUME store \in Rec
                 PROVE  /\ \A b \in BOOLEAN : /\ [store EXCEPT !.doing = b] # NoRecord
                                              /\ [store EXCEPT !.modes = b] # NoRecord
                        /\ \A v \in Versions : [store EXCEPT !.version = v] # NoRecord
      BY <1>2
    <2>1. \A b \in BOOLEAN : [store EXCEPT !.doing = b] \in Rec /\ [store EXCEPT !.modes = b] \in Rec
      BY RecordFields
    <2>2. \A v \in Versions : [store EXCEPT !.version = v] \in Rec
      BY RecordFields
    <2> QED BY <1>2, <2>1, <2>2, Zenon
  <1>4. ASSUME UNCHANGED upd, upd.pc = "idle" PROVE Stages'
    BY <1>4 DEF Stages
  <1>5. CASE PowerOn \/ AppReboot \/ NoFirmware \/ Swap
    <2>1. UNCHANGED upd
      BY <1>1, <1>5, UpdSteps
    <2>2. upd.pc = "idle"
      BY <1>5 DEF Stages, PowerOn, AppReboot, NoFirmware, Swap
    <2> QED BY <1>4, <2>1, <2>2
  <1>6. CASE Detect \/ Timeout \/ UNCHANGED vars
    <2>1. UNCHANGED <<upd, store, valid>>
      BY <1>6 DEF Detect, Timeout, vars
    <2>2. main' = "off" => main = "off"
      BY <1>6 DEF Detect, Timeout, After, vars
    <2> QED BY <2>1, <2>2 DEF Stages
  <1>7. CASE Result \/ AppResult \/ PowerCut
    BY <1>1, <1>7, UpdSteps, MoveFields DEF Stages
  <1>8. CASE Launch
    <2>1. CASE Ends
      BY <2>1, MoveFields DEF Stages
    <2>2. CASE UNCHANGED upd
      <3>1. main' # "off"
        BY <1>8 DEF Launch
      <3>2. UNCHANGED <<store, valid>> \/ upd'.pc = "idle"
        BY <1>8 DEF Launch, Idle
      <3> QED BY <2>2, <3>1, <3>2 DEF Stages
    <2> QED BY <1>1, <1>8, <2>1, <2>2, UpdSteps
  <1>9. CASE Ready
    <2>1. Goes("check", upd.todo, upd.rc, upd.was)
      BY <1>1, <1>9, UpdSteps
    <2>2. main' # "off" /\ upd.pc = "found"
      BY <1>9 DEF Ready, Stages
    <2> QED BY <2>1, <2>2, MoveFields DEF Stages
  <1>10. CASE Mounted
    <2>1. Starts("found", disk) /\ disk \in Images /\ main' # "off"
      BY <1>1, <1>10, UpdSteps DEF Mounted, TypeOK
    <2> QED BY <2>1, MoveFields DEF Stages
  <1>11. CASE \E im \in Images : AppUpdate(im)
    <2>1. PICK im \in Images : AppUpdate(im)
      BY <1>11
    <2>2. Starts("check", im) /\ main' # "off"
      BY <1>1, <2>1, UpdSteps DEF AppUpdate
    <2> QED BY <2>2, MoveFields DEF Stages
  <1>12. CASE Check
    <2>1. upd.pc = "check" /\ main' = main
      BY <1>12 DEF Check
    <2> QED BY <1>1, <1>12, <2>1, UpdSteps, MoveFields DEF Stages
  <1>13. CASE SetDoing
    <2>1. upd.pc = "doing" /\ main' = main /\ upd.img \in Images
      BY <1>13 DEF SetDoing, Stages
    <2>2. CASE valid /\ store = NoRecord
      <3>1. UNCHANGED upd
        BY <1>13, <2>2 DEF SetDoing
      <3> QED BY <2>1, <3>1 DEF Stages
    <2>3. CASE ~(valid /\ store = NoRecord)
      <3>1. /\ valid' = (valid /\ ~upd.img.ignore)
            /\ valid => store' = [store EXCEPT !.doing = TRUE]
            /\ upd' = [upd EXCEPT !.pc = IF upd.img.erase THEN "erase" ELSE "space",
                                  !.was = [e \in Range(Backups(upd.img)) |-> flash[e.from]]]
        BY <1>13, <2>3 DEF SetDoing, Logged
      <3>2. valid' => store' # NoRecord
        BY <1>3, <2>3, <3>1 DEF TypeOK
      <3>3. Goes(IF upd.img.erase THEN "erase" ELSE "space", upd.todo, upd.rc,
                 [e \in Range(Backups(upd.img)) |-> flash[e.from]])
        BY <1>1, <3>1, UpdFields, Zenon DEF Goes
      <3>4. upd'.pc = (IF upd.img.erase THEN "erase" ELSE "space") /\ upd'.img = upd.img
            /\ upd'.rc = upd.rc
        BY <3>3, MoveFields
      <3>5. upd.rc = "ok" /\ main' # "off"
        BY <2>1 DEF Stages
      <3>6. valid' => valid /\ ~upd.img.ignore
        BY <3>1
      <3>7. CASE upd.img.erase
        BY <2>1, <3>2, <3>4, <3>5, <3>6, <3>7 DEF Stages
      <3>8. CASE ~upd.img.erase
        BY <2>1, <3>2, <3>4, <3>5, <3>6, <3>8 DEF Stages
      <3> QED BY <3>7, <3>8
    <2> QED BY <2>2, <2>3
  <1>14. CASE EraseChip
    <2>1. upd.pc = "erase" /\ UNCHANGED <<main, store, valid>>
      BY <1>14 DEF EraseChip
    <2> QED BY <1>1, <1>14, <2>1, UpdSteps, MoveFields DEF Stages
  <1>15. CASE CheckBlockSpace
    <2>1. upd.pc = "space" /\ UNCHANGED <<main, store, valid>>
      BY <1>15 DEF CheckBlockSpace
    <2> QED BY <1>1, <1>15, <2>1, UpdSteps, MoveFields DEF Stages
  <1>16. CASE BeginEntry \/ EndEntry
    <2>1. upd.pc \in {"entry", "writing"} /\ UNCHANGED <<main, store, valid>>
      BY <1>16 DEF BeginEntry, EndEntry
    <2> QED BY <1>1, <1>16, <2>1, UpdSteps, MoveFields DEF Stages
  <1>17. CASE FailEntry
    <2>1. upd.pc \in {"entry", "writing"} /\ UNCHANGED <<main, store, valid>> /\ upd.img \in Faulty
      BY <1>17 DEF FailEntry
    <2> QED BY <1>1, <1>17, <2>1, UpdSteps, MoveFields DEF Stages
  <1>18. CASE ClearDoing
    <2>1. upd.pc = "entry" /\ UNCHANGED <<main, valid>>
      BY <1>18 DEF ClearDoing
    <2>2. valid' => store' # NoRecord
      <3>1. valid => store # NoRecord
        BY <2>1 DEF Stages
      <3>2. valid => UNCHANGED store \/ store' = [store EXCEPT !.doing = FALSE]
        BY <1>18 DEF ClearDoing, Logged
      <3> QED BY <1>3, <2>1, <3>1, <3>2
    <2> QED BY <1>1, <1>18, <2>1, <2>2, UpdSteps, MoveFields DEF Stages
  <1>19. CASE SetVersion
    <2>1. upd.pc = "version" /\ UNCHANGED main
      BY <1>19 DEF SetVersion
    <2> QED BY <1>1, <1>19, <2>1, UpdSteps, MoveFields DEF Stages
  <1> QED BY <1>5, <1>6, <1>7, <1>8, <1>9, <1>10, <1>11, <1>12, <1>13, <1>14, <1>15, <1>16,
             <1>17, <1>18, <1>19 DEF Next, Boot, Internal

\* The steps that lead into the loop over the entries, or stay there.
LEMMA LoopSteps ==
  ASSUME TypeOK, Stages, Planned, [Next]_vars, InLoop'
  PROVE  \/ /\ CheckBlockSpace /\ upd.pc = "space" /\ UNCHANGED flash
            /\ Goes("entry", Plan(upd.img), upd.rc, upd.was)
         \/ BeginEntry \/ EndEntry \/ FailEntry
         \/ InLoop /\ UNCHANGED <<upd, flash>>
  <1> USE DEF InLoop
  <1>1. upd \in Updates
    BY DEF TypeOK
  <1>2. CASE UNCHANGED upd
    <2>1. upd.pc \in {"entry", "writing"}
      BY <1>2
    <2>2. ~SetDoing /\ ~EraseChip
      BY <2>1 DEF SetDoing, EraseChip
    <2>3. BeginEntry \/ EndEntry \/ FailEntry \/ UNCHANGED flash
      BY <2>2 DEF Next, Boot, Internal, PowerOn, Detect, Timeout, Ready, Result, Launch, AppResult,
                  Check, CheckBlockSpace, ClearDoing, SetVersion,
                  Mounted, AppReboot, AppUpdate, Swap, NoFirmware, PowerCut, vars
    <2> QED BY <1>2, <2>1, <2>3
  <1>3. CASE ~UNCHANGED upd
    <2>1. ~ (Mounted \/ (\E im \in Images : AppUpdate(im)) \/ Ready \/ Check \/ SetDoing \/ EraseChip
             \/ SetVersion \/ Result \/ AppResult \/ PowerCut \/ Launch \/ PowerOn \/ Detect
             \/ Timeout \/ AppReboot \/ Swap \/ NoFirmware \/ UNCHANGED vars)
      BY <1>1, <1>3, UpdSteps, MoveFields
    <2>2. ~ClearDoing
      BY <1>1, UpdSteps, MoveFields
    <2>3. CASE CheckBlockSpace
      <3>1. upd.pc = "space" /\ UNCHANGED flash
        BY <2>3 DEF CheckBlockSpace
      <3> QED BY <1>1, <2>3, <3>1, UpdSteps, MoveFields
    <2> QED BY <2>1, <2>2, <2>3 DEF Next, Boot, Internal
  <1> QED BY <1>2, <1>3

\* An entry that is through is one less to do.
LEMMA EntryDone ==
  ASSUME TypeOK, Stages, Planned, EndEntry \/ FailEntry
  PROVE  /\ InLoop /\ upd.todo # <<>> /\ upd'.pc = "entry" /\ upd'.img = upd.img
         /\ upd'.todo = Tail(upd.todo) /\ upd'.was = upd.was
         /\ upd'.rc = "ok" => upd.rc = "ok" /\ EndEntry
         /\ Len(upd'.todo) = Len(upd.todo) - 1
         /\ \A i \in 1 .. Len(upd'.todo) : upd'.todo[i] = upd.todo[i + 1]
         /\ Done \in Nat /\ Done' = Done + 1
  <1>1. upd \in Updates /\ upd.todo \in Seq(Entries)
    BY DEF TypeOK, Updates
  <1>2. InLoop /\ upd.todo # <<>>
    BY DEF InLoop, EndEntry, FailEntry, Planned
  <1>3. /\ upd'.pc = "entry" /\ upd'.img = upd.img /\ upd'.todo = Tail(upd.todo)
        /\ upd'.was = upd.was /\ (upd'.rc = "ok" => upd.rc = "ok" /\ EndEntry)
    <2>1. CASE EndEntry
      BY <1>1, <2>1, UpdSteps, MoveFields
    <2>2. CASE FailEntry
      BY <1>1, <2>2, UpdSteps, MoveFields
    <2> QED BY <2>1, <2>2
  <1>4. /\ Len(upd.todo) \in Nat \ {0} /\ Len(Tail(upd.todo)) = Len(upd.todo) - 1
        /\ \A i \in 1 .. Len(Tail(upd.todo)) : Tail(upd.todo)[i] = upd.todo[i + 1]
    BY <1>1, <1>2
  <1>5. Done \in Nat
    BY <1>2 DEF Planned
  <1>6. upd.img \in Images
    BY <1>2 DEF Stages, InLoop
  <1>7. Len(Plan(upd.img)) \in Nat
    BY <1>6, PlanProperties
  <1>8. Done' = Len(Plan(upd.img)) - (Len(upd.todo) - 1)
    BY <1>3, <1>4 DEF Done
  <1>9. Done = Len(Plan(upd.img)) - Len(upd.todo)
    BY DEF Done
  <1>10. Done' = Done + 1
    <2> DEFINE n == Len(Plan(upd.img))
               m == Len(upd.todo)
    <2>1. n \in Nat /\ m \in Nat
      BY <1>4, <1>7
    <2> HIDE DEF n, m, Done
    <2> QED BY <1>8, <1>9, <2>1 DEF n, m
  <1> QED BY <1>2, <1>3, <1>4, <1>5, <1>10

\* What is left stays the end of the plan.
LEMMA NextPlanned == TypeOK /\ Stages /\ Planned /\ [Next]_vars => Planned'
  <1> SUFFICES ASSUME TypeOK, Stages, Planned, [Next]_vars, InLoop' PROVE Planned'
    BY DEF Planned, InLoop
  <1>1. upd \in Updates
    BY DEF TypeOK
  <1>2. CASE upd.pc = "space" /\ Goes("entry", Plan(upd.img), upd.rc, upd.was)
    <2>1. upd'.img = upd.img /\ upd'.todo = Plan(upd.img) /\ upd'.pc = "entry"
      BY <1>2, MoveFields
    <2>2. Plan(upd.img) \in Seq(Entries)
      BY <1>2, PlanProperties DEF Stages
    <2>3. Done' = 0
      BY <2>1, <2>2 DEF Done
    <2>4. \A i \in 1 .. Len(upd'.todo) : upd'.todo[i] = Plan(upd'.img)[0 + i]
      BY <2>1, <2>2
    <2> QED BY <2>1, <2>3, <2>4 DEF Planned
  <1>3. CASE BeginEntry
    <2>1. upd'.img = upd.img /\ upd'.todo = upd.todo /\ upd.todo # <<>> /\ InLoop
      BY <1>1, <1>3, UpdSteps, MoveFields DEF BeginEntry, InLoop
    <2>2. Done' = Done
      BY <2>1 DEF Done
    <2> QED BY <2>1, <2>2 DEF Planned
  <1>4. CASE EndEntry \/ FailEntry
    <2>1. /\ InLoop /\ upd'.pc = "entry" /\ upd'.img = upd.img /\ upd.todo # <<>>
          /\ Len(upd'.todo) = Len(upd.todo) - 1
          /\ \A i \in 1 .. Len(upd'.todo) : upd'.todo[i] = upd.todo[i + 1]
          /\ Done \in Nat /\ Done' = Done + 1
      BY <1>4, EntryDone
    <2>2. Len(upd.todo) \in Nat \ {0}
      BY <2>1, <1>1 DEF Updates
    <2>3. \A i \in 1 .. Len(upd.todo) : upd.todo[i] = Plan(upd.img)[Done + i]
      BY <2>1 DEF Planned
    <2>4. ASSUME NEW i \in 1 .. Len(upd'.todo)
          PROVE  upd'.todo[i] = Plan(upd'.img)[Done' + i]
      <3>1. i + 1 \in 1 .. Len(upd.todo)
        BY <2>1, <2>2
      <3>2. Done + (i + 1) = Done' + i
        BY <2>1
      <3> QED BY <2>1, <2>3, <3>1, <3>2
    <2> QED BY <2>1, <2>4 DEF Planned
  <1>5. CASE InLoop /\ UNCHANGED <<upd, flash>>
    BY <1>5 DEF Planned, Done, InLoop
  <1> QED BY <1>2, <1>3, <1>4, <1>5, LoopSteps

\* What has been written stays of the new version until all is done.
LEMMA NextUpgraded == Course /\ [Next]_vars => Upgraded'
  <1> SUFFICES ASSUME Course, [Next]_vars, InLoop', upd'.rc = "ok" PROVE Upgraded'
    BY DEF Upgraded
  <1> USE DEF Course
  <1>1. upd \in Updates
    BY DEF TypeOK
  <1> DEFINE plan == Plan(upd.img)
  <1>2. CASE upd.pc = "space" /\ Goes("entry", Plan(upd.img), upd.rc, upd.was)
    <2>1. upd'.img = upd.img /\ upd'.todo = plan
      BY <1>2, MoveFields
    <2>2. Len(plan) \in Nat
      BY <1>2, PlanProperties DEF Stages
    <2>3. Done' = 0
      BY <2>1, <2>2 DEF Done
    <2> QED BY <2>3 DEF Upgraded
  <1>3. CASE BeginEntry
    <2>1. /\ upd'.img = upd.img /\ upd'.todo = upd.todo /\ upd.todo # <<>> /\ InLoop
          /\ upd.pc = "entry" /\ upd.rc = "ok"
      BY <1>1, <1>3, UpdSteps, MoveFields DEF BeginEntry, InLoop
    <2>2. Done' = Done
      BY <2>1 DEF Done
    <2>3. \A p \in Parts : p # Head(upd.todo).to => flash'[p] = flash[p]
      BY <1>3 DEF BeginEntry, TypeOK
    <2>4. ASSUME NEW j \in 1 .. Done, plan[j].from = NoImage, plan[j].to # Store,
                 plan[j].to # Head(upd.todo).to
          PROVE  flash'[plan[j].to] = upd.img.version
      <3>1. flash[plan[j].to] = upd.img.version
        BY <2>1, <2>4 DEF Upgraded
      <3>2. plan[j].to \in Parts
        BY <1>1, <2>1, <2>4, DoneIn
      <3> QED BY <2>3, <2>4, <3>1, <3>2
    <2>5. upd'.pc = "writing"
      BY <1>1, <1>3, UpdSteps, MoveFields
    <2> QED BY <2>1, <2>2, <2>4, <2>5 DEF Upgraded
  <1>4. CASE EndEntry \/ FailEntry
    <2>1. /\ InLoop /\ upd'.pc = "entry" /\ upd'.img = upd.img /\ upd.todo # <<>>
          /\ upd.rc = "ok" /\ EndEntry /\ Done \in Nat /\ Done' = Done + 1
      BY <1>4, EntryDone
    <2> DEFINE e == Head(upd.todo)
    <2>2. e = plan[Done + 1] /\ Done + 1 \in DOMAIN plan /\ (e.to # Store => e.to \in Parts)
      BY <1>1, <2>1, HeadOf
    <2>3. /\ upd.pc = "writing"
          /\ \A p \in Parts : p # e.to => flash'[p] = flash[p]
          /\ e.to # Store /\ e.from = NoImage => flash'[e.to] = upd.img.version
      BY <2>1, <2>2 DEF EndEntry, TypeOK
    <2>4. ASSUME NEW j \in 1 .. Done + 1, plan[j].from = NoImage, plan[j].to # Store
          PROVE  flash'[plan[j].to] = upd.img.version
      <3>1. CASE j = Done + 1
        BY <2>2, <2>3, <2>4, <3>1
      <3>2. CASE j # Done + 1
        <4>1. j \in 1 .. Done /\ plan[j].to \in Parts /\ e.from = NoImage
          <5>1. j \in 1 .. Done
            BY <2>1, <2>4, <3>2
          <5> QED BY <1>1, <2>1, <2>2, <2>4, <5>1, DoneIn
        <4>2. CASE plan[j].to = e.to
          BY <2>3, <2>4, <4>1, <4>2
        <4>3. CASE plan[j].to # e.to
          <5>1. flash[plan[j].to] = upd.img.version
            BY <2>1, <2>4, <4>1, <4>3 DEF Upgraded
          <5> QED BY <2>3, <4>1, <4>3, <5>1
        <4> QED BY <4>2, <4>3
      <3> QED BY <3>1, <3>2
    <2> QED BY <2>1, <2>4 DEF Upgraded
  <1>5. CASE InLoop /\ UNCHANGED <<upd, flash>>
    BY <1>5 DEF Upgraded, Done, InLoop
  <1> QED BY <1>2, <1>3, <1>4, <1>5, LoopSteps

\* The first state: a whole firmware, nothing under way.
LEMMA InitCourse == Init => Course
  <1> SUFFICES ASSUME Init PROVE Course
    OBVIOUS
  <1>1. upd = Idle /\ Idle \in Updates /\ upd.pc = "idle" /\ ~InLoop
    BY DEF Init, Idle, Updates, InLoop
  <1>2. 0 \in Versions /\ 1 \in Versions
    BY DEF Versions
  <1>3. TypeOK
    <2>1. flash \in [Parts -> Content]
      BY <1>2 DEF Init, Content
    <2>2. /\ store \in Record /\ kept \subseteq Record /\ kept # {} /\ valid \in BOOLEAN
      <3>1. \E s \in {NoRecord, [doing |-> FALSE, version |-> 1, modes |-> FALSE]} :
               store = s /\ kept = {s}
        BY DEF Init
      <3>2. {NoRecord, [doing |-> FALSE, version |-> 1, modes |-> FALSE]} \subseteq Record
        BY <1>2 DEF Record
      <3>3. valid = TRUE
        BY DEF Init
      <3> QED BY <3>1, <3>2, <3>3
    <2>3. main = "off" /\ disk = NoImage /\ seen = FALSE /\ cuts = 0 /\ fails = 0 /\ installed = NoImage
      BY DEF Init
    <2>4. 0 \in 0 .. MaxCuts /\ 0 \in 0 .. MaxFails
      BY BoundsAssumption
    <2>5. upd \in Updates
      BY <1>1
    <2> QED BY <1>2, <2>1, <2>2, <2>3, <2>4, <2>5 DEF TypeOK
  <1> QED BY <1>1, <1>3 DEF Course, Stages, Planned, Upgraded, InLoop

\* Each step keeps the course.
LEMMA NextCourse == Course /\ [Next]_vars => Course'
  BY NextTypes, NextStages, NextPlanned, NextUpgraded DEF Course

\* What the update is about, in every reachable state.
THEOREM CourseKept == Spec => []Course
  BY InitCourse, NextCourse, PTL DEF Spec

\* The variables have their types.
THEOREM TypeCorrect == Spec => []TypeOK
  <1>1. Course => TypeOK
    BY DEF Course
  <1> QED BY <1>1, CourseKept, PTL

-----------------------------------------------------------------------------
(* A torn firmware is flagged.                                             *)

\* When nothing but the store is left to write, the firmware is whole.
LEMMA AllUpgraded ==
  ASSUME WholeFirmware, Course, InLoop, upd.rc = "ok",
         upd.todo = <<>> \/ Head(upd.todo).to = Store
  PROVE  Whole
  <1> DEFINE plan == Plan(upd.img)
             v == upd.img.version
  <1>1. upd \in Updates /\ upd.img \in Images /\ v \in Nat
    <2>1. upd \in Updates /\ upd.img \in Images
      BY DEF Course, TypeOK, Stages, InLoop
    <2> QED BY <2>1, RecordTypes
  <1>2. ASSUME NEW p \in Firm PROVE flash[p] = v
    <2>1. PICK e \in Range(Upgrades(upd.img)) : e.to = p
      BY <1>1 DEF WholeFirmware
    <2>2. e.from = NoImage /\ e \in Range(plan) /\ plan \in Seq(Entries)
      BY <1>1, BackupsOf, PlanProperties
    <2>3. PICK j \in DOMAIN plan : plan[j] = e
      BY <2>2 DEF Range
    <2>4. e.to # Store
      BY <2>1 DEF Firm
    <2>5. Len(plan) \in Nat /\ j \in 1 .. Len(plan)
      BY <2>2
    <2>6. Done \in Nat
      BY DEF Course, Planned
    <2>7. j <= Done
      <3>1. CASE upd.todo = <<>>
        <4>1. Done = Len(plan)
          BY <2>5, <3>1 DEF Done
        <4> QED BY <2>5, <4>1
      <3>2. CASE upd.todo # <<>>
        <4>1. Head(upd.todo).to = Store /\ Head(upd.todo) = plan[Done + 1] /\ Done + 1 \in DOMAIN plan
          BY <1>1, <3>2, HeadOf DEF Course
        <4>2. Done + 1 = Len(plan)
          BY <1>1, <4>1, PlanProperties
        <4>3. j # Done + 1
          BY <2>1, <2>3, <2>4, <4>1
        <4> HIDE DEF plan
        <4> QED BY <2>5, <2>6, <4>2, <4>3
      <3> QED BY <3>1, <3>2
    <2>8. j \in 1 .. Done
      BY <2>5, <2>6, <2>7
    <2>9. upd.pc = "writing" => e.to # Head(upd.todo).to
      BY <2>4 DEF Course, Planned
    <2> QED BY <2>1, <2>2, <2>3, <2>4, <2>8, <2>9 DEF Course, Upgraded
  <1> QED BY <1>1, <1>2 DEF Whole

\* While the persistent memory is written, nothing has failed.
LEMMA StoreEntry ==
  ASSUME WholeFirmware, StoreNotFaulty, Course, InLoop, upd.todo # <<>>,
         Head(upd.todo).to = Store
  PROVE  /\ upd.rc = "ok" /\ upd.img \notin Faulty /\ ~valid /\ upd.img.ignore /\ Whole
         /\ Len(upd.todo) = 1
  <1>1. upd \in Updates /\ upd.img \in Images
    BY DEF Course, TypeOK, Stages, InLoop
  <1>2. /\ Head(upd.todo) = Plan(upd.img)[Done + 1] /\ Done + 1 \in DOMAIN Plan(upd.img)
        /\ Len(upd.todo) = 1 <=> Done + 1 = Len(Plan(upd.img))
    BY <1>1, HeadOf DEF Course
  <1>3. upd.img.ignore /\ Len(upd.todo) = 1
    BY <1>1, <1>2, PlanProperties
  <1>4. Head(upd.todo) \in Range(upd.img.entries)
    <2>1. Range(Plan(upd.img)) = Range(upd.img.entries)
      BY <1>1, PlanProperties
    <2>2. Plan(upd.img)[Done + 1] \in Range(Plan(upd.img))
      BY <1>2 DEF Range
    <2> QED BY <1>2, <2>1, <2>2
  <1>5. upd.img \notin Faulty
    BY <1>1, <1>3, <1>4 DEF StoreNotFaulty, Brings
  <1>6. upd.rc = "ok" /\ ~valid
    BY <1>3, <1>5 DEF Course, Stages, InLoop
  <1> QED BY <1>3, <1>5, <1>6, AllUpgraded

\* Nothing is flagged less by a node call that leaves the version and the flag.
LEMMA LoggedSafe ==
  ASSUME NEW s, Logged(s), valid
  PROVE  /\ kept \subseteq {store, NoRecord} => kept' \subseteq {store', NoRecord}
         /\ Safe /\ Flagged(s) => Safe'
  BY DEF Logged, Safe, Flagged

\* Clearing or setting the modes leaves a record flagged.
LEMMA ModesFlagged ==
  ASSUME TypeOK, store # NoRecord, NEW b \in BOOLEAN
  PROVE  /\ Flagged([store EXCEPT !.modes = b]) <=> Flagged(store)
         /\ Flagged([store EXCEPT !.doing = TRUE])
         /\ Flagged(Zeroed)
  <1>1. store \in Rec /\ NoRecord \notin Rec
    BY RecordTypes DEF TypeOK
  <1> DEFINE m == [doing |-> store.doing, version |-> store.version, modes |-> b]
             d == [doing |-> TRUE, version |-> store.version, modes |-> store.modes]
  <1>2. [store EXCEPT !.modes = b] = m /\ [store EXCEPT !.modes = b] \in Rec
    BY <1>1, RecordFields
  <1>3. [store EXCEPT !.doing = TRUE] = d
    BY <1>1, RecordFields
  <1>4. Flagged(m) <=> Flagged(store)
    <2>1. m # NoRecord
      BY <1>1, <1>2
    <2> QED BY <2>1 DEF Flagged
  <1>5. Flagged(d) /\ Flagged(Zeroed)
    BY DEF Flagged, Zeroed
  <1> HIDE DEF m, d
  <1> QED BY <1>2, <1>3, <1>4, <1>5

\* The steps that leave the records alone.
LEMMA QuietDoubted ==
  ASSUME WholeFirmware, StoreNotFaulty, Course, Doubted, UNCHANGED <<flash, store, valid, kept>>,
         \/ Detect \/ Timeout \/ Swap \/ UNCHANGED vars \/ Ready \/ Mounted \/ Check
         \/ \E im \in Images : AppUpdate(im)
         \/ AppResult \/ PowerCut \/ CheckBlockSpace \/ FailEntry
  PROVE  Doubted'
  <1>1. upd \in Updates
    BY DEF Course, TypeOK
  <1>2. (Safe' <=> Safe) /\ (Whole' <=> Whole) /\ UNCHANGED <<flash, store, valid, kept>>
    BY DEF Safe, Whole
  <1>3. CASE Detect \/ Timeout \/ Swap \/ UNCHANGED vars
    <2>1. UNCHANGED upd
      BY <1>1, <1>3, UpdSteps
    <2>2. main' # "off" => main # "off"
      BY <1>3 DEF Detect, Timeout, Swap, vars
    <2>3. AllButStore' <=> AllButStore
      BY <1>2, <2>1 DEF AllButStore
    <2> QED BY <1>2, <2>1, <2>2, <2>3 DEF Doubted, InLoop
  <1>4. CASE Ready \/ Mounted \/ Check \/ \E im \in Images : AppUpdate(im)
    <2>1. /\ upd.pc \in {"idle", "found", "check"}
          /\ \/ upd'.pc \in {"found", "check", "doing"}
             \/ upd'.pc = "result"
      <3>1. CASE Ready \/ Mounted \/ \E im \in Images : AppUpdate(im)
        <4>1. upd.pc \in {"idle", "found"}
          BY <3>1 DEF Ready, Mounted, AppUpdate
        <4> QED BY <1>1, <3>1, <4>1, UpdSteps, MoveFields
      <3>2. CASE Check
        <4>1. upd.pc = "check"
          BY <3>2 DEF Check
        <4> QED BY <1>1, <3>2, <4>1, UpdSteps, MoveFields
      <3> QED BY <1>4, <3>1, <3>2
    <2>2. main # "off"
      BY <1>4 DEF Course, Stages, Ready, Mounted, Check, AppUpdate
    <2> QED BY <1>2, <2>1, <2>2 DEF Doubted, InLoop
  <1>5. CASE AppResult \/ PowerCut
    <2>1. upd'.pc = "idle"
      BY <1>1, <1>5, UpdSteps, MoveFields
    <2>2. main' = "off" \/ (upd.pc = "result" /\ upd.rc # "ok" /\ main # "off")
      BY <1>5 DEF AppResult, PowerCut
    <2> QED BY <1>2, <2>1, <2>2 DEF Doubted, InLoop
  <1>6. CASE CheckBlockSpace
    <2>1. upd.pc = "space" /\ upd'.pc \in {"entry", "result"}
      BY <1>1, <1>6, UpdSteps, MoveFields DEF CheckBlockSpace
    <2>2. Safe
      BY <2>1 DEF Doubted
    <2> QED BY <1>2, <2>1, <2>2 DEF Doubted, InLoop
  <1>7. CASE FailEntry
    <2>1. InLoop /\ upd.todo # <<>> /\ upd'.pc = "entry"
      BY <1>7, EntryDone DEF Course
    <2>2. upd.img \in Faulty
      BY <1>7 DEF FailEntry
    <2>3. ~AllButStore
      <3>1. Head(upd.todo).to # Store
        BY <2>1, <2>2, StoreEntry
      <3>2. 1 \in 1 .. Len(upd.todo) /\ Head(upd.todo) = upd.todo[1]
        BY <1>1, <2>1 DEF Updates
      <3> QED BY <3>1, <3>2 DEF AllButStore
    <2>4. Safe
      BY <2>1, <2>3 DEF Doubted
    <2> QED BY <1>2, <2>1, <2>4 DEF Doubted, InLoop
  <1> QED BY <1>3, <1>4, <1>5, <1>6, <1>7

\* The steps outside hcfota_internal that write the record or find it again.
LEMMA RecordDoubted ==
  ASSUME Course, Doubted,
         \/ PowerOn \/ Result \/ AppReboot \/ NoFirmware
         \/ Launch /\ ~UNCHANGED <<store, valid, kept>>
  PROVE  Doubted'
  <1>1. upd \in Updates /\ store \in Record
    BY DEF Course, TypeOK
  <1>2. UNCHANGED flash
    BY DEF PowerOn, Result, AppReboot, NoFirmware, Launch
  <1>3. Whole' <=> Whole
    BY <1>2 DEF Whole
  <1>4. CASE PowerOn \/ (Launch /\ ~UNCHANGED <<store, valid, kept>>)
    <2>1. store' \in kept /\ kept' = {store'} /\ valid' = TRUE
      BY <1>4 DEF PowerOn, Launch
    <2>2. upd'.pc = "idle"
      <3>1. CASE PowerOn
        BY <1>1, <3>1, UpdSteps DEF PowerOn, Course, Stages
      <3>2. CASE Launch /\ ~UNCHANGED <<store, valid, kept>>
        BY <3>2 DEF Launch, Idle
      <3> QED BY <1>4, <3>1, <3>2
    <2>3. Safe => Safe'
      BY <2>1 DEF Safe
    <2> QED BY <1>3, <2>1, <2>2, <2>3 DEF Doubted, InLoop
  <1>5. ASSUME ~valid, UNCHANGED <<store, kept, valid>> PROVE Safe' <=> Safe
    BY <1>5 DEF Safe
  <1>6. CASE Result
    <2>1. upd.pc = "result" /\ upd'.pc = "idle" /\ valid' = valid
      BY <1>1, <1>6, UpdSteps, MoveFields DEF Result
    <2>2. main' # "off" => upd.rc # "ok" /\ main # "off"
      BY <1>6 DEF Result, Course, Stages
    <2>3. CASE valid /\ store # NoRecord
      <3>1. Logged([store EXCEPT !.modes = FALSE])
        BY <1>6, <2>3 DEF Result
      <3>2. Safe => Safe'
        <4>1. Safe => Flagged([store EXCEPT !.modes = FALSE])
          BY <2>3, ModesFlagged DEF Course, Safe
        <4> QED BY <2>3, <3>1, <4>1, LoggedSafe
      <3>3. kept' \subseteq {store', NoRecord}
        BY <2>3, <3>1, LoggedSafe DEF Doubted
      <3> QED BY <1>3, <2>1, <2>2, <2>3, <3>2, <3>3 DEF Doubted, InLoop
    <2>4. CASE ~(valid /\ store # NoRecord)
      <3>1. UNCHANGED <<store, kept>>
        BY <1>6, <2>4 DEF Result
      <3>2. Safe' <=> Safe
        BY <2>1, <3>1 DEF Safe
      <3> QED BY <1>3, <2>1, <2>2, <3>1, <3>2 DEF Doubted, InLoop
    <2> QED BY <2>3, <2>4
  <1>7. CASE AppReboot \/ NoFirmware
    <2>1. upd.pc = "idle" /\ upd' = upd /\ valid' = valid
      BY <1>1, <1>7 DEF AppReboot, NoFirmware
    <2>2. main' # "off" => main # "off"
      BY <1>7 DEF AppReboot, NoFirmware
    <2>3. CASE UNCHANGED <<store, kept>>
      <3>1. Safe' <=> Safe
        BY <2>1, <2>3 DEF Safe
      <3> QED BY <1>3, <2>1, <2>2, <2>3, <3>1 DEF Doubted, InLoop
    <2>4. CASE ~UNCHANGED <<store, kept>>
      <3>1. valid /\ \/ Logged(Zeroed)
                     \/ store # NoRecord /\ \E b \in BOOLEAN : Logged([store EXCEPT !.modes = b])
        BY <1>7, <2>4 DEF AppReboot, NoFirmware
      <3>2. PICK s : Logged(s) /\ (Safe => Flagged(s))
        <4>1. CASE Logged(Zeroed)
          <5>1. Flagged(Zeroed)
            BY DEF Flagged, Zeroed
          <5> QED BY <4>1, <5>1
        <4>2. CASE store # NoRecord /\ \E b \in BOOLEAN : Logged([store EXCEPT !.modes = b])
          <5>1. PICK b \in BOOLEAN : Logged([store EXCEPT !.modes = b])
            BY <4>2
          <5>2. Safe => Flagged([store EXCEPT !.modes = b])
            BY <3>1, <4>2, ModesFlagged DEF Course, Safe
          <5> QED BY <5>1, <5>2
        <4> QED BY <3>1, <4>1, <4>2
      <3>3. (Safe => Safe') /\ kept' \subseteq {store', NoRecord}
        BY <3>1, <3>2, LoggedSafe DEF Doubted
      <3>4. upd'.pc = "idle" /\ valid'
        BY <2>1, <3>1
      <3> QED BY <1>3, <3>3, <3>4 DEF Doubted, InLoop
    <2> QED BY <2>3, <2>4
  <1> QED BY <1>4, <1>6, <1>7

\* The start of an update: the flag is set before anything is torn.
LEMMA SetDoingDoubted == ASSUME Course, Doubted, SetDoing PROVE Doubted'
  <1>1. upd \in Updates /\ store \in Record /\ upd.pc = "doing" /\ upd.img \in Images
    BY DEF Course, TypeOK, Stages, SetDoing
  <1>2. (Whole' <=> Whole) /\ main' = main /\ main # "off"
    BY <1>1 DEF Whole, SetDoing, Course, Stages
  <1>3. CASE valid /\ store = NoRecord
    <2>1. UNCHANGED <<upd, valid>> /\ Logged(Zeroed)
      BY <1>3 DEF SetDoing
    <2>2. Flagged(Zeroed)
      BY DEF Flagged, Zeroed
    <2>3. (Safe => Safe') /\ kept' \subseteq {store', NoRecord}
      BY <1>3, <2>1, <2>2, LoggedSafe DEF Doubted
    <2> QED BY <1>1, <1>2, <1>3, <2>1, <2>3 DEF Doubted, InLoop
  <1>4. CASE ~(valid /\ store = NoRecord)
    <2>1. /\ valid' => valid
          /\ valid => Logged([store EXCEPT !.doing = TRUE])
          /\ ~valid => UNCHANGED <<store, kept>>
      BY <1>4 DEF SetDoing
    <2>2. upd'.pc \in {"erase", "space"}
      <3>1. SetDoing => upd' = [upd EXCEPT !.pc = IF upd.img.erase THEN "erase" ELSE "space",
                                   !.was = [e \in Range(Backups(upd.img)) |-> flash[e.from]]]
        BY <1>4 DEF SetDoing
      <3>2. upd'.pc = IF upd.img.erase THEN "erase" ELSE "space"
        BY <1>1, <3>1, UpdFields
      <3> QED BY <3>2
    <2>3. Safe' /\ (valid' => kept' \subseteq {store', NoRecord})
      <3>1. CASE valid
        <4>1. store # NoRecord /\ Flagged([store EXCEPT !.doing = TRUE])
          BY <1>4, <3>1, ModesFlagged DEF Course
        <4>2. kept' \subseteq {store', NoRecord} /\ Flagged(store')
          BY <2>1, <3>1, <4>1, LoggedSafe DEF Doubted, Logged
        <4> QED BY <4>2 DEF Safe, Flagged
      <3>2. CASE ~valid
        <4>1. Safe
          BY <1>1, <1>2, <3>2 DEF Doubted
        <4> QED BY <2>1, <3>2, <4>1 DEF Safe
      <3> QED BY <3>1, <3>2
    <2> QED BY <2>2, <2>3 DEF Doubted, InLoop
  <1> QED BY <1>3, <1>4

\* The chip erase leaves no record, which is flagged.
LEMMA EraseChipDoubted == ASSUME Course, Doubted, EraseChip PROVE Doubted'
  <1>1. upd.pc = "erase" /\ upd'.pc \in {"erase", "space"} /\ UNCHANGED <<store, valid>>
    <2>1. upd \in Updates
      BY DEF Course, TypeOK
    <2> QED BY <2>1, UpdSteps, MoveFields DEF EraseChip
  <1>2. kept' = kept \/ kept' = {NoRecord}
    BY DEF EraseChip
  <1>3. Safe' /\ (valid' => kept' \subseteq {store', NoRecord})
    BY <1>1, <1>2 DEF Doubted, Safe, Flagged
  <1> QED BY <1>1, <1>3 DEF Doubted, InLoop

\* A partition is torn under a flagged record; the store is written last.
LEMMA EntryDoubted ==
  ASSUME WholeFirmware, StoreNotFaulty, Course, Doubted, BeginEntry \/ EndEntry
  PROVE  Doubted'
  <1>1. upd \in Updates /\ upd.todo \in Seq(Entries)
    BY DEF Course, TypeOK, Updates
  <1>2. /\ InLoop /\ upd.todo # <<>> /\ UNCHANGED <<store, valid>>
        /\ upd'.img = upd.img /\ upd'.rc = upd.rc
        /\ BeginEntry => upd.pc = "entry" /\ upd'.pc = "writing" /\ upd'.todo = upd.todo
        /\ EndEntry => upd'.pc = "entry" /\ upd'.todo = Tail(upd.todo)
    <2>1. InLoop /\ upd.todo # <<>> /\ UNCHANGED <<store, valid>>
          /\ (BeginEntry => upd.pc = "entry")
      BY DEF BeginEntry, EndEntry, InLoop, Course, Planned
    <2> QED BY <1>1, <2>1, UpdSteps, MoveFields
  <1> DEFINE e == Head(upd.todo)
  <1>3. CASE e.to = Store
    <2>1. /\ upd.rc = "ok" /\ ~valid /\ upd.img.ignore /\ Whole /\ Len(upd.todo) = 1
      BY <1>2, <1>3, StoreEntry
    <2>2. UNCHANGED flash
      BY <1>3 DEF BeginEntry, EndEntry
    <2>3. Whole'
      BY <2>1, <2>2 DEF Whole
    <2>4. CASE BeginEntry
      <3>1. \A i \in 1 .. Len(upd.todo) : upd.todo[i].to = Store
        BY <1>1, <1>2, <1>3, <2>1
      <3>2. AllButStore'
        BY <1>2, <2>1, <2>3, <2>4, <3>1 DEF AllButStore
      <3> QED BY <1>2, <2>1, <2>3, <2>4, <3>2 DEF Doubted
    <2>5. CASE EndEntry
      <3> DEFINE t == upd.todo
                 u == upd'.todo
      <3>1. t \in Seq(Entries) /\ Len(t) = 1 /\ u = Tail(t)
        BY <1>1, <1>2, <2>1, <2>5
      <3> HIDE DEF t, u
      <3>2. Len(u) = 0 /\ u = <<>>
        BY <3>1
      <3>3. Len(upd'.todo) = 0 /\ upd'.todo = <<>>
        BY <3>2 DEF u
      <3>4. AllButStore'
        BY <1>2, <2>1, <2>3, <2>5, <3>3 DEF AllButStore
      <3> QED BY <1>2, <2>1, <2>3, <2>5, <3>4 DEF Doubted
    <2> QED BY <2>4, <2>5
  <1>4. CASE e.to # Store
    <2>1. UNCHANGED kept
      BY <1>4 DEF BeginEntry, EndEntry
    <2>2. ~AllButStore
      <3>1. 1 \in 1 .. Len(upd.todo) /\ e = upd.todo[1]
        BY <1>1, <1>2
      <3> QED BY <1>4, <3>1 DEF AllButStore
    <2>3. Safe'
      BY <1>2, <2>1, <2>2 DEF Doubted, Safe
    <2>4. valid' => kept' \subseteq {store', NoRecord}
      BY <1>2, <2>1 DEF Doubted
    <2>5. upd'.pc \in {"entry", "writing"}
      BY <1>2
    <2> QED BY <2>3, <2>4, <2>5 DEF Doubted
  <1> QED BY <1>3, <1>4

\* The flag is cleared only over a whole firmware, and the version is recorded.
LEMMA ClearDoubted ==
  ASSUME WholeFirmware, Course, Doubted, ClearDoing \/ SetVersion PROVE Doubted'
  <1>1. upd \in Updates /\ UNCHANGED <<flash, valid, main>>
    BY DEF Course, TypeOK, ClearDoing, SetVersion
  <1>2. Whole' <=> Whole
    BY <1>1 DEF Whole
  <1>3. CASE ClearDoing
    <2>1. /\ InLoop /\ upd.todo = <<>> /\ upd'.rc = upd.rc
          /\ upd'.pc = IF upd.rc = "ok" /\ ~upd.img.ignore THEN "version" ELSE "result"
      BY <1>1, <1>3, UpdSteps, MoveFields DEF ClearDoing, InLoop
    <2>2. CASE upd.rc = "ok"
      <3>1. Whole
        BY <2>1, <2>2, AllUpgraded
      <3>2. CASE valid
        <4>1. \E s : Logged(s)
          BY <1>3, <2>2, <3>2 DEF ClearDoing
        <4>2. kept' \subseteq {store', NoRecord}
          BY <3>2, <4>1, LoggedSafe DEF Doubted
        <4> QED BY <1>1, <1>2, <2>1, <2>2, <3>1, <3>2, <4>2 DEF Doubted, InLoop
      <3>3. CASE ~valid
        <4>1. UNCHANGED <<store, kept>>
          BY <1>3, <2>2, <3>3 DEF ClearDoing
        <4>2. ~upd.img.ignore => Safe'
          BY <1>1, <2>1, <4>1 DEF Doubted, AllButStore, Safe
        <4> QED BY <1>1, <1>2, <2>1, <2>2, <3>1, <3>3, <4>1, <4>2 DEF Doubted, InLoop
      <3> QED BY <3>2, <3>3
    <2>3. CASE upd.rc # "ok"
      <3>1. UNCHANGED <<store, kept>>
        BY <1>3, <2>3 DEF ClearDoing
      <3>2. Safe'
        BY <1>1, <2>1, <2>3, <3>1 DEF Doubted, AllButStore, Safe
      <3> QED BY <1>1, <2>1, <2>3, <3>1, <3>2 DEF Doubted, InLoop
    <2> QED BY <2>2, <2>3
  <1>4. CASE SetVersion
    <2>1. upd.pc = "version" /\ upd.rc = "ok" /\ Whole /\ upd'.pc = "result" /\ upd'.rc = "ok"
      BY <1>1, <1>4, UpdSteps, MoveFields DEF SetVersion, Doubted, Course, Stages
    <2>2. valid' => kept' \subseteq {store', NoRecord}
      <3>1. valid => \E s : Logged(s)
        BY <1>4 DEF SetVersion
      <3> QED BY <1>1, <3>1, LoggedSafe DEF Doubted
    <2> QED BY <1>2, <2>1, <2>2 DEF Doubted, InLoop
  <1> QED BY <1>3, <1>4

\* Each step preserves the invariant of the records.
LEMMA NextDoubted ==
  ASSUME WholeFirmware, StoreNotFaulty, Course, Doubted, [Next]_vars PROVE Doubted'
  <1>1. CASE \/ Detect \/ Timeout \/ Swap \/ UNCHANGED vars \/ Ready \/ Mounted \/ Check
             \/ \E im \in Images : AppUpdate(im)
             \/ AppResult \/ PowerCut \/ CheckBlockSpace \/ FailEntry
    <2>1. UNCHANGED <<flash, store, valid, kept>>
      BY <1>1 DEF Detect, Timeout, Swap, vars, Ready, Mounted, Check, AppUpdate, AppResult,
                  PowerCut, CheckBlockSpace, FailEntry
    <2> QED BY <1>1, <2>1, QuietDoubted
  <1>2. CASE PowerOn \/ Result \/ AppReboot \/ NoFirmware
    BY <1>2, RecordDoubted
  <1>3. CASE Launch /\ UNCHANGED <<store, valid, kept>>
    <2>1. upd \in Updates
      BY DEF Course, TypeOK
    <2>2. UNCHANGED upd \/ upd'.pc = "idle"
      BY <1>3, <2>1, UpdSteps, MoveFields
    <2>3. UNCHANGED flash /\ main = "launch"
      BY <1>3 DEF Launch
    <2>4. (Safe' <=> Safe) /\ (Whole' <=> Whole)
      BY <1>3, <2>3 DEF Safe, Whole
    <2>5. CASE UNCHANGED upd
      <3>1. AllButStore' <=> AllButStore
        BY <1>3, <2>4, <2>5 DEF AllButStore
      <3> QED BY <1>3, <2>3, <2>4, <2>5, <3>1 DEF Doubted, InLoop
    <2>6. CASE upd'.pc = "idle" /\ ~UNCHANGED upd
      <3>1. valid'
        BY <1>3, <2>6 DEF Launch
      <3> QED BY <1>3, <2>4, <2>6, <3>1 DEF Doubted, InLoop
    <2> QED BY <2>2, <2>5, <2>6
  <1>4. CASE SetDoing \/ EraseChip \/ BeginEntry \/ EndEntry \/ ClearDoing \/ SetVersion
    BY <1>4, SetDoingDoubted, EraseChipDoubted, EntryDoubted, ClearDoubted
  <1>5. CASE Launch
    <2>1. ~UNCHANGED <<store, valid, kept>> => Doubted'
      BY <1>5, RecordDoubted
    <2> QED BY <1>3, <1>5, <2>1
  <1>6. CASE \E im \in Images : AppUpdate(im)
    BY <1>1, <1>6
  <1>7. CASE UNCHANGED vars
    BY <1>1, <1>7
  <1>8. CASE Internal
    BY <1>1, <1>4, <1>8 DEF Internal
  <1>9. CASE Boot
    BY <1>1, <1>2, <1>5, <1>9 DEF Boot
  <1>10. CASE Mounted \/ AppReboot \/ Swap \/ NoFirmware \/ PowerCut
    BY <1>1, <1>2, <1>10
  <1> QED BY <1>6, <1>7, <1>8, <1>9, <1>10 DEF Next

\* When the flash does not hold one whole firmware, every record the next boot
\* may find makes it look for an image: for all images that bring the whole
\* firmware, if no call fails under an image with a persistent memory.
THEOREM TornAlwaysFlagged ==
  WholeFirmware /\ StoreNotFaulty => (Spec => []TornIsFlagged)
  <1> SUFFICES ASSUME WholeFirmware, StoreNotFaulty PROVE Spec => []TornIsFlagged
    OBVIOUS
  <1>1. Init => Doubted
    <2> SUFFICES ASSUME Init PROVE Doubted
      OBVIOUS
    <2>1. upd.pc = "idle" /\ valid /\ kept = {store}
      BY DEF Init, Idle
    <2>2. Whole
      <3>1. \A p \in Firm : p \in Parts
        <4>1. ASSUME NEW e \in Entries PROVE e.to \in Parts \cup {Store}
          <5>1. PICK im \in Images : e \in Range(im.entries)
            BY DEF Entries
          <5> QED BY <5>1, PlanProperties
        <4> QED BY <4>1 DEF Firm
      <3>2. \A p \in Firm : flash[p] = 1
        BY <3>1 DEF Init
      <3> QED BY <3>2 DEF Whole
    <2> QED BY <2>1, <2>2 DEF Doubted, InLoop
  <1>2. Course /\ Doubted /\ [Next]_vars => Doubted'
    BY NextDoubted
  <1>3. Doubted => TornIsFlagged
    BY DEF Doubted, TornIsFlagged, Safe, Flagged, Looks
  <1> QED BY <1>1, <1>2, <1>3, CourseKept, PTL DEF Spec

-----------------------------------------------------------------------------
(* An image that was installed is not installed again.                     *)

\* What a node call leaves of the version.
LEMMA VersionKept ==
  ASSUME TypeOK, store # NoRecord
  PROVE  /\ \A b \in BOOLEAN : /\ [store EXCEPT !.modes = b].version = store.version
                               /\ [store EXCEPT !.modes = b] # NoRecord
         /\ \A v \in Versions : /\ [store EXCEPT !.version = v].version = v
                                /\ [store EXCEPT !.version = v] # NoRecord
  <1>1. store \in Rec /\ NoRecord \notin Rec
    BY RecordTypes DEF TypeOK
  <1>2. ASSUME NEW b \in BOOLEAN
        PROVE  [store EXCEPT !.modes = b].version = store.version /\ [store EXCEPT !.modes = b] # NoRecord
    <2> DEFINE m == [store EXCEPT !.modes = b]
    <2>1. m \in Rec /\ m = [doing |-> store.doing, version |-> store.version, modes |-> b]
      BY <1>1, RecordFields
    <2> HIDE DEF m
    <2>2. m.version = store.version /\ m # NoRecord
      BY <1>1, <2>1
    <2> QED BY <2>2 DEF m
  <1>3. ASSUME NEW v \in Versions
        PROVE  [store EXCEPT !.version = v].version = v /\ [store EXCEPT !.version = v] # NoRecord
    <2> DEFINE m == [store EXCEPT !.version = v]
    <2>1. m \in Rec /\ m = [doing |-> store.doing, version |-> v, modes |-> store.modes]
      BY <1>1, RecordFields
    <2> HIDE DEF m
    <2>2. m.version = v /\ m # NoRecord
      BY <1>1, <2>1
    <2> QED BY <2>2 DEF m
  <1> QED BY <1>2, <1>3

\* A node call of a driver that knows all the records leaves one record.
LEMMA LoggedAlone ==
  ASSUME NEW s, Logged(s), kept = {store} PROVE store' = s /\ kept' = {s}
  BY DEF Logged

\* An image that erases the chip or is to ignore the version ends with a store.
LEMMA StoreIsLast ==
  ASSUME StoreBrought, NEW im \in Images, im.ignore \/ im.erase
  PROVE  /\ im.ignore /\ Len(Plan(im)) \in Nat \ {0}
         /\ Plan(im)[Len(Plan(im))].to = Store
  <1> DEFINE p == Plan(im)
  <1>1. PICK e \in Range(im.entries) : e.to = Store
    BY DEF StoreBrought, Brings
  <1>2. p \in Seq(Entries) /\ Range(p) = Range(im.entries)
        /\ \A k \in DOMAIN p : p[k].to = Store => k = Len(p) /\ im.ignore
    BY PlanProperties
  <1> HIDE DEF p
  <1>3. PICK k \in DOMAIN p : p[k] = e
    BY <1>1, <1>2 DEF Range
  <1>4. k = Len(p) /\ im.ignore /\ k \in 1 .. Len(p) /\ Len(p) \in Nat
    BY <1>1, <1>2, <1>3
  <1>5. Len(p) \in Nat \ {0} /\ p[Len(p)].to = Store
    BY <1>1, <1>3, <1>4
  <1> QED BY <1>4, <1>5 DEF p

\* The steps that leave the records alone.
LEMMA QuietRecorded ==
  ASSUME StoreBrought, Course, Recorded, UNCHANGED <<store, valid, kept, installed>>,
         \/ Detect \/ Timeout \/ Swap \/ UNCHANGED vars \/ Ready \/ Mounted \/ Check
         \/ \E im \in Images : AppUpdate(im)
         \/ AppResult \/ PowerCut \/ CheckBlockSpace \/ FailEntry
  PROVE  Recorded'
  <1>1. upd \in Updates /\ UNCHANGED <<store, valid, kept, installed>>
    BY DEF Course, TypeOK
  <1>2. CASE Detect \/ Timeout \/ Swap \/ UNCHANGED vars
    <2>1. UNCHANGED upd
      BY <1>1, <1>2, UpdSteps
    <2>2. main = "off" => main' = "off"
      BY <1>2 DEF Detect, Timeout, Swap, vars
    <2> QED BY <1>1, <2>1, <2>2 DEF Recorded, Shipped
  <1>3. CASE Ready \/ Mounted \/ \E im \in Images : AppUpdate(im)
    <2>1. upd'.pc \in {"found", "check"}
      BY <1>1, <1>3, UpdSteps, MoveFields
    <2>2. upd.pc \in {"idle", "found"} /\ main # "off"
      BY <1>3 DEF Ready, Mounted, AppUpdate, Course, Stages
    <2> QED BY <1>1, <2>1, <2>2 DEF Recorded
  <1>4. CASE Check
    <2>1. /\ upd.pc = "check" /\ main # "off" /\ upd'.img = upd.img
          /\ upd'.pc \in {"doing", "result"}
      <3>1. upd.pc = "check" /\ main # "off"
        BY <1>4 DEF Check, Course, Stages
      <3> QED BY <1>1, <1>4, <3>1, UpdSteps, MoveFields
    <2>2. upd'.pc = "doing" => ~ (valid /\ store # NoRecord /\ store.version = upd.img.version)
      <3>1. SUFFICES ASSUME valid /\ store # NoRecord /\ store.version = upd.img.version
                     PROVE  upd'.pc = "result"
        BY <2>1
      <3>2. \E r : upd' = [upd EXCEPT !.pc = "result", !.rc = r]
        BY <1>4, <3>1 DEF Check
      <3> QED BY <1>1, <3>2, UpdFields
    <2> QED BY <1>1, <2>1, <2>2 DEF Recorded
  <1>5. CASE AppResult \/ PowerCut
    <2>1. upd'.pc = "idle"
      BY <1>1, <1>5, UpdSteps, MoveFields
    <2>2. main' = "off" \/ (main' = main /\ upd.pc = "result" /\ upd.rc # "ok")
      BY <1>5 DEF AppResult, PowerCut
    <2> QED BY <1>1, <2>1, <2>2 DEF Recorded
  <1>6. CASE CheckBlockSpace
    <2>1. upd.pc = "space" /\ upd.img \in Images
      BY <1>6 DEF CheckBlockSpace, Course, Stages
    <2>2. /\ upd'.pc \in {"entry", "result"} /\ upd'.img = upd.img
          /\ upd'.pc = "entry" => upd'.todo = Plan(upd.img)
      BY <1>1, <1>6, UpdSteps, MoveFields
    <2>3. upd.img.ignore => Plan(upd.img) # <<>>
      BY <2>1, StoreIsLast
    <2> QED BY <1>1, <2>1, <2>2, <2>3 DEF Recorded
  <1>7. CASE FailEntry
    <2>1. upd.pc \in {"entry", "writing"}
      BY <1>7 DEF FailEntry
    <2>2. upd'.pc = "entry" /\ upd'.rc = "upgrade"
      BY <1>1, <1>7, UpdSteps, MoveFields
    <2> QED BY <1>1, <2>1, <2>2 DEF Recorded
  <1> QED BY <1>2, <1>3, <1>4, <1>5, <1>6, <1>7

\* The steps by which the boot loader or the application uses the record.
LEMMA BootRecorded ==
  ASSUME Course, Recorded, PowerOn \/ Launch \/ Result \/ AppReboot \/ NoFirmware
  PROVE  Recorded'
  <1>1. upd \in Updates /\ UNCHANGED installed
    BY DEF Course, TypeOK, PowerOn, Launch, Result, AppReboot, NoFirmware
  <1>2. CASE PowerOn \/ (Launch /\ flash[FirmPart] # Torn)
    <2>1. store' \in kept /\ kept' = {store'} /\ valid' = TRUE
      BY <1>2 DEF PowerOn, Launch
    <2>2. upd'.pc = "idle"
      <3>1. CASE PowerOn
        BY <1>1, <3>1, UpdSteps DEF PowerOn, Course, Stages
      <3>2. CASE Launch /\ flash[FirmPart] # Torn
        BY <3>2 DEF Launch, Idle
      <3> QED BY <1>2, <3>1, <3>2
    <2> QED BY <1>1, <2>1, <2>2 DEF Recorded
  <1>3. CASE Launch /\ flash[FirmPart] = Torn
    <2>1. UNCHANGED <<store, valid, kept, upd>> /\ main = "launch"
      BY <1>3 DEF Launch
    <2> QED BY <1>1, <2>1 DEF Recorded, Shipped
  <1>4. CASE Result \/ AppReboot \/ NoFirmware
    <2>1. /\ upd'.pc = "idle" /\ valid' = valid
          /\ upd.pc = "result" \/ (upd.pc = "idle" /\ main # "off")
      <3>1. CASE Result
        BY <1>1, <3>1, UpdSteps, MoveFields DEF Result
      <3>2. CASE AppReboot \/ NoFirmware
        BY <1>1, <3>2 DEF AppReboot, NoFirmware
      <3> QED BY <1>4, <3>1, <3>2
    <2>2. upd.pc = "result" /\ upd.rc = "ok" => main' = "off"
      BY <1>4 DEF Result, AppReboot, NoFirmware
    <2>3. \/ UNCHANGED <<store, kept>>
          \/ valid /\ store = NoRecord /\ Logged(Zeroed)
          \/ valid /\ store # NoRecord /\ \E b \in BOOLEAN : Logged([store EXCEPT !.modes = b])
      BY <1>4 DEF Result, AppReboot, NoFirmware
    <2>4. CASE UNCHANGED <<store, kept>>
      <3>1. main # "off"
        BY <2>1 DEF Course, Stages
      <3> QED BY <1>1, <2>1, <2>2, <2>4, <3>1 DEF Recorded
    <2>5. CASE valid /\ store = NoRecord /\ Logged(Zeroed)
      <3>1. kept = {store} /\ ~ (installed # NoImage /\ Labelled(installed))
        BY <2>5 DEF Recorded
      <3>2. kept' = {store'}
        BY <2>5, <3>1, LoggedAlone
      <3>3. valid' /\ installed' = installed
        BY <1>1, <2>1, <2>5
      <3> QED BY <2>1, <3>1, <3>2, <3>3 DEF Recorded, Labelled
    <2>6. CASE valid /\ store # NoRecord /\ \E b \in BOOLEAN : Logged([store EXCEPT !.modes = b])
      <3>1. PICK b \in BOOLEAN : Logged([store EXCEPT !.modes = b])
        BY <2>6
      <3>2. kept = {store}
        BY <2>6 DEF Recorded
      <3>3. store' = [store EXCEPT !.modes = b] /\ kept' = {store'}
        BY <3>1, <3>2, LoggedAlone
      <3>4. store'.version = store.version /\ store' # NoRecord
        BY <2>6, <3>3, VersionKept, Zenon DEF Course
      <3> QED BY <1>1, <2>1, <2>6, <3>2, <3>3, <3>4 DEF Recorded
    <2> QED BY <2>3, <2>4, <2>5, <2>6
  <1> QED BY <1>2, <1>3, <1>4

\* The start of an update forgets what was installed.
LEMMA SetDoingRecorded == ASSUME StoreBrought, Course, Recorded, SetDoing PROVE Recorded'
  <1>1. upd \in Updates /\ upd.pc = "doing" /\ upd.img \in Images /\ installed' = NoImage
    BY DEF Course, TypeOK, Stages, SetDoing
  <1>2. CASE valid /\ store = NoRecord
    <2>1. UNCHANGED <<upd, valid>> /\ Logged(Zeroed) /\ kept = {store}
      BY <1>2 DEF SetDoing, Recorded
    <2>2. kept' = {store'} /\ store' = Zeroed
      BY <2>1, LoggedAlone
    <2>3. store'.version # upd.img.version
      BY <1>1, <2>2, RecordTypes DEF Zeroed
    <2> QED BY <1>1, <1>2, <2>1, <2>2, <2>3 DEF Recorded
  <1>3. CASE ~(valid /\ store = NoRecord)
    <2>1. /\ valid' => valid
          /\ valid => Logged([store EXCEPT !.doing = TRUE])
      BY <1>3 DEF SetDoing
    <2>2. valid' => kept' = {store'}
      BY <2>1, LoggedAlone DEF Recorded
    <2>3. upd'.pc \in {"erase", "space"}
      <3>1. SetDoing => upd' = [upd EXCEPT !.pc = IF upd.img.erase THEN "erase" ELSE "space",
                                   !.was = [e \in Range(Backups(upd.img)) |-> flash[e.from]]]
        BY <1>3 DEF SetDoing
      <3>2. upd'.pc = IF upd.img.erase THEN "erase" ELSE "space"
        BY <1>1, <3>1, UpdFields
      <3> QED BY <3>2
    <2> QED BY <1>1, <2>2, <2>3 DEF Recorded
  <1> QED BY <1>2, <1>3

\* The flash is erased and written under a driver that answers only if the
\* store is not among the entries.
LEMMA FlashRecorded ==
  ASSUME StoreBrought, Course, Recorded, EraseChip \/ BeginEntry \/ EndEntry
  PROVE  Recorded'
  <1>1. upd \in Updates /\ upd.todo \in Seq(Entries)
    BY DEF Course, TypeOK, Updates
  <1>2. /\ upd.pc \in {"erase", "entry", "writing"} /\ upd.img \in Images /\ installed = NoImage
        /\ UNCHANGED <<store, valid, installed>>
    <2>1. upd.pc \in {"erase", "entry", "writing"} /\ UNCHANGED <<store, valid, installed>>
      BY DEF EraseChip, BeginEntry, EndEntry
    <2> QED BY <2>1 DEF Course, Stages, Recorded
  <1>3. CASE EraseChip
    <2>1. upd.pc = "erase" /\ upd'.pc \in {"erase", "space"}
      BY <1>1, <1>3, UpdSteps, MoveFields DEF EraseChip
    <2>2. ~valid
      <3>1. upd.img.erase
        BY <2>1 DEF Course, Stages
      <3>2. upd.img.ignore
        BY <1>2, <3>1, StoreIsLast
      <3> QED BY <2>1, <3>2 DEF Course, Stages
    <2> QED BY <1>2, <2>1, <2>2 DEF Recorded
  <1>4. CASE BeginEntry \/ EndEntry
    <2>1. /\ InLoop /\ upd.todo # <<>> /\ upd'.img = upd.img
          /\ BeginEntry => upd'.pc = "writing"
          /\ EndEntry => upd'.pc = "entry" /\ upd'.todo = Tail(upd.todo)
      <3>1. InLoop /\ upd.todo # <<>>
        BY <1>4 DEF BeginEntry, EndEntry, InLoop, Course, Planned
      <3> QED BY <1>1, <1>4, <3>1, UpdSteps, MoveFields
    <2>2. /\ Head(upd.todo) = Plan(upd.img)[Done + 1] /\ Done + 1 \in DOMAIN Plan(upd.img)
          /\ Len(upd.todo) = 1 <=> Done + 1 = Len(Plan(upd.img))
      BY <1>1, <2>1, HeadOf DEF Course
    <2>3. valid => UNCHANGED kept
      <3>1. CASE Head(upd.todo).to = Store
        <4>1. upd.img.ignore
          BY <1>2, <2>2, <3>1, PlanProperties
        <4> QED BY <2>1, <4>1 DEF Course, Stages, InLoop
      <3>2. CASE Head(upd.todo).to # Store
        BY <1>4, <3>2 DEF BeginEntry, EndEntry
      <3> QED BY <3>1, <3>2
    <2>4. ASSUME EndEntry, upd'.todo = <<>>, upd.img.ignore
          PROVE  kept' = {Shipped(upd.img)}
      <3>1. Len(upd.todo) = 1
        <4> DEFINE t == upd.todo
        <4>1. t \in Seq(Entries) /\ t # <<>> /\ Tail(t) = <<>>
          BY <1>1, <2>1, <2>4
        <4> HIDE DEF t
        <4>2. Len(t) \in Nat \ {0} /\ Len(Tail(t)) = Len(t) - 1
          BY <4>1
        <4>3. Len(Tail(t)) = Len(<<>>)
          BY <4>1, Zenon
        <4>4. \A n, m : n \in Nat /\ m = n - 1 /\ m = Len(<<>>) => n = 1
          OBVIOUS
        <4>5. Len(t) = 1
          BY <4>2, <4>3, <4>4, Zenon
        <4> QED BY <4>5 DEF t
      <3>2. Head(upd.todo).to = Store
        BY <1>2, <2>2, <2>4, <3>1, StoreIsLast
      <3> QED BY <2>4, <3>2 DEF EndEntry
    <2>5. Shipped(upd.img)' = Shipped(upd.img)
      BY <2>1 DEF Shipped
    <2>6. CASE BeginEntry
      BY <1>2, <2>1, <2>3, <2>6 DEF Recorded
    <2>7. CASE EndEntry
      BY <1>2, <2>1, <2>3, <2>4, <2>5, <2>7 DEF Recorded
    <2> QED BY <1>4, <2>6, <2>7
  <1> QED BY <1>3, <1>4

\* The version is recorded by the store of the image, or by a node call.
LEMMA EndRecorded ==
  ASSUME StoreBrought, Course, Recorded, ClearDoing \/ SetVersion PROVE Recorded'
  <1>1. upd \in Updates /\ upd.img \in Images /\ installed = NoImage /\ UNCHANGED <<valid, main>>
        /\ (valid => store # NoRecord)
    <2>1. upd.pc \in {"entry", "version"} /\ UNCHANGED <<valid, main>>
      BY DEF ClearDoing, SetVersion
    <2> QED BY <2>1 DEF Course, TypeOK, Stages, Recorded
  <1>2. CASE ClearDoing
    <2>1. /\ upd.pc = "entry" /\ upd.todo = <<>> /\ upd'.rc = upd.rc
          /\ upd'.pc = IF upd.rc = "ok" /\ ~upd.img.ignore THEN "version" ELSE "result"
      BY <1>1, <1>2, UpdSteps, MoveFields DEF ClearDoing
    <2>2. valid => kept' = {store'}
      <3>1. \/ UNCHANGED <<store, kept>>
            \/ \E s : Logged(s)
        BY <1>2 DEF ClearDoing
      <3> QED BY <3>1, LoggedAlone DEF Recorded
    <2>3. CASE upd.rc = "ok" /\ upd.img.ignore
      <3>1. ~valid /\ kept = {Shipped(upd.img)}
        BY <2>1, <2>3 DEF Course, Stages, Recorded
      <3>2. kept' = {Shipped(upd.img)} /\ installed' = upd.img
        BY <1>2, <2>3, <3>1 DEF ClearDoing
      <3>3. /\ Shipped(upd.img) # NoRecord
            /\ Labelled(upd.img) => Shipped(upd.img).version = upd.img.version
        <4>1. Shipped(upd.img) # NoRecord
          BY <1>1, RecordTypes
        <4> QED BY <1>1, <2>3, <4>1 DEF Shipped, Labelled, StoreBrought
      <3> QED BY <1>1, <2>1, <2>3, <3>1, <3>2, <3>3 DEF Recorded
    <2>4. CASE ~(upd.rc = "ok" /\ upd.img.ignore)
      <3>1. installed' = NoImage
        BY <1>1, <1>2, <2>4 DEF ClearDoing
      <3> QED BY <1>1, <2>1, <2>2, <3>1 DEF Recorded
    <2> QED BY <2>3, <2>4
  <1>3. CASE SetVersion
    <2>1. upd'.pc = "result"
      BY <1>1, <1>3, UpdSteps, MoveFields
    <2>2. CASE valid
      <3>1. /\ Logged([store EXCEPT !.version = upd.img.version]) /\ installed' = upd.img
            /\ kept = {store}
        BY <1>3, <2>2 DEF SetVersion, Recorded
      <3>2. store' = [store EXCEPT !.version = upd.img.version] /\ kept' = {store'}
        BY <3>1, LoggedAlone
      <3>3. store'.version = upd.img.version /\ store' # NoRecord
        <4>1. upd.img.version \in Versions
          BY <1>1, RecordTypes
        <4> QED BY <1>1, <2>2, <3>2, <4>1, VersionKept, Zenon DEF Course
      <3> QED BY <1>1, <2>1, <2>2, <3>1, <3>2, <3>3 DEF Recorded
    <2>3. CASE ~valid
      <3>1. installed' = NoImage
        BY <1>1, <1>3, <2>3 DEF SetVersion
      <3> QED BY <1>1, <2>1, <2>3, <3>1 DEF Recorded
    <2> QED BY <2>2, <2>3
  <1> QED BY <1>2, <1>3

\* Each step preserves the invariant of the recorded version.
LEMMA NextRecorded == ASSUME StoreBrought, Course, Recorded, [Next]_vars PROVE Recorded'
  <1>1. CASE \/ Detect \/ Timeout \/ Swap \/ UNCHANGED vars \/ Ready \/ Mounted \/ Check
             \/ \E im \in Images : AppUpdate(im)
             \/ AppResult \/ PowerCut \/ CheckBlockSpace \/ FailEntry
    <2>1. UNCHANGED <<store, valid, kept, installed>>
      BY <1>1 DEF Detect, Timeout, Swap, vars, Ready, Mounted, Check, AppUpdate, AppResult,
                  PowerCut, CheckBlockSpace, FailEntry
    <2> QED BY <1>1, <2>1, QuietRecorded
  <1>2. CASE PowerOn \/ Launch \/ Result \/ AppReboot \/ NoFirmware
    BY <1>2, BootRecorded
  <1>3. CASE SetDoing \/ EraseChip \/ BeginEntry \/ EndEntry \/ ClearDoing \/ SetVersion
    BY <1>3, SetDoingRecorded, FlashRecorded, EndRecorded
  <1>4. CASE \E im \in Images : AppUpdate(im)
    BY <1>1, <1>4
  <1>5. CASE Internal
    BY <1>1, <1>3, <1>5 DEF Internal
  <1>6. CASE Boot
    BY <1>1, <1>2, <1>6 DEF Boot
  <1> QED BY <1>1, <1>2, <1>4, <1>5, <1>6 DEF Next

\* An image that was installed last is not installed again, nor one of its
\* version, whatever power cuts and failures there were, unless it came with a
\* persistent memory of another version.  For images that bring a store if they
\* erase the one there is.
THEOREM NeverSecondTime == StoreBrought => (Spec => NoSecondTime)
  <1> SUFFICES ASSUME StoreBrought PROVE Spec => NoSecondTime
    OBVIOUS
  <1>1. Init => Recorded
    BY DEF Init, Idle, Recorded
  <1>2. Course /\ Recorded /\ [Next]_vars => Recorded'
    BY NextRecorded
  <1>3. Course /\ Recorded
           => [/\ upd.pc = "doing" /\ upd'.pc # "doing"
               /\ installed # NoImage /\ Labelled(installed)
               => installed.version # upd.img.version]_vars
    <2> SUFFICES ASSUME Course, Recorded, upd.pc = "doing", installed # NoImage,
                        Labelled(installed), installed.version = upd.img.version
                 PROVE  FALSE
      OBVIOUS
    <2>1. main # "off"
      BY DEF Course, Stages
    <2> QED BY <2>1 DEF Recorded
  <1> QED BY <1>1, <1>2, <1>3, CourseKept, PTL DEF Spec, NoSecondTime

-----------------------------------------------------------------------------
(* What is moved arrives.                                                  *)

\* Two entries of the plan are two entries of the image.
LEMMA PlanApart ==
  ASSUME MovesApart, NEW im \in Images,
         NEW j \in DOMAIN Plan(im), NEW k \in DOMAIN Plan(im), j < k
  PROVE  Plan(im)[j].to # Plan(im)[k].to
  <1> DEFINE s == im.entries
             T == [to : Parts \cup {Store}, from : Parts \cup {NoImage}]
             M == {e \in Range(s) : e.from # NoImage}
             U == {e \in Range(s) : e.from = NoImage}
             b == Backups(im)
             u == Upgrades(im)
  <1>1. s \in Seq(T)
    BY ImagesAssumption
  <1>2. b = Keep(s, M) /\ u = Keep(s, U)
    BY DEF Backups, Upgrades
  <1>3. Range(b) = M /\ Range(u) = U
    BY BackupsOf
  <1>4. \A m, n \in DOMAIN s : m # n => s[m].to # s[n].to
    BY DEF MovesApart
  <1>5. \A e \in M, f \in U : e # f /\ e \in Range(s) /\ f \in Range(s)
    OBVIOUS
  <1> HIDE DEF s, T, M, U
  <1>6. b \in Seq(T) /\ u \in Seq(T)
    BY <1>1, <1>2, KeepProperties
  <1>7. /\ \A m, n \in DOMAIN b : m < n => b[m].to # b[n].to
        /\ \A m, n \in DOMAIN u : m < n => u[m].to # u[n].to
    <2>1. ASSUME NEW A, NEW m \in DOMAIN Keep(s, A), NEW n \in DOMAIN Keep(s, A), m < n
          PROVE  Keep(s, A)[m].to # Keep(s, A)[n].to
      <3>1. PICK x, y \in DOMAIN s : x < y /\ s[x] = Keep(s, A)[m] /\ s[y] = Keep(s, A)[n]
        BY <1>1, <2>1, KeepOrder
      <3>2. x # y
        BY <1>1, <3>1
      <3> QED BY <1>4, <3>1, <3>2
    <2> QED BY <1>2, <2>1
  <1>8. ASSUME NEW m \in DOMAIN b, NEW n \in DOMAIN u PROVE b[m].to # u[n].to
    <2>1. b[m] \in M /\ u[n] \in U
      BY <1>3 DEF Range
    <2>2. PICK x, y \in DOMAIN s : s[x] = b[m] /\ s[y] = u[n]
      BY <1>5, <2>1 DEF Range
    <2> QED BY <1>4, <1>5, <2>1, <2>2
  <1> HIDE DEF b, u
  <1>9. /\ DOMAIN Plan(im) = 1 .. Len(b) + Len(u) /\ Len(b) \in Nat /\ Len(u) \in Nat
        /\ DOMAIN b = 1 .. Len(b) /\ DOMAIN u = 1 .. Len(u)
        /\ \A n \in 1 .. Len(b) : Plan(im)[n] = b[n]
        /\ \A n \in 1 .. Len(b) + Len(u) : n > Len(b) => Plan(im)[n] = u[n - Len(b)]
    BY <1>6 DEF Plan, b, u
  <1>10. CASE k <= Len(b)
    <2>1. j \in DOMAIN b /\ k \in DOMAIN b
      BY <1>9, <1>10
    <2> QED BY <1>7, <1>9, <2>1
  <1>11. CASE k > Len(b) /\ j <= Len(b)
    <2>1. j \in DOMAIN b /\ k - Len(b) \in DOMAIN u
      BY <1>9, <1>11
    <2> QED BY <1>8, <1>9, <1>11, <2>1
  <1>12. CASE j > Len(b)
    <2>1. j - Len(b) \in DOMAIN u /\ k - Len(b) \in DOMAIN u /\ j - Len(b) < k - Len(b)
      BY <1>9, <1>12
    <2>2. Plan(im)[j] = u[j - Len(b)] /\ Plan(im)[k] = u[k - Len(b)]
      BY <1>9, <1>12
    <2> QED BY <1>7, <2>1, <2>2
  <1> QED BY <1>9, <1>10, <1>11, <1>12

\* The backups of an image are those of its plan.
LEMMA PlanBackups ==
  ASSUME NEW im \in Images
  PROVE  /\ \A j \in DOMAIN Plan(im) : Plan(im)[j].from # NoImage => Plan(im)[j] \in Range(Backups(im))
         /\ \A e \in Range(Backups(im)) : /\ e.from # NoImage
                                          /\ \E j \in DOMAIN Plan(im) : Plan(im)[j] = e
  <1>1. Range(Plan(im)) = Range(im.entries)
    BY PlanProperties
  <1>2. Range(Backups(im)) = {e \in Range(im.entries) : e.from # NoImage}
    BY BackupsOf
  <1>3. \A j \in DOMAIN Plan(im) : Plan(im)[j] \in Range(Plan(im))
    BY DEF Range
  <1>4. \A e \in Range(Plan(im)) : \E j \in DOMAIN Plan(im) : Plan(im)[j] = e
    BY DEF Range
  <1> QED BY <1>1, <1>2, <1>3, <1>4

\* The partition an entry writes holds the data of no other backup.
LEMMA NotOverwritten ==
  ASSUME MovesApart, Course, InLoop, upd.todo # <<>>,
         NEW j \in DOMAIN Plan(upd.img), Plan(upd.img)[j].from # NoImage
  PROVE  /\ Place(Plan(upd.img)[j], j, Done) # Head(upd.todo).to
         /\ Place(Plan(upd.img)[j], j, Done) \in Parts
         /\ j # Done + 1 => /\ Place(Plan(upd.img)[j], j, Done + 1) # Head(upd.todo).to
                            /\ Place(Plan(upd.img)[j], j, Done + 1) = Place(Plan(upd.img)[j], j, Done)
  <1> DEFINE p == Plan(upd.img)
             n == Done
             e == p[j]
             h == Head(upd.todo)
  <1>1. upd \in Updates /\ upd.img \in Images
    BY DEF Course, TypeOK, Stages, InLoop
  <1>2. n + 1 \in DOMAIN p /\ h = p[n + 1] /\ n \in Nat
    BY <1>1, HeadOf DEF Course, Planned
  <1>3. /\ \A k, l \in DOMAIN p : k < l => p[k].to # p[l].to
        /\ \A k, l \in DOMAIN p : k < l /\ p[k].from = NoImage => p[l].from = NoImage
    BY <1>1, PlanApart, PlanProperties
  <1>4. /\ DOMAIN p \subseteq Nat
        /\ e.to \in Parts \cup {Store} /\ e.from \in Parts \cup {NoImage}
        /\ e.to = Store => e.from = NoImage
    <2>1. p \in Seq(Entries) /\ e.to \in Parts \cup {Store} /\ e.from \in Parts \cup {NoImage}
          /\ (e.to = Store => e.from = NoImage)
      BY <1>1, PlanProperties
    <2> HIDE DEF p
    <2> QED BY <2>1
  <1>5. h.from # NoImage => h.to # e.from
    BY <1>1, <1>2, PlanBackups DEF MovesApart
  <1> HIDE DEF p, n, e, h
  <1>6. e.from # NoImage /\ j \in DOMAIN p /\ e = p[j]
    BY DEF p, e
  <1>7. CASE j <= n
    <2>1. e.to # h.to
      BY <1>2, <1>3, <1>4, <1>6, <1>7
    <2>2. Place(e, j, n) = e.to /\ Place(e, j, n + 1) = e.to
      BY <1>2, <1>4, <1>6, <1>7 DEF Place
    <2> QED BY <1>4, <1>6, <2>1, <2>2 DEF p, n, e, h
  <1>8. CASE j > n
    <2>1. h.from # NoImage
      BY <1>2, <1>3, <1>4, <1>6, <1>8
    <2>2. Place(e, j, n) = e.from /\ (j # n + 1 => Place(e, j, n + 1) = e.from)
      BY <1>2, <1>4, <1>6, <1>8 DEF Place
    <2> QED BY <1>4, <1>5, <1>6, <2>1, <2>2 DEF p, n, e, h
  <1> QED BY <1>2, <1>4, <1>6, <1>7, <1>8

\* The steps of the loop keep the backups in place.
LEMMA NextInPlace ==
  ASSUME MovesApart, Course, Backed, InPlace, [Next]_vars PROVE InPlace'
  <1> SUFFICES ASSUME InLoop', upd'.rc = "ok" PROVE InPlace'
    BY DEF InPlace
  <1>1. upd \in Updates /\ flash \in [Parts -> Content]
    BY DEF Course, TypeOK
  <1> DEFINE p == Plan(upd.img)
  <1>2. CASE upd.pc = "space" /\ UNCHANGED flash /\ Goes("entry", Plan(upd.img), upd.rc, upd.was)
    <2>1. upd'.img = upd.img /\ upd'.todo = p /\ upd'.was = upd.was /\ upd.img \in Images
      BY <1>2, MoveFields DEF Course, Stages
    <2>2. p \in Seq(Entries)
      BY <2>1, PlanProperties
    <2>3. Done' = 0 /\ DOMAIN p \subseteq Nat \ {0}
      BY <2>1, <2>2 DEF Done
    <2>4. ASSUME NEW j \in DOMAIN p, p[j].from # NoImage
          PROVE  flash[Place(p[j], j, 0)] = upd.was[p[j]]
      <3>1. p[j] \in Range(Backups(upd.img))
        BY <2>1, <2>4, PlanBackups
      <3>2. flash[p[j].from] = upd.was[p[j]]
        BY <1>2, <3>1 DEF Backed
      <3>3. Place(p[j], j, 0) = p[j].from
        BY <2>3 DEF Place
      <3> QED BY <3>2, <3>3
    <2> QED BY <1>2, <2>1, <2>3, <2>4 DEF InPlace, Place
  <1>3. CASE BeginEntry
    <2>1. /\ upd'.img = upd.img /\ upd'.todo = upd.todo /\ upd'.was = upd.was /\ upd.todo # <<>>
          /\ InLoop /\ upd.rc = "ok"
      BY <1>1, <1>3, UpdSteps, MoveFields DEF BeginEntry, InLoop
    <2>2. Done' = Done
      BY <2>1 DEF Done
    <2>3. \A q \in Parts : q # Head(upd.todo).to => flash'[q] = flash[q]
      BY <1>1, <1>3 DEF BeginEntry
    <2>4. ASSUME NEW j \in DOMAIN p, p[j].from # NoImage
          PROVE  flash'[Place(p[j], j, Done)] = upd.was[p[j]]
      <3>1. flash[Place(p[j], j, Done)] = upd.was[p[j]]
        BY <2>1, <2>4 DEF InPlace
      <3>2. Place(p[j], j, Done) # Head(upd.todo).to /\ Place(p[j], j, Done) \in Parts
        BY <2>1, <2>4, NotOverwritten
      <3> QED BY <2>3, <3>1, <3>2
    <2> QED BY <2>1, <2>2, <2>4 DEF InPlace, Place
  <1>4. CASE EndEntry \/ FailEntry
    <2>1. /\ InLoop /\ upd'.img = upd.img /\ upd.todo # <<>> /\ upd'.was = upd.was
          /\ upd.rc = "ok" /\ EndEntry /\ Done \in Nat /\ Done' = Done + 1
      BY <1>4, EntryDone DEF Course
    <2> DEFINE e == Head(upd.todo)
    <2>2. e = p[Done + 1] /\ Done + 1 \in DOMAIN p
      BY <1>1, <2>1, HeadOf DEF Course
    <2>3. /\ \A q \in Parts : q # e.to => flash'[q] = flash[q]
          /\ e.from # NoImage /\ e.to \in Parts => flash'[e.to] = flash[e.from]
      BY <1>1, <2>1 DEF EndEntry
    <2>4. ASSUME NEW j \in DOMAIN p, p[j].from # NoImage
          PROVE  flash'[Place(p[j], j, Done + 1)] = upd.was[p[j]]
      <3>1. flash[Place(p[j], j, Done)] = upd.was[p[j]]
        BY <2>1, <2>4 DEF InPlace
      <3>2. CASE j = Done + 1
        <4>1. Place(p[j], j, Done) = e.from /\ Place(p[j], j, Done + 1) = e.to
          BY <2>1, <2>2, <3>2 DEF Place
        <4>2. e.to \in Parts
          <5>1. e.to # Store
            BY <2>1, <2>2, <2>4, <3>2, PlanProperties DEF Course, Stages, InLoop
          <5> QED BY <1>1, <2>1, <5>1, HeadOf DEF Course
        <4> QED BY <2>2, <2>3, <2>4, <3>1, <3>2, <4>1, <4>2
      <3>3. CASE j # Done + 1
        <4>1. /\ Place(p[j], j, Done) # e.to /\ Place(p[j], j, Done) \in Parts
              /\ Place(p[j], j, Done + 1) = Place(p[j], j, Done)
          BY <2>1, <2>4, <3>3, NotOverwritten
        <4> QED BY <2>3, <3>1, <4>1
      <3> QED BY <3>2, <3>3
    <2> QED BY <2>1, <2>4 DEF InPlace, Place
  <1>5. CASE InLoop /\ UNCHANGED <<upd, flash>>
    BY <1>5 DEF InPlace, Place, Done, InLoop
  <1> QED BY <1>2, <1>3, <1>4, <1>5, LoopSteps DEF Course

\* Until the loop begins nothing that is to move is touched; behind it all has
\* arrived.
LEMMA NextBacked ==
  ASSUME MovesApart, Course, Backed, InPlace, [Next]_vars PROVE Backed'
  <1>1. upd \in Updates /\ flash \in [Parts -> Content]
    BY DEF Course, TypeOK
  <1>2. ASSUME UNCHANGED <<upd, flash>> PROVE Backed'
    BY <1>2 DEF Backed, MovedKept
  <1>3. ASSUME ~ (upd'.pc = "space" \/ (upd'.pc \in {"version", "result"} /\ upd'.rc = "ok"))
        PROVE  Backed'
    BY <1>3 DEF Backed, MovedKept
  <1>4. CASE PowerOn \/ Detect \/ Timeout \/ AppReboot \/ Swap \/ NoFirmware \/ UNCHANGED vars
    <2>1. UNCHANGED <<upd, flash>>
      <3>1. UNCHANGED upd
        BY <1>1, <1>4, UpdSteps
      <3>2. UNCHANGED flash
        BY <1>4 DEF PowerOn, Detect, Timeout, AppReboot, Swap, NoFirmware, vars
      <3> QED BY <3>1, <3>2
    <2> QED BY <1>2, <2>1
  <1>5. CASE Mounted \/ (\E im \in Images : AppUpdate(im)) \/ Ready \/ Check
    <2>1. upd'.pc \in {"found", "check", "doing"} \/ (upd'.pc = "result" /\ upd'.rc # "ok")
      BY <1>1, <1>5, UpdSteps, MoveFields
    <2> QED BY <1>3, <2>1
  <1>6. CASE Result \/ AppResult \/ PowerCut \/ Launch
    <2>1. CASE UNCHANGED upd
      <3>1. UNCHANGED flash
        BY <1>6 DEF Result, AppResult, PowerCut, Launch
      <3> QED BY <1>2, <2>1, <3>1
    <2>2. CASE ~UNCHANGED upd
      <3>1. upd'.pc = "idle"
        BY <1>1, <1>6, <2>2, UpdSteps, MoveFields
      <3> QED BY <1>3, <3>1
    <2> QED BY <2>1, <2>2
  <1>7. CASE SetDoing
    <2>1. CASE UNCHANGED upd
      BY <1>2, <1>7, <2>1 DEF SetDoing
    <2>2. CASE ~UNCHANGED upd
      <3> DEFINE w == [e \in Range(Backups(upd.img)) |-> flash[e.from]]
      <3>1. Goes(IF upd.img.erase THEN "erase" ELSE "space", upd.todo, upd.rc, w)
        BY <1>1, <1>7, <2>2, UpdSteps
      <3>2. UNCHANGED flash
        BY <1>7 DEF SetDoing
      <3>3. upd'.pc \in {"erase", "space"} /\ upd'.img = upd.img /\ upd'.was = w
        <4> HIDE DEF w
        <4> QED BY <3>1, MoveFields
      <3>4. \A e \in Range(Backups(upd'.img)) : flash'[e.from] = upd'.was[e]
        BY <3>2, <3>3
      <3> QED BY <3>3, <3>4 DEF Backed, MovedKept
    <2> QED BY <2>1, <2>2
  <1>8. CASE EraseChip
    <2>1. upd.pc = "erase"
      BY <1>8 DEF EraseChip
    <2>2. upd'.pc \in {"erase", "space"} /\ upd'.img = upd.img
      BY <1>1, <1>8, <2>1, UpdSteps, MoveFields
    <2>3. upd.img \in Images /\ upd.img.erase
      BY <2>1 DEF Course, Stages
    <2>4. Range(Backups(upd'.img)) = {}
      BY <2>2, <2>3 DEF MovesApart
    <2> QED BY <2>2, <2>4 DEF Backed, MovedKept
  <1>9. CASE CheckBlockSpace \/ BeginEntry \/ EndEntry \/ FailEntry
    <2>1. upd'.pc \in {"entry", "writing"} \/ (upd'.pc = "result" /\ upd'.rc # "ok")
      BY <1>1, <1>9, UpdSteps, MoveFields
    <2> QED BY <1>3, <2>1
  <1>10. CASE ClearDoing
    <2>1. /\ InLoop /\ upd.todo = <<>> /\ UNCHANGED flash /\ upd'.img = upd.img
          /\ upd'.rc = upd.rc /\ upd'.was = upd.was /\ upd'.pc \in {"version", "result"}
      <3>1. InLoop /\ upd.todo = <<>> /\ UNCHANGED flash
        BY <1>10 DEF ClearDoing, InLoop
      <3> QED BY <1>1, <1>10, <3>1, UpdSteps, MoveFields
    <2>2. ASSUME upd.rc = "ok", NEW e \in Range(Backups(upd.img))
          PROVE  flash[e.to] = upd.was[e]
      <3> DEFINE p == Plan(upd.img)
      <3>1. upd.img \in Images
        BY <2>1 DEF Course, Stages, InLoop
      <3>2. PICK j \in DOMAIN p : p[j] = e /\ e.from # NoImage
        BY <2>2, <3>1, PlanBackups
      <3>3. Len(p) \in Nat /\ DOMAIN p = 1 .. Len(p)
        BY <3>1, PlanProperties
      <3>4. Done = Len(p)
        BY <2>1, <3>3 DEF Done
      <3>5. flash[Place(e, j, Done)] = upd.was[e]
        BY <2>1, <2>2, <3>2 DEF InPlace
      <3>6. Place(e, j, Done) = e.to
        BY <3>2, <3>3, <3>4 DEF Place
      <3> QED BY <3>5, <3>6
    <2> QED BY <2>1, <2>2 DEF Backed, MovedKept
  <1>11. CASE SetVersion
    <2>1. upd.pc = "version" /\ UNCHANGED flash
      BY <1>11 DEF SetVersion
    <2>2. upd'.pc = "result" /\ upd'.img = upd.img /\ upd'.rc = upd.rc /\ upd'.was = upd.was
      BY <1>1, <1>11, UpdSteps, MoveFields
    <2> QED BY <2>1, <2>2 DEF Backed, MovedKept
  <1>12. CASE \E im \in Images : AppUpdate(im)
    BY <1>5, <1>12
  <1>13. CASE Internal
    BY <1>5, <1>7, <1>8, <1>9, <1>10, <1>11, <1>13 DEF Internal
  <1>14. CASE Boot
    BY <1>4, <1>5, <1>6, <1>14 DEF Boot
  <1> QED BY <1>4, <1>5, <1>6, <1>12, <1>13, <1>14 DEF Next

\* What a successful update has moved is what was there when it began: for
\* images that move nothing over what is still to move.
THEOREM MovesArrive == MovesApart => (Spec => []MovedKept)
  <1> SUFFICES ASSUME MovesApart PROVE Spec => []MovedKept
    OBVIOUS
  <1>1. Init => Backed /\ InPlace
    BY DEF Init, Idle, Backed, InPlace, InLoop, MovedKept
  <1>2. Course /\ Backed /\ InPlace /\ [Next]_vars => Backed' /\ InPlace'
    BY NextBacked, NextInPlace
  <1>3. Backed => MovedKept
    BY DEF Backed
  <1> QED BY <1>1, <1>2, <1>3, CourseKept, PTL DEF Spec
=============================================================================
