--------------------------- MODULE CastSceneProofs ---------------------------
(***************************************************************************)
(* For every set of cast services and of threads that restore the network: *)
(* the types, that a Miracast stopped by a switch stays asked for, and     *)
(* that the scene of a cast has Miracast off, each as far as the threads   *)
(* that restore the network let it.                                        *)
(***************************************************************************)
EXTENDS CastScene, TLAPS

\* Where a thread holds g_mira_scene_mutex.
CasterHolds ==
  {"stat", "forget", "stop", "halt", "uninit", "join", "remember", "unlock"}
RestarterHolds == Starting \cup {"clear", "done", "leave"}

Labels ==
  Switching \cup Stopping \cup Starting \cup Restarting \cup Helping
    \cup {"idle", "cast", "ending", "look", "poll", "state", "offer", "leaving"}

\* Each thread has a place, a next scene of its own and a place to go on at.
Shape ==
  /\ at \in [Threads -> Labels] /\ next \in [Threads -> Scenes]
  /\ \A t \in Casters : next[t] \in {t, "NEED_REST"} \/ at[t] = "idle"
  /\ next[Poller] = "MIRACAST"
  /\ \A t \in Listeners : next[t] = "NONE"
  /\ back \in [Listeners -> {"idle", "init", "on"}]
  /\ \A t \in Listeners : at[t] \in Hearing => (back[t] = "idle" <=> t = Library)
  /\ job \in [Helpers -> Jobs]

\* What a helper does is known, and only one that restores the access point
\* starts the service.
Works ==
  \A h \in Helpers :
    /\ at[h] # "none" => job[h] \in helped
    /\ at[h] \in Starting \cup {"stat"} => job[h] = "hostap"

Owners ==
  /\ \A t \in Casters : at[t] \in CasterHolds => holder["scene"] = t
  /\ at[Restarter] \in RestarterHolds => holder["scene"] = Restarter

\* What the holder of the mutex knows of the service, unless a helper ran.
Phases ==
  helped = {} =>
    /\ \A t \in Casters :
         /\ at[t] \in {"forget", "stop"} => started
         /\ at[t] \in {"halt", "uninit", "join", "remember"} => ~started
    /\ at[Restarter] \in Starting \ {"start"} => ~started
    /\ at[Restarter] = "done" => started

Owed == helped = {} /\ owed => need /\ ~started

\* A scene entered while Miracast runs, or is being started, has its switch
\* still to come to the stop.
Scened ==
  "hostap" \notin helped =>
    \A t \in Casters : scene = t =>
      /\ started => at[t] \in {"lock", "stat", "forget", "stop"}
      /\ at[Restarter] \in Starting => at[t] = "lock"

IInv == TypeOK /\ Shape /\ Works /\ Owners /\ Phases /\ Owed /\ Scened

\* The invariant holds at first.
LEMMA InitHolds == Init => IInv
<1> USE CastersAssumption, ThreadsAssumption
    DEF Labels, Threads, Listeners, Scenes, Casts, Plays, Mutexes, Switching, Stopping, Hearing,
        Starting, Restarting, Helping, Jobs, CasterHolds, RestarterHolds, Init
<1> SUFFICES ASSUME Init PROVE IInv
  OBVIOUS
<1>1. FlagTypes
  BY DEF FlagTypes
<1>2. PlaceTypes
  BY DEF PlaceTypes
<1>3. Shape
  BY DEF Shape
<1>4. Works
  BY DEF Works
<1>5. Owners
  BY DEF Owners
<1>6. Phases
  BY DEF Phases
<1>7. Owed
  BY DEF Owed
<1>8. Scened
  BY DEF Scened
<1> QED BY <1>1, <1>2, <1>3, <1>4, <1>5, <1>6, <1>7, <1>8 DEF IInv, TypeOK

\* Every step of a switch keeps the invariant, whoever switches.
LEMMA SwitchPreserves ==
  ASSUME IInv, NEW t \in Threads, Switch(t)
  PROVE  IInv'
<1> USE CastersAssumption, ThreadsAssumption
    DEF Labels, Threads, Listeners, Scenes, Casts, Plays, Mutexes, Switching, Stopping, Hearing,
        Starting, Restarting, Helping, Jobs, CasterHolds, RestarterHolds, Goto, Take, Give,
        flags, service, session, count
<1>1. CASE Wait(t)
  BY <1>1 DEF Wait, IInv, TypeOK, FlagTypes, PlaceTypes, Shape, Works, Owners, Phases,
     Owed, Scened
<1>2. CASE Raise(t)
  BY <1>2 DEF Raise, IInv, TypeOK, FlagTypes, PlaceTypes, Shape, Works, Owners, Phases,
     Owed, Scened
<1>3. CASE Change(t)
  BY <1>3 DEF Change, IInv, TypeOK, FlagTypes, PlaceTypes, Shape, Works, Owners, Phases,
     Owed, Scened
<1>4. CASE Lower(t)
  <2>0. /\ at[t] = "lower" /\ switching' = FALSE
        /\ UNCHANGED <<scene, flags, service, holder, next, session, count, owed>>
    BY <1>4 DEF Lower
  <2>1. CASE next[t] \in Plays
    <3>0. t \in Casters /\ playing' = playing \cup {t} /\ at' = [at EXCEPT ![t] = "cast"]
      BY <1>4, <2>1 DEF Lower, IInv, Shape
    <3>1. FlagTypes'
      BY <2>0, <3>0, ZenonT(60) DEF IInv, TypeOK, FlagTypes
    <3>2. PlaceTypes'
      BY <2>0, <2>1, <3>0 DEF IInv, TypeOK, PlaceTypes, Shape, Works
    <3>3. Shape'
      BY <2>0, <2>1, <3>0 DEF IInv, TypeOK, FlagTypes, PlaceTypes, Shape, Works
    <3>4. Works'
      BY <2>0, <2>1, <3>0 DEF IInv, TypeOK, FlagTypes, PlaceTypes, Shape, Works
    <3>5. Owners'
      BY <2>0, <2>1, <3>0 DEF IInv, TypeOK, PlaceTypes, Shape, Owners
    <3>6. Phases'
      BY <2>0, <2>1, <3>0 DEF IInv, TypeOK, FlagTypes, PlaceTypes, Shape, Works, Owners,
         Phases
    <3>7. Owed'
      BY <2>0, <2>1, <3>0 DEF IInv, TypeOK, FlagTypes, PlaceTypes, Shape, Works, Phases,
         Owed
    <3>8. Scened'
      BY <2>0, <2>1, <3>0 DEF IInv, TypeOK, FlagTypes, PlaceTypes, Shape, Works, Owners,
         Phases, Scened
    <3> QED BY <3>1, <3>2, <3>3, <3>4, <3>5, <3>6, <3>7, <3>8 DEF IInv, TypeOK
  <2>2. CASE next[t] \notin Plays
    <3>0. playing' = playing
      BY <1>4, <2>2 DEF Lower, IInv, Shape
    <3>1. FlagTypes'
      BY <2>0, <3>0, ZenonT(60) DEF IInv, TypeOK, FlagTypes
    <3>2. PlaceTypes'
      BY <1>4, <2>2, <3>0 DEF Lower, IInv, TypeOK, PlaceTypes, Shape, Works
    <3>3. Shape'
      BY <1>4, <2>2, <3>0 DEF Lower, IInv, TypeOK, FlagTypes, PlaceTypes, Shape, Works
    <3>4. Works'
      BY <1>4, <2>2, <3>0 DEF Lower, IInv, TypeOK, FlagTypes, PlaceTypes, Shape, Works
    <3>5. Owners'
      BY <1>4, <2>2, <3>0 DEF Lower, IInv, TypeOK, PlaceTypes, Shape, Owners
    <3>6. Phases'
      BY <1>4, <2>2, <3>0 DEF Lower, IInv, TypeOK, FlagTypes, PlaceTypes, Shape, Works,
         Owners, Phases
    <3>7. Owed'
      BY <1>4, <2>2, <3>0 DEF Lower, IInv, TypeOK, FlagTypes, PlaceTypes, Shape, Works,
         Phases, Owed
    <3>8. Scened'
      BY <1>4, <2>2, <3>0 DEF Lower, IInv, TypeOK, FlagTypes, PlaceTypes, Shape, Works,
         Owners, Phases, Scened
    <3> QED BY <3>1, <3>2, <3>3, <3>4, <3>5, <3>6, <3>7, <3>8 DEF IInv, TypeOK
  <2> QED BY <2>1, <2>2
<1> QED BY <1>1, <1>2, <1>3, <1>4 DEF Switch

\* Every step of a stop keeps it, of a service's under the mutex or of a helper's.
LEMMA StopPreserves ==
  ASSUME IInv, NEW t \in Casters \cup Helpers, Stop(t)
  PROVE  IInv'
<1> USE CastersAssumption, ThreadsAssumption
    DEF Labels, Threads, Listeners, Scenes, Casts, Plays, Mutexes, Switching, Stopping, Hearing,
        Starting, Restarting, Helping, Jobs, CasterHolds, RestarterHolds, Goto, Take, Give,
        flags, service, session, count
<1>1. CASE Stat(t)
  BY <1>1 DEF Stat, IInv, TypeOK, FlagTypes, PlaceTypes, Shape, Works, Owners, Phases,
     Owed, Scened
<1>2. CASE Forget(t)
  <2>1. FlagTypes'
    BY <1>2, ZenonT(60) DEF Forget, IInv, TypeOK, FlagTypes, PlaceTypes, Shape
  <2>2. PlaceTypes'
    BY <1>2 DEF Forget, IInv, TypeOK, PlaceTypes, Shape, Works
  <2>3. Shape'
    BY <1>2 DEF Forget, IInv, TypeOK, FlagTypes, PlaceTypes, Shape, Works
  <2>4. Works'
    BY <1>2 DEF Forget, IInv, TypeOK, FlagTypes, PlaceTypes, Shape, Works
  <2>5. Owners'
    BY <1>2 DEF Forget, IInv, TypeOK, PlaceTypes, Shape, Owners
  <2>6. Phases'
    BY <1>2 DEF Forget, IInv, TypeOK, FlagTypes, PlaceTypes, Shape, Works, Owners, Phases
  <2>7. Owed'
    BY <1>2 DEF Forget, IInv, TypeOK, FlagTypes, PlaceTypes, Shape, Works, Phases, Owed
  <2>8. Scened'
    BY <1>2 DEF Forget, IInv, TypeOK, FlagTypes, PlaceTypes, Shape, Works, Owners, Phases,
       Scened
  <2> QED BY <2>1, <2>2, <2>3, <2>4, <2>5, <2>6, <2>7, <2>8 DEF IInv, TypeOK
<1>3. CASE StopService(t)
  <2>1. CASE started
    <3>0. Take("svr", t) /\ started' = FALSE /\ at' = [at EXCEPT ![t] = "halt"]
      BY <1>3, <2>1 DEF StopService, Stopped
    <3>1. FlagTypes'
      BY <1>3, <2>1, <3>0, ZenonT(60) DEF StopService, Stopped, IInv, TypeOK, FlagTypes
    <3>2. PlaceTypes'
      BY <1>3, <2>1, <3>0 DEF StopService, Stopped, IInv, TypeOK, PlaceTypes, Shape, Works
    <3>3. Shape'
      BY <1>3, <2>1, <3>0 DEF StopService, Stopped, IInv, TypeOK, FlagTypes, PlaceTypes,
         Shape, Works
    <3>4. Works'
      BY <1>3, <2>1, <3>0 DEF StopService, Stopped, IInv, TypeOK, FlagTypes, PlaceTypes,
         Shape, Works
    <3>5. Owners'
      BY <1>3, <2>1, <3>0 DEF StopService, Stopped, IInv, TypeOK, PlaceTypes, Shape, Owners
    <3>6. Phases'
      BY <1>3, <2>1, <3>0 DEF StopService, Stopped, IInv, TypeOK, FlagTypes, PlaceTypes,
         Shape, Works, Owners, Phases
    <3>7. Owed'
      BY <1>3, <2>1, <3>0 DEF StopService, Stopped, IInv, TypeOK, FlagTypes, PlaceTypes,
         Shape, Works, Phases, Owed
    <3>8. Scened'
      BY <1>3, <2>1, <3>0 DEF StopService, Stopped, IInv, TypeOK, FlagTypes, PlaceTypes,
         Shape, Works, Owners, Phases, Scened
    <3> QED BY <3>1, <3>2, <3>3, <3>4, <3>5, <3>6, <3>7, <3>8 DEF IInv, TypeOK
  <2>2. CASE ~started
    <3>0. UNCHANGED <<holder, started>> /\ at' = [at EXCEPT ![t] = Stopped(t)]
      BY <1>3, <2>2 DEF StopService, Stopped
    <3>1. FlagTypes'
      BY <1>3, <2>2, <3>0 DEF StopService, Stopped, IInv, TypeOK, FlagTypes
    <3>2. PlaceTypes'
      BY <1>3, <2>2, <3>0 DEF StopService, Stopped, IInv, TypeOK, PlaceTypes, Shape, Works
    <3>3. Shape'
      BY <1>3, <2>2, <3>0 DEF StopService, Stopped, IInv, TypeOK, FlagTypes, PlaceTypes,
         Shape, Works
    <3>4. Works'
      BY <1>3, <2>2, <3>0 DEF StopService, Stopped, IInv, TypeOK, FlagTypes, PlaceTypes,
         Shape, Works
    <3>5. Owners'
      BY <1>3, <2>2, <3>0 DEF StopService, Stopped, IInv, TypeOK, PlaceTypes, Shape, Owners
    <3>6. Phases'
      BY <1>3, <2>2, <3>0 DEF StopService, Stopped, IInv, TypeOK, FlagTypes, PlaceTypes,
         Shape, Works, Owners, Phases
    <3>7. Owed'
      BY <1>3, <2>2, <3>0 DEF StopService, Stopped, IInv, TypeOK, FlagTypes, PlaceTypes,
         Shape, Works, Phases, Owed
    <3>8. Scened'
      BY <1>3, <2>2, <3>0 DEF StopService, Stopped, IInv, TypeOK, FlagTypes, PlaceTypes,
         Shape, Works, Owners, Phases, Scened
    <3> QED BY <3>1, <3>2, <3>3, <3>4, <3>5, <3>6, <3>7, <3>8 DEF IInv, TypeOK
  <2> QED BY <2>1, <2>2
<1>4. CASE Halt(t)
  BY <1>4 DEF Halt, IInv, TypeOK, FlagTypes, PlaceTypes, Shape, Works, Owners, Phases,
     Owed, Scened
<1>5. CASE Uninit(t)
  <2>1. FlagTypes'
    BY <1>5, ZenonT(60) DEF Uninit, IInv, TypeOK, FlagTypes
  <2>2. PlaceTypes'
    BY <1>5 DEF Uninit, IInv, TypeOK, PlaceTypes, Shape, Works
  <2>3. Shape'
    BY <1>5 DEF Uninit, IInv, TypeOK, FlagTypes, PlaceTypes, Shape, Works
  <2>4. Works'
    BY <1>5 DEF Uninit, IInv, TypeOK, FlagTypes, PlaceTypes, Shape, Works
  <2>5. Owners'
    BY <1>5 DEF Uninit, IInv, TypeOK, PlaceTypes, Shape, Owners
  <2>6. Phases'
    BY <1>5 DEF Uninit, IInv, TypeOK, FlagTypes, PlaceTypes, Shape, Works, Owners, Phases
  <2>7. Owed'
    BY <1>5 DEF Uninit, IInv, TypeOK, FlagTypes, PlaceTypes, Shape, Works, Phases, Owed
  <2>8. Scened'
    BY <1>5 DEF Uninit, IInv, TypeOK, FlagTypes, PlaceTypes, Shape, Works, Owners, Phases,
       Scened
  <2> QED BY <2>1, <2>2, <2>3, <2>4, <2>5, <2>6, <2>7, <2>8 DEF IInv, TypeOK
<1>6. CASE Join(t)
  BY <1>6 DEF Join, Stopped, IInv, TypeOK, FlagTypes, PlaceTypes, Shape, Works, Owners,
     Phases, Owed, Scened
<1> QED BY <1>1, <1>2, <1>3, <1>4, <1>5, <1>6 DEF Stop

\* So does what a service does besides.
LEMMA CasterPreserves ==
  ASSUME IInv,
         NEW t \in Casters,
         Lock(t) \/ Remember(t) \/ Unlock(t) \/ Begin(t) \/ Rest(t) \/ MediaStops(t) \/ End(t)
  PROVE  IInv'
<1> USE CastersAssumption, ThreadsAssumption
    DEF Labels, Threads, Listeners, Scenes, Casts, Plays, Mutexes, Switching, Stopping, Hearing,
        Starting, Restarting, Helping, Jobs, CasterHolds, RestarterHolds, Goto, Take, Give,
        flags, service, session, count
<1>1. CASE Lock(t)
  BY <1>1 DEF Lock, IInv, TypeOK, FlagTypes, PlaceTypes, Shape, Works, Owners, Phases,
     Owed, Scened
<1>2. CASE Remember(t)
  BY <1>2 DEF Remember, IInv, TypeOK, FlagTypes, PlaceTypes, Shape, Works, Owners, Phases,
     Owed, Scened
<1>3. CASE Unlock(t)
  BY <1>3 DEF Unlock, IInv, TypeOK, FlagTypes, PlaceTypes, Shape, Works, Owners, Phases,
     Owed, Scened
<1>4. CASE Begin(t)
  BY <1>4 DEF Begin, IInv, TypeOK, FlagTypes, PlaceTypes, Shape, Works, Owners, Phases,
     Owed, Scened
<1>5. CASE Rest(t)
  BY <1>5 DEF Rest, IInv, TypeOK, FlagTypes, PlaceTypes, Shape, Works, Owners, Phases,
     Owed, Scened
<1>6. CASE MediaStops(t)
  BY <1>6 DEF MediaStops, IInv, TypeOK, FlagTypes, PlaceTypes, Shape, Works, Owners,
     Phases, Owed, Scened
<1>7. CASE End(t)
  BY <1>7 DEF End, IInv, TypeOK, FlagTypes, PlaceTypes, Shape, Works, Owners, Phases, Owed,
     Scened
<1> QED BY <1>1, <1>2, <1>3, <1>4, <1>5, <1>6, <1>7

\* Whoever hears of the end of a session keeps it.
LEMMA ListenPreserves ==
  ASSUME IInv, NEW t \in Listeners, Listen(t)
  PROVE  IInv'
<1> USE CastersAssumption, ThreadsAssumption
    DEF Labels, Threads, Listeners, Scenes, Casts, Plays, Mutexes, Switching, Stopping, Hearing,
        Starting, Restarting, Helping, Jobs, CasterHolds, RestarterHolds, Goto, Take, Give,
        flags, service, session, count
<1>1. CASE Hear(t)
  BY <1>1 DEF Hear, Resume, IInv, TypeOK, FlagTypes, PlaceTypes, Shape, Works, Owners,
     Phases, Owed, Scened
<1>2. CASE Ask(t)
  BY <1>2 DEF Ask, IInv, TypeOK, FlagTypes, PlaceTypes, Shape, Works, Owners, Phases, Owed,
     Scened
<1>3. CASE Answer(t)
  <2>1. /\ at[t] = "answer"
        /\ UNCHANGED <<scene, switching, flags, started, running, playing, holder, next, back,
                      count, owed>>
    BY <1>3 DEF Answer
  <2>2. CASE /\ connected' = FALSE /\ at' = [at EXCEPT ![t] = "raise"]
             /\ UNCHANGED <<wifi, job, helped>>
    <3>1. FlagTypes'
      BY <2>1, <2>2, ZenonT(60) DEF IInv, TypeOK, FlagTypes
    <3>2. PlaceTypes'
      BY <2>1, <2>2 DEF IInv, TypeOK, PlaceTypes, Shape
    <3>3. Shape'
      BY <2>1, <2>2 DEF IInv, Shape
    <3>4. Works'
      BY <2>1, <2>2 DEF IInv, Shape, Works
    <3>5. Owners'
      BY <2>1, <2>2 DEF IInv, TypeOK, PlaceTypes, Shape, Owners
    <3>6. Phases'
      BY <2>1, <2>2 DEF IInv, TypeOK, FlagTypes, PlaceTypes, Shape, Works, Owners, Phases
    <3>7. Owed'
      BY <2>1, <2>2 DEF IInv, TypeOK, FlagTypes, PlaceTypes, Shape, Works, Phases, Owed
    <3>8. Scened'
      BY <2>1, <2>2 DEF IInv, TypeOK, FlagTypes, PlaceTypes, Shape, Works, Owners, Phases,
         Scened
    <3> QED BY <3>1, <3>2, <3>3, <3>4, <3>5, <3>6, <3>7, <3>8 DEF IInv, TypeOK
  <2>3. ASSUME NEW h \in Helpers, Help(h, "reconnect"),
               /\ wifi' = "ongoing" /\ connected' = connected
               /\ at' = [at EXCEPT ![t] = "raise", ![h] = "forget"]
        PROVE  IInv'
    <3>1. FlagTypes'
      BY <2>1, <2>3 DEF Help, IInv, TypeOK, FlagTypes
    <3>2. PlaceTypes'
      BY <2>1, <2>3 DEF Help, IInv, TypeOK, PlaceTypes, Shape
    <3>3. Shape'
      BY <2>1, <2>3 DEF Help, IInv, Shape
    <3>4. Works'
      <4>1. t # h /\ at[t] = "answer" /\ at'[t] = "raise" /\ (t \in Helpers => job'[t] = job[t])
        BY <2>1, <2>3 DEF Help, IInv, Shape
      <4>2. at'[h] = "forget" /\ job'[h] = "reconnect" /\ helped' = helped \cup {"reconnect"}
        BY <2>1, <2>3, <4>1 DEF Help, IInv, Shape
      <4>3. \A u \in Helpers \ {h, t} : at'[u] = at[u] /\ job'[u] = job[u]
        BY <2>1, <2>3, ZenonT(60) DEF Help, IInv, Shape
      <4> QED BY <4>1, <4>2, <4>3 DEF IInv, Works
    <3>5. Owners'
      BY <2>1, <2>3, ZenonT(60) DEF Help, IInv, TypeOK, PlaceTypes, Shape, Owners
    <3>6. Phases'
      BY <2>1, <2>3 DEF Help, IInv, TypeOK, FlagTypes, PlaceTypes, Shape, Works, Owners,
         Phases
    <3>7. Owed'
      BY <2>1, <2>3 DEF Help, IInv, TypeOK, FlagTypes, PlaceTypes, Shape, Works, Phases,
         Owed
    <3>8. Scened'
      BY <2>1, <2>3, ZenonT(60) DEF Help, IInv, TypeOK, FlagTypes, PlaceTypes, Shape, Works, Owners,
         Phases, Scened
    <3> QED BY <3>1, <3>2, <3>3, <3>4, <3>5, <3>6, <3>7, <3>8 DEF IInv, TypeOK
  <2>4. ASSUME NEW h \in Helpers, Help(h, "hostap"),
               /\ wifi' = wifi /\ connected' = connected
               /\ at' = [at EXCEPT ![t] = "raise", ![h] = "drop"]
        PROVE  IInv'
    <3>1. FlagTypes'
      BY <2>1, <2>4 DEF Help, IInv, TypeOK, FlagTypes
    <3>2. PlaceTypes'
      BY <2>1, <2>4 DEF Help, IInv, TypeOK, PlaceTypes, Shape
    <3>3. Shape'
      BY <2>1, <2>4, ZenonT(60) DEF Help, IInv, Shape
    <3>4. Works'
      <4>1. t # h /\ at[t] = "answer" /\ at'[t] = "raise" /\ (t \in Helpers => job'[t] = job[t])
        BY <2>1, <2>4 DEF Help, IInv, Shape
      <4>2. at'[h] = "drop" /\ job'[h] = "hostap" /\ helped' = helped \cup {"hostap"}
        BY <2>1, <2>4, <4>1 DEF Help, IInv, Shape
      <4>3. \A u \in Helpers \ {h, t} : at'[u] = at[u] /\ job'[u] = job[u]
        BY <2>1, <2>4, ZenonT(60) DEF Help, IInv, Shape
      <4> QED BY <4>1, <4>2, <4>3 DEF IInv, Works
    <3>5. Owners'
      BY <2>1, <2>4, ZenonT(60) DEF Help, IInv, TypeOK, PlaceTypes, Shape, Owners
    <3>6. Phases'
      BY <2>1, <2>4 DEF Help, IInv, TypeOK, FlagTypes, PlaceTypes, Shape, Works, Owners,
         Phases
    <3>7. Owed'
      BY <2>1, <2>4 DEF Help, IInv, TypeOK, FlagTypes, PlaceTypes, Shape, Works, Phases,
         Owed
    <3>8. Scened'
      BY <2>1, <2>4 DEF Help, IInv, TypeOK, FlagTypes, PlaceTypes, Shape, Works, Owners,
         Phases, Scened
    <3> QED BY <3>1, <3>2, <3>3, <3>4, <3>5, <3>6, <3>7, <3>8 DEF IInv, TypeOK
  <2> QED BY <1>3, <2>2, <2>3, <2>4 DEF Answer
<1>4. CASE Heard(t)
  <2>1. FlagTypes'
    BY <1>4, ZenonT(60) DEF Heard, IInv, TypeOK, FlagTypes
  <2>2. PlaceTypes'
    BY <1>4 DEF Heard, IInv, TypeOK, PlaceTypes, Shape, Works
  <2>3. Shape'
    BY <1>4 DEF Heard, IInv, TypeOK, FlagTypes, PlaceTypes, Shape, Works
  <2>4. Works'
    BY <1>4 DEF Heard, IInv, TypeOK, FlagTypes, PlaceTypes, Shape, Works
  <2>5. Owners'
    BY <1>4 DEF Heard, IInv, TypeOK, PlaceTypes, Shape, Owners
  <2>6. Phases'
    BY <1>4 DEF Heard, IInv, TypeOK, FlagTypes, PlaceTypes, Shape, Works, Owners, Phases
  <2>7. Owed'
    BY <1>4 DEF Heard, IInv, TypeOK, FlagTypes, PlaceTypes, Shape, Works, Phases, Owed
  <2>8. Scened'
    BY <1>4 DEF Heard, IInv, TypeOK, FlagTypes, PlaceTypes, Shape, Works, Owners, Phases,
       Scened
  <2> QED BY <2>1, <2>2, <2>3, <2>4, <2>5, <2>6, <2>7, <2>8 DEF IInv, TypeOK
<1>5. CASE Switch(t)
  BY <1>5, SwitchPreserves DEF Listeners, Threads
<1> QED BY <1>1, <1>2, <1>3, <1>4, <1>5 DEF Listen

\* Whoever starts the service keeps it.
LEMMA StartPreserves ==
  ASSUME IInv, NEW t \in {Restarter} \cup Helpers, Start(t)
  PROVE  IInv'
<1> USE CastersAssumption, ThreadsAssumption
    DEF Labels, Threads, Listeners, Scenes, Casts, Plays, Mutexes, Switching, Stopping, Hearing,
        Starting, Restarting, Helping, Jobs, CasterHolds, RestarterHolds, Goto, Take, Give,
        flags, service, session, count
<1>1. CASE StartService(t)
  <2>1. CASE started /\ t = Restarter
    <3>0. at' = [at EXCEPT ![t] = "done"] /\ holder' = holder
      BY <1>1, <2>1 DEF StartService
    <3>1. FlagTypes'
      BY <1>1, <2>1, <3>0 DEF StartService, IInv, TypeOK, FlagTypes
    <3>2. PlaceTypes'
      BY <1>1, <2>1, <3>0 DEF StartService, IInv, TypeOK, PlaceTypes, Shape, Works
    <3>3. Shape'
      BY <1>1, <2>1, <3>0 DEF StartService, IInv, TypeOK, FlagTypes, PlaceTypes, Shape,
         Works
    <3>4. Works'
      BY <1>1, <2>1, <3>0 DEF StartService, IInv, TypeOK, FlagTypes, PlaceTypes, Shape,
         Works
    <3>5. Owners'
      BY <1>1, <2>1, <3>0 DEF StartService, IInv, TypeOK, PlaceTypes, Shape, Owners
    <3>6. Phases'
      BY <1>1, <2>1, <3>0 DEF StartService, IInv, TypeOK, FlagTypes, PlaceTypes, Shape,
         Works, Owners, Phases
    <3>7. Owed'
      BY <1>1, <2>1, <3>0 DEF StartService, IInv, TypeOK, FlagTypes, PlaceTypes, Shape,
         Works, Phases, Owed
    <3>8. Scened'
      BY <1>1, <2>1, <3>0 DEF StartService, IInv, TypeOK, FlagTypes, PlaceTypes, Shape,
         Works, Owners, Phases, Scened
    <3> QED BY <3>1, <3>2, <3>3, <3>4, <3>5, <3>6, <3>7, <3>8 DEF IInv, TypeOK
  <2>2. CASE started /\ t # Restarter
    <3>0. at' = [at EXCEPT ![t] = "none"] /\ holder' = holder
      BY <1>1, <2>2 DEF StartService
    <3>1. FlagTypes'
      BY <1>1, <2>2, <3>0 DEF StartService, IInv, TypeOK, FlagTypes
    <3>2. PlaceTypes'
      BY <1>1, <2>2, <3>0 DEF StartService, IInv, TypeOK, PlaceTypes, Shape, Works
    <3>3. Shape'
      BY <1>1, <2>2, <3>0 DEF StartService, IInv, TypeOK, FlagTypes, PlaceTypes, Shape,
         Works
    <3>4. Works'
      BY <1>1, <2>2, <3>0 DEF StartService, IInv, TypeOK, FlagTypes, PlaceTypes, Shape,
         Works
    <3>5. Owners'
      BY <1>1, <2>2, <3>0 DEF StartService, IInv, TypeOK, PlaceTypes, Shape, Owners
    <3>6. Phases'
      BY <1>1, <2>2, <3>0 DEF StartService, IInv, TypeOK, FlagTypes, PlaceTypes, Shape,
         Works, Owners, Phases
    <3>7. Owed'
      BY <1>1, <2>2, <3>0 DEF StartService, IInv, TypeOK, FlagTypes, PlaceTypes, Shape,
         Works, Phases, Owed
    <3>8. Scened'
      BY <1>1, <2>2, <3>0 DEF StartService, IInv, TypeOK, FlagTypes, PlaceTypes, Shape,
         Works, Owners, Phases, Scened
    <3> QED BY <3>1, <3>2, <3>3, <3>4, <3>5, <3>6, <3>7, <3>8 DEF IInv, TypeOK
  <2>3. CASE ~started
    <3>0. at' = [at EXCEPT ![t] = "listen"] /\ Take("svr", t)
      BY <1>1, <2>3 DEF StartService
    <3>1. FlagTypes'
      BY <1>1, <2>3, <3>0 DEF StartService, IInv, TypeOK, FlagTypes
    <3>2. PlaceTypes'
      BY <1>1, <2>3, <3>0 DEF StartService, IInv, TypeOK, PlaceTypes, Shape, Works
    <3>3. Shape'
      BY <1>1, <2>3, <3>0 DEF StartService, IInv, TypeOK, FlagTypes, PlaceTypes, Shape,
         Works
    <3>4. Works'
      BY <1>1, <2>3, <3>0 DEF StartService, IInv, TypeOK, FlagTypes, PlaceTypes, Shape,
         Works
    <3>5. Owners'
      BY <1>1, <2>3, <3>0 DEF StartService, IInv, TypeOK, PlaceTypes, Shape, Owners
    <3>6. Phases'
      BY <1>1, <2>3, <3>0 DEF StartService, IInv, TypeOK, FlagTypes, PlaceTypes, Shape,
         Works, Owners, Phases
    <3>7. Owed'
      BY <1>1, <2>3, <3>0 DEF StartService, IInv, TypeOK, FlagTypes, PlaceTypes, Shape,
         Works, Phases, Owed
    <3>8. Scened'
      BY <1>1, <2>3, <3>0 DEF StartService, IInv, TypeOK, FlagTypes, PlaceTypes, Shape,
         Works, Owners, Phases, Scened
    <3> QED BY <3>1, <3>2, <3>3, <3>4, <3>5, <3>6, <3>7, <3>8 DEF IInv, TypeOK
  <2> QED BY <2>1, <2>2, <2>3
<1>2. CASE InitP2p(t)
  <2>0. /\ at[t] = "init" /\ running' = TRUE
        /\ UNCHANGED <<scene, switching, flags, started, connected, playing, holder, next,
                      session, count, owed>>
    BY <1>2 DEF InitP2p
  <2>1. CASE running
    <3>0. t # Poller /\ at' = [at EXCEPT ![t] = "enable"]
      BY <1>2, <2>1 DEF InitP2p, IInv, Shape
    <3>1. FlagTypes'
      BY <2>0, <2>1, <3>0 DEF IInv, TypeOK, FlagTypes
    <3>2. PlaceTypes'
      BY <2>0, <2>1, <3>0 DEF IInv, TypeOK, PlaceTypes, Shape
    <3>3. Shape'
      BY <2>0, <2>1, <3>0 DEF IInv, Shape
    <3>4. Works'
      BY <2>0, <2>1, <3>0 DEF IInv, Shape, Works
    <3>5. Owners'
      BY <2>0, <2>1, <3>0 DEF IInv, TypeOK, PlaceTypes, Shape, Owners
    <3>6. Phases'
      BY <2>0, <2>1, <3>0 DEF IInv, TypeOK, FlagTypes, PlaceTypes, Shape, Works, Owners,
         Phases
    <3>7. Owed'
      BY <2>0, <2>1, <3>0 DEF IInv, TypeOK, FlagTypes, PlaceTypes, Shape, Works, Phases,
         Owed
    <3>8. Scened'
      BY <2>0, <2>1, <3>0 DEF IInv, TypeOK, FlagTypes, PlaceTypes, Shape, Works, Owners,
         Phases, Scened
    <3> QED BY <3>1, <3>2, <3>3, <3>4, <3>5, <3>6, <3>7, <3>8 DEF IInv, TypeOK
  <2>2. CASE ~running
    <3>0. t # Poller /\ at' = [at EXCEPT ![t] = "enable", ![Poller] = "poll"]
      BY <1>2, <2>2 DEF InitP2p, IInv, Shape
    <3>1. FlagTypes'
      BY <2>0, <2>2, <3>0 DEF IInv, TypeOK, FlagTypes
    <3>2. PlaceTypes'
      <4>1. /\ at'[t] = "enable" /\ at'[Poller] = "poll"
            /\ \A u \in Threads \ {t, Poller} : at'[u] = at[u]
        BY <3>0 DEF IInv, Shape
      <4>2. \A u \in Casters \cup {Library} : at'[u] = at[u]
        BY <4>1
      <4>3. \A u \in Helpers : at'[u] \in {at[u], "enable"}
        BY <4>1
      <4>4. at'[Restarter] \in {at[Restarter], "enable"}
        BY <4>1
      <4>5. holder' = holder
        BY <2>0
      <4> QED BY <4>1, <4>2, <4>3, <4>4, <4>5 DEF IInv, TypeOK, PlaceTypes
    <3>3. Shape'
      BY <2>0, <2>2, <3>0, ZenonT(60) DEF IInv, Shape
    <3>4. Works'
      BY <2>0, <2>2, <3>0, ZenonT(60) DEF IInv, Shape, Works
    <3>5. Owners'
      BY <2>0, <2>2, <3>0, ZenonT(60) DEF IInv, TypeOK, PlaceTypes, Shape, Owners
    <3>6. Phases'
      BY <2>0, <2>2, <3>0 DEF IInv, TypeOK, FlagTypes, PlaceTypes, Shape, Works, Owners,
         Phases
    <3>7. Owed'
      BY <2>0, <2>2, <3>0 DEF IInv, TypeOK, FlagTypes, PlaceTypes, Shape, Works, Phases,
         Owed
    <3>8. Scened'
      BY <2>0, <2>2, <3>0 DEF IInv, TypeOK, FlagTypes, PlaceTypes, Shape, Works, Owners,
         Phases, Scened
    <3> QED BY <3>1, <3>2, <3>3, <3>4, <3>5, <3>6, <3>7, <3>8 DEF IInv, TypeOK
  <2> QED BY <2>1, <2>2
<1>3. CASE On(t)
  <2>1. FlagTypes'
    BY <1>3, ZenonT(60) DEF On, IInv, TypeOK, FlagTypes, PlaceTypes, Shape
  <2>2. PlaceTypes'
    BY <1>3 DEF On, IInv, TypeOK, PlaceTypes, Shape, Works
  <2>3. Shape'
    BY <1>3 DEF On, IInv, TypeOK, FlagTypes, PlaceTypes, Shape, Works
  <2>4. Works'
    BY <1>3 DEF On, IInv, TypeOK, FlagTypes, PlaceTypes, Shape, Works
  <2>5. Owners'
    BY <1>3 DEF On, IInv, TypeOK, PlaceTypes, Shape, Owners
  <2>6. Phases'
    BY <1>3 DEF On, IInv, TypeOK, FlagTypes, PlaceTypes, Shape, Works, Owners, Phases
  <2>7. Owed'
    BY <1>3 DEF On, IInv, TypeOK, FlagTypes, PlaceTypes, Shape, Works, Phases, Owed
  <2>8. Scened'
    BY <1>3 DEF On, IInv, TypeOK, FlagTypes, PlaceTypes, Shape, Works, Owners, Phases,
       Scened
  <2> QED BY <2>1, <2>2, <2>3, <2>4, <2>5, <2>6, <2>7, <2>8 DEF IInv, TypeOK
<1>4. CASE Listen(t)
  BY <1>4, ListenPreserves DEF Listeners
<1> QED BY <1>1, <1>2, <1>3, <1>4 DEF Start

\* Every step of the restart thread keeps it.
LEMMA RestartPreserves ==
  ASSUME IInv, Restart
  PROVE  IInv'
<1> USE CastersAssumption, ThreadsAssumption
    DEF Labels, Threads, Listeners, Scenes, Casts, Plays, Mutexes, Switching, Stopping, Hearing,
        Starting, Restarting, Helping, Jobs, CasterHolds, RestarterHolds, Goto, Take, Give,
        flags, service, session, count
<1>1. CASE Look
  <2>1. CASE Idle
    <3>0. at' = [at EXCEPT ![Restarter] = "arm"] /\ tick' = tick
      BY <1>1, <2>1 DEF Look
    <3>1. FlagTypes'
      BY <1>1, <2>1, <3>0 DEF Look, IInv, TypeOK, FlagTypes
    <3>2. PlaceTypes'
      BY <1>1, <2>1, <3>0 DEF Look, IInv, TypeOK, PlaceTypes, Shape, Works
    <3>3. Shape'
      BY <1>1, <2>1, <3>0 DEF Look, IInv, TypeOK, FlagTypes, PlaceTypes, Shape, Works
    <3>4. Works'
      BY <1>1, <2>1, <3>0 DEF Look, IInv, TypeOK, FlagTypes, PlaceTypes, Shape, Works
    <3>5. Owners'
      BY <1>1, <2>1, <3>0 DEF Look, IInv, TypeOK, PlaceTypes, Shape, Owners
    <3>6. Phases'
      BY <1>1, <2>1, <3>0 DEF Look, IInv, TypeOK, FlagTypes, PlaceTypes, Shape, Works,
         Owners, Phases
    <3>7. Owed'
      BY <1>1, <2>1, <3>0 DEF Look, IInv, TypeOK, FlagTypes, PlaceTypes, Shape, Works,
         Phases, Owed
    <3>8. Scened'
      BY <1>1, <2>1, <3>0 DEF Look, IInv, TypeOK, FlagTypes, PlaceTypes, Shape, Works,
         Owners, Phases, Scened
    <3> QED BY <3>1, <3>2, <3>3, <3>4, <3>5, <3>6, <3>7, <3>8 DEF IInv, TypeOK
  <2>2. CASE ~Idle
    <3>0. at' = at /\ tick' = "zero"
      BY <1>1, <2>2 DEF Look
    <3>1. FlagTypes'
      BY <1>1, <2>2, <3>0 DEF Look, IInv, TypeOK, FlagTypes
    <3>2. PlaceTypes'
      BY <1>1, <2>2, <3>0 DEF Look, IInv, TypeOK, PlaceTypes, Shape, Works
    <3>3. Shape'
      BY <1>1, <2>2, <3>0 DEF Look, IInv, TypeOK, FlagTypes, PlaceTypes, Shape, Works
    <3>4. Works'
      BY <1>1, <2>2, <3>0 DEF Look, IInv, TypeOK, FlagTypes, PlaceTypes, Shape, Works
    <3>5. Owners'
      BY <1>1, <2>2, <3>0 DEF Look, IInv, TypeOK, PlaceTypes, Shape, Owners
    <3>6. Phases'
      BY <1>1, <2>2, <3>0 DEF Look, IInv, TypeOK, FlagTypes, PlaceTypes, Shape, Works,
         Owners, Phases
    <3>7. Owed'
      BY <1>1, <2>2, <3>0 DEF Look, IInv, TypeOK, FlagTypes, PlaceTypes, Shape, Works,
         Phases, Owed
    <3>8. Scened'
      BY <1>1, <2>2, <3>0 DEF Look, IInv, TypeOK, FlagTypes, PlaceTypes, Shape, Works,
         Owners, Phases, Scened
    <3> QED BY <3>1, <3>2, <3>3, <3>4, <3>5, <3>6, <3>7, <3>8 DEF IInv, TypeOK
  <2> QED BY <2>1, <2>2
<1>2. CASE Arm
  <2>1. CASE need
    <3>0. at' = [at EXCEPT ![Restarter] = "due"] /\ tick' \in {tick, "armed"}
      BY <1>2, <2>1 DEF Arm
    <3>1. FlagTypes'
      BY <1>2, <2>1, <3>0 DEF Arm, IInv, TypeOK, FlagTypes
    <3>2. PlaceTypes'
      BY <1>2, <2>1, <3>0 DEF Arm, IInv, TypeOK, PlaceTypes, Shape, Works
    <3>3. Shape'
      BY <1>2, <2>1, <3>0 DEF Arm, IInv, TypeOK, FlagTypes, PlaceTypes, Shape, Works
    <3>4. Works'
      BY <1>2, <2>1, <3>0 DEF Arm, IInv, TypeOK, FlagTypes, PlaceTypes, Shape, Works
    <3>5. Owners'
      BY <1>2, <2>1, <3>0 DEF Arm, IInv, TypeOK, PlaceTypes, Shape, Owners
    <3>6. Phases'
      BY <1>2, <2>1, <3>0 DEF Arm, IInv, TypeOK, FlagTypes, PlaceTypes, Shape, Works,
         Owners, Phases
    <3>7. Owed'
      BY <1>2, <2>1, <3>0 DEF Arm, IInv, TypeOK, FlagTypes, PlaceTypes, Shape, Works,
         Phases, Owed
    <3>8. Scened'
      BY <1>2, <2>1, <3>0 DEF Arm, IInv, TypeOK, FlagTypes, PlaceTypes, Shape, Works,
         Owners, Phases, Scened
    <3> QED BY <3>1, <3>2, <3>3, <3>4, <3>5, <3>6, <3>7, <3>8 DEF IInv, TypeOK
  <2>2. CASE ~need
    <3>0. at' = [at EXCEPT ![Restarter] = "look"] /\ tick' = "zero"
      BY <1>2, <2>2 DEF Arm
    <3>1. FlagTypes'
      BY <1>2, <2>2, <3>0 DEF Arm, IInv, TypeOK, FlagTypes
    <3>2. PlaceTypes'
      BY <1>2, <2>2, <3>0 DEF Arm, IInv, TypeOK, PlaceTypes, Shape, Works
    <3>3. Shape'
      BY <1>2, <2>2, <3>0 DEF Arm, IInv, TypeOK, FlagTypes, PlaceTypes, Shape, Works
    <3>4. Works'
      BY <1>2, <2>2, <3>0 DEF Arm, IInv, TypeOK, FlagTypes, PlaceTypes, Shape, Works
    <3>5. Owners'
      BY <1>2, <2>2, <3>0 DEF Arm, IInv, TypeOK, PlaceTypes, Shape, Owners
    <3>6. Phases'
      BY <1>2, <2>2, <3>0 DEF Arm, IInv, TypeOK, FlagTypes, PlaceTypes, Shape, Works,
         Owners, Phases
    <3>7. Owed'
      BY <1>2, <2>2, <3>0 DEF Arm, IInv, TypeOK, FlagTypes, PlaceTypes, Shape, Works,
         Phases, Owed
    <3>8. Scened'
      BY <1>2, <2>2, <3>0 DEF Arm, IInv, TypeOK, FlagTypes, PlaceTypes, Shape, Works,
         Owners, Phases, Scened
    <3> QED BY <3>1, <3>2, <3>3, <3>4, <3>5, <3>6, <3>7, <3>8 DEF IInv, TypeOK
  <2> QED BY <2>1, <2>2
<1>3. CASE Due
  BY <1>3 DEF Due, IInv, TypeOK, FlagTypes, PlaceTypes, Shape, Works, Owners, Phases, Owed,
     Scened
<1>4. CASE Quiet
  BY <1>4 DEF Quiet, IInv, TypeOK, FlagTypes, PlaceTypes, Shape, Works, Owners, Phases,
     Owed, Scened
<1>5. CASE Off
  BY <1>5 DEF Off, IInv, TypeOK, FlagTypes, PlaceTypes, Shape, Works, Owners, Phases, Owed,
     Scened
<1>6. CASE Claim
  BY <1>6 DEF Claim, IInv, TypeOK, FlagTypes, PlaceTypes, Shape, Works, Owners, Phases,
     Owed, Scened
<1>7. CASE Enter
  BY <1>7 DEF Enter, IInv, TypeOK, FlagTypes, PlaceTypes, Shape, Works, Owners, Phases,
     Owed, Scened
<1>8. CASE Clear
  BY <1>8 DEF Clear, IInv, TypeOK, FlagTypes, PlaceTypes, Shape, Works, Owners, Phases,
     Owed, Scened
<1>9. CASE Done
  <2>1. FlagTypes'
    BY <1>9, ZenonT(60) DEF Done, IInv, TypeOK, FlagTypes, PlaceTypes, Shape
  <2>2. PlaceTypes'
    BY <1>9 DEF Done, IInv, TypeOK, PlaceTypes, Shape, Works
  <2>3. Shape'
    BY <1>9 DEF Done, IInv, TypeOK, FlagTypes, PlaceTypes, Shape, Works
  <2>4. Works'
    BY <1>9 DEF Done, IInv, TypeOK, FlagTypes, PlaceTypes, Shape, Works
  <2>5. Owners'
    BY <1>9 DEF Done, IInv, TypeOK, PlaceTypes, Shape, Owners
  <2>6. Phases'
    BY <1>9 DEF Done, IInv, TypeOK, FlagTypes, PlaceTypes, Shape, Works, Owners, Phases
  <2>7. Owed'
    BY <1>9 DEF Done, IInv, TypeOK, FlagTypes, PlaceTypes, Shape, Works, Phases, Owed
  <2>8. Scened'
    BY <1>9 DEF Done, IInv, TypeOK, FlagTypes, PlaceTypes, Shape, Works, Owners, Phases,
       Scened
  <2> QED BY <2>1, <2>2, <2>3, <2>4, <2>5, <2>6, <2>7, <2>8 DEF IInv, TypeOK
<1>10. CASE Leave
  BY <1>10 DEF Leave, IInv, TypeOK, FlagTypes, PlaceTypes, Shape, Works, Owners, Phases,
     Owed, Scened
<1>11. CASE Start(Restarter)
  BY <1>11, StartPreserves
<1> QED BY <1>1, <1>2, <1>3, <1>4, <1>5, <1>6, <1>7, <1>8, <1>9, <1>10, <1>11 DEF Restart

\* Every step of a helper keeps it.
LEMMA RestorePreserves ==
  ASSUME IInv, NEW h \in Helpers, Restore(h)
  PROVE  IInv'
<1> USE CastersAssumption, ThreadsAssumption
    DEF Labels, Threads, Listeners, Scenes, Casts, Plays, Mutexes, Switching, Stopping, Hearing,
        Starting, Restarting, Helping, Jobs, CasterHolds, RestarterHolds, Goto, Take, Give,
        flags, service, session, count
<1>1. CASE Drop(h)
  <2>1. FlagTypes'
    BY <1>1, ZenonT(60) DEF Drop, IInv, TypeOK, FlagTypes
  <2>2. PlaceTypes'
    BY <1>1 DEF Drop, IInv, TypeOK, PlaceTypes, Shape, Works
  <2>3. Shape'
    BY <1>1 DEF Drop, IInv, TypeOK, FlagTypes, PlaceTypes, Shape, Works
  <2>4. Works'
    BY <1>1 DEF Drop, IInv, TypeOK, FlagTypes, PlaceTypes, Shape, Works
  <2>5. Owners'
    BY <1>1 DEF Drop, IInv, TypeOK, PlaceTypes, Shape, Owners
  <2>6. Phases'
    BY <1>1 DEF Drop, IInv, TypeOK, FlagTypes, PlaceTypes, Shape, Works, Owners, Phases
  <2>7. Owed'
    BY <1>1 DEF Drop, IInv, TypeOK, FlagTypes, PlaceTypes, Shape, Works, Phases, Owed
  <2>8. Scened'
    BY <1>1 DEF Drop, IInv, TypeOK, FlagTypes, PlaceTypes, Shape, Works, Owners, Phases,
       Scened
  <2> QED BY <2>1, <2>2, <2>3, <2>4, <2>5, <2>6, <2>7, <2>8 DEF IInv, TypeOK
<1>2. CASE Calm(h)
  BY <1>2 DEF Calm, IInv, TypeOK, FlagTypes, PlaceTypes, Shape, Works, Owners, Phases,
     Owed, Scened
<1>3. CASE Stop(h)
  BY <1>3, StopPreserves
<1>4. CASE Start(h)
  BY <1>4, StartPreserves
<1> QED BY <1>1, <1>2, <1>3, <1>4 DEF Restore

\* Every step of the poller, of the phone and of time keeps it.
LEMMA PollPreserves ==
  ASSUME IInv,
         Poll \/ NoEvent \/ Offer \/ PhoneJoins \/ PhoneLeaves \/ Elapse
  PROVE  IInv'
<1> USE CastersAssumption, ThreadsAssumption
    DEF Labels, Threads, Listeners, Scenes, Casts, Plays, Mutexes, Switching, Stopping, Hearing,
        Starting, Restarting, Helping, Jobs, CasterHolds, RestarterHolds, Goto, Take, Give,
        flags, service, session, count
<1>1. CASE Poll
  BY <1>1 DEF Poll, IInv, TypeOK, FlagTypes, PlaceTypes, Shape, Works, Owners, Phases,
     Owed, Scened
<1>2. CASE NoEvent
  BY <1>2 DEF NoEvent, IInv, TypeOK, FlagTypes, PlaceTypes, Shape, Works, Owners, Phases,
     Owed, Scened
<1>3. CASE Offer
  BY <1>3 DEF Offer, IInv, TypeOK, FlagTypes, PlaceTypes, Shape, Works, Owners, Phases,
     Owed, Scened
<1>4. CASE PhoneJoins
  BY <1>4 DEF PhoneJoins, IInv, TypeOK, FlagTypes, PlaceTypes, Shape, Works, Owners,
     Phases, Owed, Scened
<1>5. CASE PhoneLeaves
  BY <1>5 DEF PhoneLeaves, IInv, TypeOK, FlagTypes, PlaceTypes, Shape, Works, Owners,
     Phases, Owed, Scened
<1>6. CASE Elapse
  BY <1>6 DEF Elapse, IInv, TypeOK, FlagTypes, PlaceTypes, Shape, Works, Owners, Phases,
     Owed, Scened
<1> QED BY <1>1, <1>2, <1>3, <1>4, <1>5, <1>6

\* The invariant is inductive.
LEMMA NextPreserves == IInv /\ [Next]_vars => IInv'
<1> SUFFICES ASSUME IInv, [Next]_vars PROVE IInv'
  OBVIOUS
<1>1. CASE UNCHANGED vars
  BY <1>1 DEF vars, flags, service, session, count, IInv, TypeOK, FlagTypes, PlaceTypes, Shape,
     Works, Owners, Phases, Owed, Scened
<1>2. ASSUME NEW t \in Casters,
             \/ Begin(t) \/ Switch(t) \/ StopForScene(t) \/ Rest(t) \/ MediaStops(t)
             \/ End(t)
      PROVE  IInv'
  BY <1>2, SwitchPreserves, StopPreserves, CasterPreserves DEF StopForScene, Threads
<1>3. CASE Restart
  BY <1>3, RestartPreserves
<1>4. CASE PollPhone \/ PhoneJoins \/ PhoneLeaves \/ Elapse
  BY <1>4, PollPreserves, SwitchPreserves DEF PollPhone, Threads
<1>5. CASE Listen(Library)
  BY <1>5, ListenPreserves DEF Listeners
<1>6. CASE \E h \in Helpers : Restore(h)
  BY <1>6, RestorePreserves
<1> QED BY <1>1, <1>2, <1>3, <1>4, <1>5, <1>6 DEF Next

\* So it holds always.
LEMMA AlwaysIInv == Spec => []IInv
  BY InitHolds, NextPreserves, PTL DEF Spec

\* The types of the flags, the mutexes and the places of the threads; above all
\* the polling thread never reaches the stop that waits for its end.
THEOREM TypeCorrect == Spec => []TypeOK
<1>1. IInv => TypeOK
  BY DEF IInv
<1> QED BY <1>1, AlwaysIInv, PTL

\* No step starts a helper, if the application restores the network itself.
LEMMA NextHelpsNone == Answers = {TRUE} /\ [Next]_vars => helped' = helped
<1> SUFFICES ASSUME Answers = {TRUE}, [Next]_vars PROVE helped' = helped
  OBVIOUS
<1> USE DEF session
<1>1. CASE UNCHANGED vars
  BY <1>1 DEF vars
<1>2. ASSUME NEW t \in Threads, Switch(t) PROVE helped' = helped
  BY <1>2 DEF Switch, Wait, Raise, Change, Lower
<1>3. ASSUME NEW t \in Threads, Stop(t) PROVE helped' = helped
  BY <1>3 DEF Stop, Stat, Forget, StopService, Halt, Uninit, Join
<1>4. ASSUME NEW t \in Threads, Listen(t) PROVE helped' = helped
  BY <1>2, <1>4 DEF Listen, Hear, Ask, Answer, Heard
<1>5. ASSUME NEW t \in Threads, Start(t) PROVE helped' = helped
  BY <1>4, <1>5 DEF Start, StartService, InitP2p, On
<1>6. ASSUME NEW t \in Casters,
             \/ Begin(t) \/ Switch(t) \/ StopForScene(t) \/ Rest(t) \/ MediaStops(t)
             \/ End(t)
      PROVE  helped' = helped
  BY <1>2, <1>3, <1>6 DEF StopForScene, Lock, Remember, Unlock, Begin, Rest, MediaStops,
     End, Threads
<1>7. CASE Restart
  BY <1>5, <1>7 DEF Restart, Look, Arm, Due, Quiet, Off, Claim, Enter, Clear, Done, Leave,
     Threads
<1>8. CASE PollPhone \/ PhoneJoins \/ PhoneLeaves \/ Elapse
  BY <1>2, <1>8 DEF PollPhone, Poll, NoEvent, Offer, PhoneJoins, PhoneLeaves, Elapse, Threads
<1>9. CASE Listen(Library)
  BY <1>4, <1>9 DEF Threads
<1>10. CASE \E h \in Helpers : Restore(h)
  BY <1>3, <1>5, <1>10 DEF Restore, Drop, Calm, Threads
<1> QED BY <1>1, <1>6, <1>7, <1>8, <1>9, <1>10 DEF Next

\* So none ever runs then.
LEMMA NeverHelped == Spec => [](Answers = {TRUE} => helped = {})
<1>1. Init => (Answers = {TRUE} => helped = {})
  BY DEF Init
<1>2. (Answers = {TRUE} => helped = {}) /\ [Next]_vars => (Answers = {TRUE} => helped = {})'
  BY NextHelpsNone
<1> QED BY <1>1, <1>2, PTL DEF Spec

\* Whatever the services and the restart thread do at the same time, a Miracast
\* that a switch stopped stays asked for until it runs again, as long as no
\* thread that restores the network has been started; always, if the application
\* restores it itself.
THEOREM StopsAreRemembered ==
  Spec => [](StopRemembered /\ (Answers = {TRUE} => RequestNeverLost))
<1>1. IInv => StopRemembered
  BY DEF IInv, Owed, StopRemembered
<1>2. StopRemembered /\ (Answers = {TRUE} => helped = {})
        => (Answers = {TRUE} => RequestNeverLost)
  BY DEF StopRemembered, RequestNeverLost
<1> QED BY <1>1, <1>2, AlwaysIInv, NeverHelped, PTL

\* For every set of services, the scene of a cast has Miracast off, as long as no
\* thread that restores the access point has been started; always, if the
\* application restores it itself.
THEOREM ScenesAreAlone == Spec => [](SceneAlone /\ (Answers = {TRUE} => NeverBeside))
<1>1. IInv => SceneAlone
  BY DEF IInv, Scened, SceneAlone
<1>2. SceneAlone /\ (Answers = {TRUE} => helped = {}) => (Answers = {TRUE} => NeverBeside)
  BY DEF SceneAlone, NeverBeside
<1> QED BY <1>1, <1>2, AlwaysIInv, NeverHelped, PTL
=============================================================================
