----------------------------- MODULE CastScene -----------------------------
(***************************************************************************)
(* Casting scenes and Miracast: hccast_scene_switch, called by the threads *)
(* of the cast services, against the thread that starts Miracast again     *)
(* when the scene has been idle for eight seconds (hccast_scene.c), the    *)
(* service they stop and start (hccast_mira_service.c), the thread that    *)
(* polls the Wi-Fi chip for phones (hccast_p2p_ctrl_wext.c), the one that  *)
(* tells the end of a phone's session, and the threads that end starts     *)
(* unless the application sees to the network itself.                      *)
(*                                                                         *)
(* The flags are read and written without a lock; each read or write of a  *)
(* flag another thread decides on is a step of its own.                    *)
(***************************************************************************)
EXTENDS Naturals, FiniteSets

CONSTANTS
  Casters,    \* the cast services, each named by the scene it asks for
  Restarter,  \* hccast_scene_thread
  Poller,     \* p2p_ctrl_wext_thread
  Library,    \* the thread of hccast_mira_wfd_event_cb
  Helpers,    \* threads of hccast_mira_wifi_reconnect_thread, ..hostap_enable_thread
  Answers,    \* what the application's callback leaves in valid of HCCAST_MIRA_RESET
  Free,       \* nobody holds the mutex
  MaxCasts,   \* bound: switches begun by the casters
  MaxJoins,   \* bound: phones that connect
  MaxComers   \* bound: both together

Threads == Casters \cup {Restarter, Poller, Library} \cup Helpers
Listeners == {Restarter, Library} \cup Helpers
Plays == {"DLNA_PLAY", "DIAL_PLAY"}
Casts == Plays \cup {"AIRCAST_MIRROR"}
Scenes == Casts \cup {"NONE", "MIRACAST", "NEED_REST"}
Mutexes == {"scene", "svr", "p2p"}

ASSUME CastersAssumption == Casters \subseteq Casts
ASSUME ThreadsAssumption ==
  /\ Restarter \notin Casters /\ Poller \notin Casters \cup {Restarter}
  /\ Library \notin Casters \cup {Restarter, Poller}
  /\ Helpers \cap (Casters \cup {Restarter, Poller, Library}) = {}
  /\ Free \notin Threads
ASSUME AnswersAssumption == Answers \subseteq BOOLEAN /\ Answers # {}
ASSUME BoundsAssumption == {MaxCasts, MaxJoins, MaxComers} \subseteq Nat

VARIABLES
  scene,       \* current_scene
  switching,   \* scene_switching
  need,        \* scene_mira_need_restart
  tick,        \* scene_mira_check_tick: zero, armed, or due after 8 s
  restarting,  \* scene_mira_begin_restarting
  started,     \* g_mira_start
  running,     \* g_p2p_thread_running
  connected,   \* the connect stat of the p2p interface
  wifi,        \* g_mira_wifi_stat
  playing,     \* casters whose media are not stopped
  holder,      \* who holds g_mira_scene_mutex, g_mira_svr_mutex, g_p2p_mutex
  at,          \* where each thread stands
  next,        \* next_scene of a thread in hccast_scene_switch
  back,        \* where a thread goes on after HCCAST_P2P_STATE_LISTEN
  job,         \* what each helper runs
  casts, joins,  \* what the bounds count
  owed,        \* history: a switch stopped Miracast, nothing started it since
  helped       \* history: the kinds of helpers started

flags == <<need, tick, restarting>>
service == <<started, running, connected>>
session == <<wifi, back, job, helped>>
count == <<casts, joins>>
vars == <<scene, switching, flags, service, playing, holder, at, next, session, count, owed>>

Switching == {"wait", "raise", "change", "lower"}
Stopping == {"lock", "stat", "forget", "stop", "halt", "uninit", "join",
             "remember", "unlock"}
Hearing == {"ask", "answer", "raise", "change", "lower", "heard"}
Starting == {"start", "listen", "init", "enable", "on"} \cup Hearing
Restarting == {"arm", "due", "quiet", "off", "claim", "enter", "clear", "done", "leave"}
Jobs == {"reconnect", "hostap"}
Helping == {"none", "drop", "stat", "forget", "stop", "halt", "uninit", "join", "calm"}

Goto(t, l) == at' = [at EXCEPT ![t] = l]
Take(m, t) == holder[m] = Free /\ holder' = [holder EXCEPT ![m] = t]
Give(m) == holder' = [holder EXCEPT ![m] = Free]

\* Miracast is on and its thread polls.
Init ==
  /\ scene = "NONE" /\ switching = FALSE
  /\ need = FALSE /\ tick = "zero" /\ restarting = FALSE
  /\ started = TRUE /\ running = TRUE /\ connected = FALSE
  /\ playing = {} /\ holder = [m \in Mutexes |-> Free]
  /\ at = [t \in Threads |->
             CASE t = Restarter -> "look" [] t = Poller -> "poll"
               [] t \in Helpers -> "none" [] OTHER -> "idle"]
  /\ next = [t \in Threads |-> IF t = Poller THEN "MIRACAST" ELSE "NONE"]
  /\ wifi = "none" /\ back = [t \in Listeners |-> "idle"]
  /\ job = [h \in Helpers |-> "reconnect"] /\ helped = {}
  /\ casts = 0 /\ joins = 0 /\ owed = FALSE
-----------------------------------------------------------------------------
(* hccast_scene_switch, up to the mutex *)

\* hccast_media_seturl skips a URL while the scene is being switched to the mirror.
Skips(n) == n \in Plays /\ switching /\ scene = "AIRCAST_MIRROR"

\* A service switches from one thread.
Begin(t) ==
  /\ at[t] = "idle" /\ ~Skips(t)
  /\ casts < MaxCasts /\ casts + joins < MaxComers
  /\ next' = [next EXCEPT ![t] = t] /\ casts' = casts + 1
  /\ Goto(t, "wait")
  /\ UNCHANGED <<scene, switching, flags, service, playing, holder, session, joins, owed>>

Wait(t) ==
  /\ at[t] = "wait" /\ ~restarting
  /\ Goto(t, "raise")
  /\ UNCHANGED <<scene, switching, flags, service, playing, holder, next, session, count,
                 owed>>

Raise(t) ==
  /\ at[t] = "raise"
  /\ switching' = TRUE
  /\ Goto(t, "change")
  /\ UNCHANGED <<scene, flags, service, playing, holder, next, session, count, owed>>

\* Mutant: a switch to Miracast stops it too.
Change_PollerStops(t) ==
  /\ at[t] = "change"
  /\ scene' = next[t]
  /\ Goto(t, IF next[t] \in {scene, "NEED_REST", "NONE"} THEN "lower" ELSE "lock")
  /\ UNCHANGED <<switching, flags, service, playing, holder, next, session, count, owed>>

\* Mutant: the exit for NEED_REST forgets the flag.
Change_RestReturns(t) ==
  /\ at[t] = "change"
  /\ scene' = next[t]
  /\ Goto(t, CASE next[t] \in {scene, "MIRACAST", "NONE"} -> "lower"
               [] next[t] = "NEED_REST" -> "cast"
               [] OTHER -> "lock")
  /\ UNCHANGED <<switching, flags, service, playing, holder, next, session, count, owed>>

\* Only a switch to a cast stops Miracast.
Change(t) ==
  /\ at[t] = "change"
  /\ scene' = next[t]
  /\ Goto(t, IF next[t] \in {scene, "NEED_REST", "MIRACAST", "NONE"} THEN "lower" ELSE "lock")
  /\ UNCHANGED <<switching, flags, service, playing, holder, next, session, count, owed>>

Lower(t) ==
  /\ at[t] = "lower"
  /\ switching' = FALSE
  /\ playing' = IF next[t] \in Plays THEN playing \cup {t} ELSE playing
  /\ Goto(t, CASE t = Poller -> "poll" [] t \in Listeners -> "heard" [] OTHER -> "cast")
  /\ UNCHANGED <<scene, flags, service, holder, next, session, count, owed>>
-----------------------------------------------------------------------------
(* hccast_scene_switch, under g_mira_scene_mutex, with hccast_mira_service_stop, *)
(* which a helper calls without that mutex.                                      *)

\* What follows the stop, or an answer of hccast_mira_get_stat that it is off.
Stopped(t) == CASE t \in Casters -> "remember"
                [] t \in Helpers -> IF job[t] = "reconnect" THEN "drop" ELSE "start"
Lock(t) ==
  /\ at[t] = "lock" /\ Take("scene", t)
  /\ Goto(t, "stat")
  /\ UNCHANGED <<scene, switching, flags, service, playing, next, session, count, owed>>

Stat(t) ==
  /\ at[t] = "stat" /\ holder["svr"] = Free
  /\ Goto(t, CASE started -> "forget" [] ~started /\ t \in Casters -> "unlock"
               [] OTHER -> "none")
  /\ UNCHANGED <<scene, switching, flags, service, playing, holder, next, session, count,
                 owed>>

\* hccast_mira_service_stop begins with hccast_scene_set_mira_restart_flag(0).
Forget(t) ==
  /\ at[t] = "forget"
  /\ need' = FALSE /\ tick' = "zero"
  /\ Goto(t, "stop")
  /\ UNCHANGED <<scene, switching, restarting, service, playing, holder, next, session,
                 count, owed>>

StopService(t) ==
  /\ at[t] = "stop" /\ holder["svr"] = Free
  /\ \/ started /\ Take("svr", t) /\ started' = FALSE /\ Goto(t, "halt")
     \/ ~started /\ Goto(t, Stopped(t)) /\ UNCHANGED <<holder, started>>
  /\ UNCHANGED <<scene, switching, flags, running, connected, playing, next, session,
                 count, owed>>

Halt(t) ==
  /\ at[t] = "halt" /\ Give("svr")
  /\ Goto(t, "uninit")
  /\ UNCHANGED <<scene, switching, flags, service, playing, next, session, count, owed>>

Uninit(t) ==
  /\ at[t] = "uninit" /\ Take("p2p", t)
  /\ running' = FALSE
  /\ Goto(t, "join")
  /\ UNCHANGED <<scene, switching, flags, started, connected, playing, next, session,
                 count, owed>>

Join(t) ==
  /\ at[t] = "join" /\ at[Poller] = "none"
  /\ Give("p2p")
  /\ Goto(t, Stopped(t))
  /\ UNCHANGED <<scene, switching, flags, service, playing, next, session, count, owed>>

Remember(t) ==
  /\ at[t] = "remember"
  /\ need' = TRUE /\ tick' = "zero" /\ owed' = TRUE
  /\ Goto(t, "unlock")
  /\ UNCHANGED <<scene, switching, restarting, service, playing, holder, next, session,
                 count>>

Unlock(t) ==
  /\ at[t] = "unlock" /\ Give("scene")
  /\ Goto(t, "lower")
  /\ UNCHANGED <<scene, switching, flags, service, playing, next, session, count, owed>>
-----------------------------------------------------------------------------
(* The end of a cast *)

\* DIAL_EVENT_CONN_DISCONNECTED_ALL with the media still playing.
Rest(t) ==
  /\ at[t] = "cast" /\ next[t] = "DIAL_PLAY"
  /\ next' = [next EXCEPT ![t] = "NEED_REST"]
  /\ Goto(t, "wait")
  /\ UNCHANGED <<scene, switching, flags, service, playing, holder, session, count, owed>>

MediaStops(t) ==
  /\ at[t] = "cast"
  /\ playing' = playing \ {t}
  /\ Goto(t, "ending")
  /\ UNCHANGED <<scene, switching, flags, service, holder, next, session, count, owed>>

\* hccast_scene_reset; the player leaves it out when a switch has just happened.
End(t) ==
  /\ at[t] = "ending"
  /\ scene' \in CASE next[t] \in {"DIAL_PLAY", "AIRCAST_MIRROR"} ->
                       {IF scene = next[t] THEN "NONE" ELSE scene}
                  [] OTHER -> {IF scene \in {"DLNA_PLAY", "NEED_REST"} THEN "NONE"
                               ELSE scene, scene}
  /\ Goto(t, "idle")
  /\ UNCHANGED <<switching, flags, service, playing, holder, next, session, count, owed>>
-----------------------------------------------------------------------------
(* hccast_scene_mira_restart_check *)

Idle == scene \in {"NONE", "DLNA_PLAY"} /\ playing = {}

Look ==
  /\ at[Restarter] = "look"
  /\ IF Idle THEN Goto(Restarter, "arm") /\ UNCHANGED tick
     ELSE tick' = "zero" /\ UNCHANGED at
  /\ UNCHANGED <<scene, switching, need, restarting, service, playing, holder, next,
                 session,
                 count, owed>>

Arm ==
  /\ at[Restarter] = "arm"
  /\ IF need THEN /\ tick' = IF tick = "zero" THEN "armed" ELSE tick
                  /\ Goto(Restarter, "due")
     ELSE tick' = "zero" /\ Goto(Restarter, "look")
  /\ UNCHANGED <<scene, switching, need, restarting, service, playing, holder, next,
                 session,
                 count, owed>>

\* A tick another thread has just zeroed counts as long past.
Due ==
  /\ at[Restarter] = "due"
  /\ Goto(Restarter, IF tick = "armed" THEN "look" ELSE "quiet")
  /\ UNCHANGED <<scene, switching, flags, service, playing, holder, next, session, count,
                 owed>>

Quiet ==
  /\ at[Restarter] = "quiet"
  /\ Goto(Restarter, IF switching THEN "look" ELSE "off")
  /\ UNCHANGED <<scene, switching, flags, service, playing, holder, next, session, count,
                 owed>>

Off ==
  /\ at[Restarter] = "off" /\ holder["svr"] = Free
  /\ Goto(Restarter, IF started THEN "look" ELSE "claim")
  /\ UNCHANGED <<scene, switching, flags, service, playing, holder, next, session, count,
                 owed>>

Claim ==
  /\ at[Restarter] = "claim"
  /\ restarting' = TRUE
  /\ Goto(Restarter, "enter")
  /\ UNCHANGED <<scene, switching, need, tick, service, playing, holder, next, session,
                 count, owed>>

Enter ==
  /\ at[Restarter] = "enter" /\ Take("scene", Restarter)
  /\ Goto(Restarter, "clear")
  /\ UNCHANGED <<scene, switching, flags, service, playing, next, session, count, owed>>

\* Mutant: the scene is kept.
Clear_KeepsScene ==
  /\ at[Restarter] = "clear"
  /\ Goto(Restarter, "start")
  /\ UNCHANGED <<scene, switching, flags, service, playing, holder, next, session, count,
                 owed>>

Clear ==
  /\ at[Restarter] = "clear"
  /\ scene' = "NONE"
  /\ Goto(Restarter, "start")
  /\ UNCHANGED <<switching, flags, service, playing, holder, next, session, count, owed>>
-----------------------------------------------------------------------------
(* hccast_mira_service_start, and the end of a session of Miracast *)

StartService(t) ==
  /\ at[t] = "start" /\ holder["svr"] = Free
  /\ IF started
     THEN Goto(t, IF t = Restarter THEN "done" ELSE "none") /\ UNCHANGED holder
     ELSE Take("svr", t) /\ Goto(t, "listen")
  /\ UNCHANGED <<scene, switching, flags, service, playing, next, session, count, owed>>

InitP2p(t) ==
  /\ at[t] = "init" /\ holder["p2p"] = Free
  /\ running' = TRUE
  /\ at' = [at EXCEPT ![t] = "enable", ![Poller] = IF running THEN @ ELSE "poll"]
  /\ UNCHANGED <<scene, switching, flags, started, connected, playing, holder, next,
                 session,
                 count, owed>>

On(t) ==
  /\ at[t] = "on" /\ Give("svr")
  /\ started' = TRUE /\ owed' = FALSE
  /\ Goto(t, IF t = Restarter THEN "done" ELSE "none")
  /\ UNCHANGED <<scene, switching, flags, running, connected, playing, next, session,
                 count>>

\* hccast_mira_update_p2p_state(HCCAST_P2P_STATE_LISTEN), called by
\* p2p_ctrl_wext_wpas_attr_init, once from the initialisation and once when the
\* interface is enabled, and by the library.  It ends the session there is.
Resume == [listen |-> "init", enable |-> "on", leaving |-> "idle"]

\* Mutant: outside the scene of Miracast the flag is left up.
Hear_Returns(t) ==
  /\ at[t] \in DOMAIN Resume
  /\ back' = [back EXCEPT ![t] = Resume[at[t]]]
  /\ Goto(t, IF scene = "MIRACAST" THEN "ask" ELSE Resume[at[t]])
  /\ UNCHANGED <<scene, switching, flags, service, playing, holder, next, wifi, job, helped,
                 count, owed>>

Hear(t) ==
  /\ at[t] \in DOMAIN Resume
  /\ back' = [back EXCEPT ![t] = Resume[at[t]]]
  /\ Goto(t, IF scene = "MIRACAST" THEN "ask" ELSE "heard")
  /\ UNCHANGED <<scene, switching, flags, service, playing, holder, next, wifi, job, helped,
                 count, owed>>

Ask(t) ==
  /\ at[t] = "ask"
  /\ Goto(t, IF connected THEN "answer" ELSE "heard")
  /\ UNCHANGED <<scene, switching, flags, service, playing, holder, next, session, count,
                 owed>>

\* The thread that restores the network starts where its code begins.
Help(h, j) ==
  /\ at[h] = "none"
  /\ job' = [job EXCEPT ![h] = j] /\ helped' = helped \cup {j}

\* Unless the application says that it does so itself, a thread restores the
\* network; then the scene is switched to HCCAST_SCENE_NONE.
Answer(t) ==
  /\ at[t] = "answer"
  /\ \E valid \in Answers :
       \/ /\ valid \/ wifi \in {"none", "ongoing"}
          /\ connected' = FALSE
          /\ Goto(t, "raise")
          /\ UNCHANGED <<wifi, job, helped>>
       \/ /\ ~valid /\ wifi = "previous" /\ wifi' = "ongoing"
          /\ \E h \in Helpers : /\ Help(h, "reconnect")
                                /\ at' = [at EXCEPT ![t] = "raise", ![h] = "forget"]
          /\ UNCHANGED connected
       \/ /\ ~valid /\ wifi = "disabled"
          /\ \E h \in Helpers : /\ Help(h, "hostap")
                                /\ at' = [at EXCEPT ![t] = "raise", ![h] = "drop"]
          /\ UNCHANGED <<connected, wifi>>
  /\ UNCHANGED <<scene, switching, flags, started, running, playing, holder, next, back,
                 count,
                 owed>>

\* hccast_scene_set_mira_is_restarting(0), whatever the scene was.
Heard(t) ==
  /\ at[t] = "heard"
  /\ restarting' = FALSE
  /\ Goto(t, back[t]) /\ back' = [back EXCEPT ![t] = "idle"]
  /\ UNCHANGED <<scene, switching, need, tick, service, playing, holder, next, wifi, job,
                 helped, count, owed>>

\* A helper notes that the phone is gone, first or last.
Drop(h) ==
  /\ at[h] = "drop" /\ holder["svr"] = Free
  /\ connected' = FALSE
  /\ Goto(h, IF job[h] = "reconnect" THEN "calm" ELSE "stat")
  /\ UNCHANGED <<scene, switching, flags, started, running, playing, holder, next, session,
                 count, owed>>

Calm(h) ==
  /\ at[h] = "calm"
  /\ wifi' = "none"
  /\ Goto(h, "none")
  /\ UNCHANGED <<scene, switching, flags, service, playing, holder, next, back, job, helped,
                 count, owed>>
-----------------------------------------------------------------------------
(* The end of hccast_scene_mira_restart_check *)

\* Mutant: the request is cleared after the mutex is given back.
Done_AfterUnlock ==
  /\ at[Restarter] = "done"
  /\ IF holder["scene"] = Restarter THEN Give("scene") /\ UNCHANGED <<need, tick, at>>
     ELSE need' = FALSE /\ tick' = "zero" /\ Goto(Restarter, "look") /\ UNCHANGED holder
  /\ UNCHANGED <<scene, switching, restarting, service, playing, next, session, count,
                 owed>>

Done ==
  /\ at[Restarter] = "done"
  /\ need' = FALSE /\ tick' = "zero"
  /\ Goto(Restarter, "leave")
  /\ UNCHANGED <<scene, switching, restarting, service, playing, holder, next, session,
                 count, owed>>

Leave ==
  /\ at[Restarter] = "leave" /\ Give("scene")
  /\ Goto(Restarter, "look")
  /\ UNCHANGED <<scene, switching, flags, service, playing, next, session, count, owed>>
-----------------------------------------------------------------------------
(* p2p_ctrl_wext_thread and the phone *)

Poll ==
  /\ at[Poller] = "poll"
  /\ Goto(Poller, IF running THEN "state" ELSE "none")
  /\ UNCHANGED <<scene, switching, flags, service, playing, holder, next, session, count,
                 owed>>

NoEvent ==
  /\ at[Poller] = "state" /\ holder["svr"] = Free
  /\ Goto(Poller, "poll")
  /\ UNCHANGED <<scene, switching, flags, service, playing, holder, next, session, count,
                 owed>>

\* HCCAST_P2P_STATE_CONNECTING outside the scene of Miracast
PhoneJoins ==
  /\ at[Poller] = "state" /\ holder["svr"] = Free /\ started
  /\ scene # "MIRACAST" /\ joins < MaxJoins /\ casts + joins < MaxComers
  /\ joins' = joins + 1
  /\ Goto(Poller, "offer")
  /\ UNCHANGED <<scene, switching, flags, service, playing, holder, next, session, casts,
                 owed>>

\* The access point the player was connected to will be restored, or its own
\* started again.
Offer ==
  /\ at[Poller] = "offer" /\ holder["svr"] = Free
  /\ connected' = TRUE /\ wifi' \in {"previous", "disabled"}
  /\ Goto(Poller, "wait")
  /\ UNCHANGED <<scene, switching, flags, started, running, playing, holder, next, back,
                 job,
                 helped, count, owed>>

\* WFD_SET_SSID_DONE: the library listens again once the phone has gone.
PhoneLeaves ==
  /\ at[Library] = "idle" /\ connected /\ started
  /\ Goto(Library, "leaving")
  /\ UNCHANGED <<scene, switching, flags, service, playing, holder, next, session, count,
                 owed>>

Elapse ==
  /\ tick = "armed" /\ tick' = "due"
  /\ UNCHANGED <<scene, switching, need, restarting, service, playing, holder, at, next,
                 session,
                 count, owed>>
-----------------------------------------------------------------------------
Switch(t) == Wait(t) \/ Raise(t) \/ Change(t) \/ Lower(t)
Stop(t) ==
  \/ Stat(t) \/ Forget(t) \/ StopService(t) \/ Halt(t) \/ Uninit(t) \/ Join(t)
StopForScene(t) == Lock(t) \/ Stop(t) \/ Remember(t) \/ Unlock(t)
Listen(t) == Hear(t) \/ Ask(t) \/ Answer(t) \/ Switch(t) \/ Heard(t)
Start(t) == StartService(t) \/ InitP2p(t) \/ On(t) \/ Listen(t)
Restart ==
  \/ Look \/ Arm \/ Due \/ Quiet \/ Off \/ Claim \/ Enter \/ Clear
  \/ Start(Restarter) \/ Done \/ Leave
Restore(h) == Stop(h) \/ Start(h) \/ Drop(h) \/ Calm(h)
PollPhone == Poll \/ NoEvent \/ Offer \/ Switch(Poller)

Next ==
  \/ \E t \in Casters :
       Begin(t) \/ Switch(t) \/ StopForScene(t) \/ Rest(t) \/ MediaStops(t) \/ End(t)
  \/ Restart \/ PollPhone \/ PhoneJoins \/ PhoneLeaves \/ Listen(Library) \/ Elapse
  \/ \E h \in Helpers : Restore(h)

\* Every thread is scheduled and time passes; media need not end, nor a phone come.
Fairness ==
  /\ \A t \in Casters : WF_vars(Switch(t) \/ StopForScene(t) \/ End(t))
  /\ WF_vars(Restart) /\ WF_vars(PollPhone) /\ WF_vars(Listen(Library)) /\ WF_vars(Elapse)
  /\ \A h \in Helpers : WF_vars(Restore(h))

Spec == Init /\ [][Next]_vars /\ Fairness
-----------------------------------------------------------------------------
FlagTypes ==
  /\ scene \in Scenes /\ tick \in {"zero", "armed", "due"}
  /\ switching \in BOOLEAN /\ need \in BOOLEAN /\ restarting \in BOOLEAN
  /\ started \in BOOLEAN /\ running \in BOOLEAN /\ connected \in BOOLEAN
  /\ wifi \in {"none", "previous", "ongoing", "disabled"}
  /\ playing \subseteq Casters /\ owed \in BOOLEAN /\ helped \subseteq Jobs

PlaceTypes ==
  /\ holder \in [Mutexes -> Threads \cup {Free}]
  /\ \A t \in Casters : at[t] \in Switching \cup Stopping \cup {"idle", "cast", "ending"}
  /\ at[Restarter] \in Starting \cup Restarting \cup {"look"}
  /\ at[Poller] \in Switching \cup {"none", "poll", "state", "offer"}
  /\ at[Library] \in Hearing \cup {"idle", "leaving"}
  /\ \A h \in Helpers : at[h] \in Starting \cup Helping

\* Types. The polling thread never gets to the stop of Miracast, where it
\* would wait for its own end (hccast_scene.c:269).
TypeOK == FlagTypes /\ PlaceTypes

\* As long as the application restores the network itself, a switch that
\* stopped Miracast for a cast leaves the request to start it again standing
\* until it is started, whatever the restart thread is about to clear
\* (hccast_scene.c:276 against :494).  The exception is a thread that restores
\* it: its stop clears the request out of turn (hccast_mira_service.c:498).
StopRemembered == helped = {} /\ owed => need

\* While the scene is that of a cast, Miracast is off, also for a second cast
\* into a scene the first one left behind, which has nothing to switch ("reset
\* scene every time when mira restart. for is nothing to do case.",
\* hccast_scene.c:489).  The exception is the thread that restores the access
\* point: it starts Miracast without the mutex (hccast_mira_service.c:164).
SceneAlone ==
  "hostap" \notin helped =>
    \A t \in Casters : at[t] = "cast" /\ next[t] = t /\ scene = t => ~started

\* hccast_scene_switch returns, although it may wait for a flag only the p2p
\* event clears (hccast_scene.c:249), for two mutexes and for a thread to end;
\* again unless a thread that restores the network stops or starts Miracast
\* beside the switch.
SwitchEnds ==
  \A t \in Casters \cup {Poller} :
    []<>(at[t] \notin Switching \cup Stopping \/ helped # {})

\* Miracast that is wanted comes back when the scene stays idle: no switch
\* leaves scene_switching up behind it (hccast_scene.c:265).
RestartComes == []<>(started \/ ~Idle \/ ~need \/ helped # {})

-----------------------------------------------------------------------------
(* Without the exceptions, which the code does not keep. *)

RequestNeverLost == owed => need
NeverBeside ==
  \A t \in Casters : at[t] = "cast" /\ next[t] = t /\ scene = t => ~started
SwitchesEnd == \A t \in Casters \cup {Poller} : []<>(at[t] \notin Switching \cup Stopping)
=============================================================================
