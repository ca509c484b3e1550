------------------------------ MODULE WifiMode ------------------------------
(***************************************************************************)
(* How the device moves between access point and station: user/wifi.c,     *)
(* user/network_cmds.c and user/user_main.c, built with USE_AS_LOCATOR.     *)
(*                                                                         *)
(* At boot the device tries the saved network for 7 s and then becomes an   *)
(* access point.  A Connect command makes it try a network; losing that     *)
(* network, or never reaching it, restarts the device.  Two flags tell the  *)
(* handler of Wi-Fi events whether a DISCONNECTED event means a restart.    *)
(* Events are queued by the SDK and handled later, so that handlers, timers *)
(* and commands see each other's effects in any order.                      *)
(***************************************************************************)
EXTENDS Naturals, Sequences

CONSTANT MaxEvents  \* Wi-Fi events the radio may have pending

ASSUME WifiAssumption == MaxEvents \in Nat \ {0}

VARIABLES
  opmode,      \* wifi_get_opmode; survives a restart
  saved,       \* a network is in the station configuration; survives a restart
  connected,   \* HAS_BEEN_CONNECTED_AS_STATION
  instructed,  \* HAS_RECEIVED_CONNECT_INSTRUCTION
  handler,     \* the registered event handler: sta_wifi_handler or the empty one
  connectTimer,\* wifi_connect_timer is armed
  initDue,     \* init_done is to be called, after boot or by init_done_timer
  link,        \* the station interface
  events,      \* events the SDK has not delivered yet
  server,      \* server_init_tcp has succeeded; the server is never stopped
  mqtt,        \* the MQTT client has been started
  restarting,  \* system_restart has been called
  attempt,     \* a network was joined or asked for in this session, that is
               \* since the restart and since go_back_to_ap
  stale,       \* go_back_to_ap ran while a GOT_IP was pending
  sdkFailed    \* an SDK call has failed since the restart

persistent == <<opmode, saved>>
flags      == <<connected, instructed>>
ghosts     == <<attempt, stale, sdkFailed>>
vars == <<persistent, flags, handler, connectTimer, initDue, link, events,
          server, mqtt, restarting, ghosts>>

Modes == {"NONE", "SOFTAP", "STATIONAP"}

\* What wifi_set_opmode(to) leaves when it was from, with ok whether it succeeds.
SetOpmode(from, to, ok) == IF ok THEN to ELSE from

AutoConnect(mode, known) == IF known /\ mode = "STATIONAP" THEN "joining" ELSE "down"

\* user_init: wifi_init sets the mode (its result is not looked at), the handler
\* and the timer, and leaves init_done to the SDK, which connects to the saved
\* network by itself.
Init ==
  \E mode \in Modes, ok \in BOOLEAN :
    /\ opmode = SetOpmode(mode, "STATIONAP", ok) /\ sdkFailed = ~ok
    /\ saved \in BOOLEAN
    /\ connected = FALSE /\ instructed = FALSE
    /\ handler = "sta" /\ connectTimer = TRUE /\ initDue = TRUE
    /\ link = AutoConnect(opmode, saved)
    /\ events = << >> /\ server = FALSE /\ mqtt = FALSE /\ restarting = FALSE
    /\ attempt = FALSE /\ stale = FALSE

\* system_restart takes effect some time after it was called.
Restart ==
  /\ restarting
  /\ \E ok \in BOOLEAN :
       opmode' = SetOpmode(opmode, "STATIONAP", ok) /\ sdkFailed' = ~ok
  /\ saved' = saved
  /\ connected' = FALSE /\ instructed' = FALSE
  /\ handler' = "sta" /\ connectTimer' = TRUE /\ initDue' = TRUE
  /\ link' = AutoConnect(opmode', saved)
  /\ events' = << >> /\ server' = FALSE /\ mqtt' = FALSE /\ restarting' = FALSE
  /\ attempt' = FALSE /\ stale' = FALSE

-----------------------------------------------------------------------------
(* The radio. *)

JoinOk ==
  /\ link = "joining" /\ Len(events) < MaxEvents
  /\ link' = "up"
  /\ events' = Append(events, "GOT_IP")
  /\ attempt' = TRUE
  /\ UNCHANGED <<persistent, flags, handler, connectTimer, initDue, server, mqtt,
                 restarting, stale, sdkFailed>>

\* The SDK goes on trying after a failure.
JoinFail ==
  /\ link = "joining" /\ Len(events) < MaxEvents
  /\ events' = Append(events, "DISCONNECTED")
  /\ UNCHANGED <<persistent, flags, handler, connectTimer, initDue, link, server,
                 mqtt, restarting, ghosts>>

LinkLost ==
  /\ link = "up" /\ Len(events) < MaxEvents
  /\ link' = "joining"
  /\ events' = Append(events, "DISCONNECTED")
  /\ UNCHANGED <<persistent, flags, handler, connectTimer, initDue, server, mqtt,
                 restarting, ghosts>>

\* (A bug) Taking down an interface that has no network is an event as well.
DownAlways == Append(events, "DISCONNECTED")

\* Taking the station interface down when it has a network is an event, too.
Down == IF link = "up" THEN Append(events, "DISCONNECTED") ELSE events

-----------------------------------------------------------------------------
(* wifi.c: the event handlers. *)

Delivered(e) == events # << >> /\ Head(events) = e

\* (A bug) The handler stays registered until the restart.
DisconnectedHandled ==
  /\ Delivered("DISCONNECTED") /\ handler = "sta" /\ (connected \/ instructed)
  /\ mqtt' = FALSE /\ link' = "down" /\ events' = Tail(Down)
  /\ restarting' = TRUE
  /\ UNCHANGED <<persistent, flags, handler, connectTimer, initDue, server, ghosts>>

\* sta_wifi_handler on DISCONNECTED, when a flag says that the network that was
\* lost, or not found, is one of this session.
DisconnectedRestart ==
  /\ Delivered("DISCONNECTED") /\ handler = "sta" /\ (connected \/ instructed)
  /\ mqtt' = FALSE
  /\ link' = "down"
  /\ events' = Tail(Down)
  /\ handler' = "empty"
  /\ restarting' = TRUE
  /\ UNCHANGED <<persistent, flags, connectTimer, initDue, server, ghosts>>

DisconnectedIgnored ==
  /\ Delivered("DISCONNECTED") /\ (handler = "empty" \/ ~(connected \/ instructed))
  /\ events' = Tail(events)
  /\ UNCHANGED <<persistent, flags, handler, connectTimer, initDue, link, server,
                 mqtt, restarting, ghosts>>

\* sta_server_init needs the station's address; it may fail before or after the
\* TCP server listens.
StaServerInit ==
  \/ server' = TRUE /\ sdkFailed' = sdkFailed
  \/ server' \in {server, TRUE} /\ sdkFailed' = (sdkFailed \/ link = "up")

\* sta_wifi_handler on GOT_IP.
GotIp ==
  /\ Delivered("GOT_IP")
  /\ events' = Tail(events)
  /\ IF handler = "empty"
     THEN UNCHANGED <<connected, server, mqtt, sdkFailed>>
     ELSE /\ connected' = TRUE
          /\ StaServerInit
          /\ mqtt' = TRUE
  /\ UNCHANGED <<persistent, instructed, handler, connectTimer, initDue, link,
                 restarting, attempt, stale>>

-----------------------------------------------------------------------------
(* network_cmds.c *)

\* start_access_point, after a wifi_set_opmode of its caller: it may fail with the
\* mode set or not.
StartAccessPoint(ok) ==
  /\ opmode' \in {"SOFTAP", SetOpmode(opmode, "SOFTAP", ok)}
  /\ sdkFailed' = (sdkFailed \/ ~ok)

\* (A bug) The flag of the connection survives.
ForgetInstruction == connected' = connected /\ instructed' = FALSE /\ attempt' = FALSE

ForgetStation == connected' = FALSE /\ instructed' = FALSE /\ attempt' = FALSE

\* init_done in access point mode: ap_server_init may fail.
ApServerInit == \/ server' = TRUE /\ sdkFailed' = sdkFailed
                \/ server' \in {server, TRUE} /\ sdkFailed' = TRUE

\* go_back_to_ap does nothing in access point mode.  From station mode the flags
\* are reset before the interface goes down, so that the DISCONNECTED that follows
\* is ignored, and init_done is left to a timer of 1 ms; from an invalid mode
\* init_done is called at once.
GoBackToAp ==
  \/ /\ opmode = "SOFTAP"
     /\ UNCHANGED <<persistent, flags, link, events, initDue, server, ghosts>>
  \/ /\ opmode = "NONE"
     /\ ForgetStation
     /\ \/ opmode' = "SOFTAP" /\ ApServerInit
        \/ StartAccessPoint(FALSE) /\ UNCHANGED server
     /\ UNCHANGED <<saved, link, events, initDue, stale>>
  \/ /\ opmode = "STATIONAP"
     /\ ForgetStation
     /\ \E ok \in BOOLEAN :
          /\ StartAccessPoint(ok)
          /\ initDue' = (initDue \/ ok)
     /\ link' \in IF opmode' = "SOFTAP" THEN {"down"} ELSE {"down", link}
     /\ events' = IF link' = "down" THEN Down ELSE events
     /\ stale' = (stale \/ \E i \in 1..Len(events) : events[i] = "GOT_IP")
     /\ UNCHANGED <<saved, server>>

\* The Run AP command.
RunAp ==
  /\ server
  /\ GoBackToAp
  /\ UNCHANGED <<handler, connectTimer, mqtt, restarting>>

\* The Connect command: connect_to_network, whose start_station may fail at any
\* of its three SDK calls without anybody noticing.
Connect ==
  /\ server
  /\ instructed' = TRUE
  /\ attempt' = TRUE
  /\ \/ /\ opmode' = "STATIONAP" /\ saved' = TRUE
        /\ link' = "joining" /\ events' = Down
        /\ sdkFailed' = sdkFailed
     \/ /\ opmode' \in {opmode, "STATIONAP"}
        /\ saved' \in IF opmode' = "STATIONAP" THEN {saved, TRUE} ELSE {saved}
        /\ sdkFailed' = TRUE
        /\ UNCHANGED <<link, events>>
  /\ UNCHANGED <<connected, handler, connectTimer, initDue, server, mqtt,
                 restarting, stale>>

-----------------------------------------------------------------------------
(* The timers and user_main.c. *)

\* wifi_timer_cb, 7 s after boot whatever happened in between.
ConnectTimeout ==
  /\ connectTimer
  /\ connectTimer' = FALSE
  /\ IF connected
     THEN UNCHANGED <<persistent, flags, link, events, initDue, server, ghosts>>
     ELSE GoBackToAp
  /\ UNCHANGED <<handler, mqtt, restarting>>

\* (A bug) init_done does not start the server.
InitDoneQuiet ==
  /\ initDue
  /\ initDue' = FALSE
  /\ UNCHANGED <<persistent, flags, handler, connectTimer, link, events, mqtt,
                 restarting, ghosts, server>>

\* init_done, after boot or 1 ms after go_back_to_ap.
InitDone ==
  /\ initDue
  /\ initDue' = FALSE
  /\ IF opmode = "SOFTAP" THEN ApServerInit ELSE UNCHANGED <<server, sdkFailed>>
  /\ UNCHANGED <<persistent, flags, handler, connectTimer, link, events, mqtt,
                 restarting, attempt, stale>>

-----------------------------------------------------------------------------
Radio    == JoinOk \/ JoinFail \/ LinkLost
Handle   == DisconnectedRestart \/ DisconnectedIgnored \/ GotIp
Next == Radio \/ Handle \/ RunAp \/ Connect \/ ConnectTimeout \/ InitDone \/ Restart

Spec == Init /\ [][Next]_vars

\* The SDK delivers its events and timers and restarts when asked to; an attempt
\* to join a network ends.  Nothing is assumed of users and routers.
Fairness == /\ WF_vars(Handle) /\ WF_vars(ConnectTimeout) /\ WF_vars(InitDone)
            /\ WF_vars(Restart) /\ WF_vars(JoinOk \/ JoinFail)

FairSpec == Spec /\ Fairness

-----------------------------------------------------------------------------
(* Properties. *)

\* The shape of the state.
TypeOK ==
  /\ opmode \in Modes
  /\ saved \in BOOLEAN /\ connected \in BOOLEAN /\ instructed \in BOOLEAN
  /\ connectTimer \in BOOLEAN /\ initDue \in BOOLEAN
  /\ server \in BOOLEAN /\ mqtt \in BOOLEAN /\ restarting \in BOOLEAN
  /\ attempt \in BOOLEAN /\ stale \in BOOLEAN /\ sdkFailed \in BOOLEAN
  /\ handler \in {"sta", "empty"}
  /\ link \in {"down", "joining", "up"}
  /\ events \in Seq({"GOT_IP", "DISCONNECTED"}) /\ Len(events) <= MaxEvents + 1

\* wifi.c:70-75: a DISCONNECTED event restarts the device only when a network was
\* joined or asked for in this session.  So a wrong password, or a network that
\* was there last time, does not make it restart again and again, and the
\* events go_back_to_ap causes restart nothing (unless a GOT_IP was on its way).
RestartOnlyFromSession ==
  [][~restarting /\ restarting' => attempt \/ stale]_vars

\* A device that waits for its restart is quiet: whatever events come before it, no
\* handler starts the MQTT client again.  (What an event that is pending in the
\* client's own task does then is up to MqttClient.)
QuietRestart == restarting => ~mqtt

\* A device can always be reached again: its server runs and it is an access point
\* or has joined a network.  (Except when an SDK call fails; when go_back_to_ap ran
\* while a GOT_IP was on its way: that race restarts the device, and may be
\* lost after each restart; and when the network is lost, session after session,
\* before the GOT_IP of its joining is handled: that finds no address to listen on.)
Reachable == server /\ (opmode = "SOFTAP" \/ link = "up")
Flap == LinkLost /\ \E i \in 1..Len(events) : events[i] = "GOT_IP"
AlwaysReachable == []<>(Reachable \/ sdkFailed \/ stale) \/ []<><<Flap>>_vars

\* wifi.c:66: an instruction to connect ends in a connection or, when it was
\* unsuccessful, in a restart, if the user does not ask for Run AP (and no call of
\* the SDK fails).
InstructionKept ==
  [][instructed /\ ~instructed' => restarting \/ RunAp \/ sdkFailed']_vars

=============================================================================
