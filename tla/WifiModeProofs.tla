--------------------------- MODULE WifiModeProofs ---------------------------
(***************************************************************************)
(* Theorems about WifiMode for any number of pending radio events.          *)
(***************************************************************************)
EXTENDS WifiMode, TLAPS

RadioEvents == {"GOT_IP", "DISCONNECTED"}

GotIpPending == \E i \in 1..Len(events) : events[i] = "GOT_IP"

\* The radio leaves room for the event of taking the interface down.
RoomForDown == link = "up" => Len(events) <= MaxEvents

\* Behind each flag, and behind each GOT_IP that is still to be handled, there is a network
\* of this session.
FlagsEarned == connected \/ instructed \/ GotIpPending => attempt \/ stale

\* A mode that was never set has neither a network nor a client.
NoneIsIdle == opmode = "NONE" => link = "down" /\ events = << >> /\ ~server

\* Who has called for a restart has unregistered the handler first, and stopped MQTT.
RestartIsDeaf == restarting => handler = "empty" /\ ~mqtt

Inv == TypeOK /\ RoomForDown /\ FlagsEarned /\ NoneIsIdle /\ RestartIsDeaf

-----------------------------------------------------------------------------
(* Sequences of events. *)

LEMMA AppendEvent ==
  ASSUME NEW q \in Seq(RadioEvents), NEW e \in RadioEvents
  PROVE  /\ Append(q, e) \in Seq(RadioEvents)
         /\ Len(Append(q, e)) = Len(q) + 1 /\ Len(q) \in Nat
         /\ (\E i \in 1..Len(Append(q, e)) : Append(q, e)[i] = "GOT_IP")
              => e = "GOT_IP" \/ \E i \in 1..Len(q) : q[i] = "GOT_IP"
<1>1. /\ Append(q, e) \in Seq(RadioEvents)
      /\ Len(Append(q, e)) = Len(q) + 1 /\ Len(q) \in Nat
      /\ \A i \in 1..Len(q) : Append(q, e)[i] = q[i]
      /\ Append(q, e)[Len(q) + 1] = e
  OBVIOUS
<1>2. ASSUME NEW i \in 1..Len(Append(q, e)), Append(q, e)[i] = "GOT_IP", e # "GOT_IP"
      PROVE  \E j \in 1..Len(q) : q[j] = "GOT_IP"
  <2>1. i \in 1..Len(q) BY <1>1, <1>2
  <2> QED BY <1>1, <1>2, <2>1
<1> QED BY <1>1, <1>2

LEMMA TailEvent ==
  ASSUME NEW q \in Seq(RadioEvents), q # << >>
  PROVE  /\ Head(q) \in RadioEvents
         /\ Tail(q) \in Seq(RadioEvents)
         /\ Len(Tail(q)) = Len(q) - 1 /\ Len(q) \in Nat \ {0}
         /\ Head(q) = q[1]
         /\ (\E i \in 1..Len(Tail(q)) : Tail(q)[i] = "GOT_IP")
              => \E i \in 1..Len(q) : q[i] = "GOT_IP"
<1>1. /\ Head(q) \in RadioEvents /\ Tail(q) \in Seq(RadioEvents)
      /\ Len(Tail(q)) = Len(q) - 1 /\ Len(q) \in Nat \ {0}
      /\ Head(q) = q[1]
      /\ \A i \in 1..Len(Tail(q)) : Tail(q)[i] = q[i + 1]
  OBVIOUS
<1>2. ASSUME NEW i \in 1..Len(Tail(q)), Tail(q)[i] = "GOT_IP"
      PROVE  \E j \in 1..Len(q) : q[j] = "GOT_IP"
  <2>1. i + 1 \in 1..Len(q) BY <1>1
  <2> QED BY <1>1, <1>2, <2>1
<1> QED BY <1>1, <1>2

\* Taking the interface down adds at most a DISCONNECTED, for which there is room.
LEMMA DownEvents ==
  ASSUME TypeOK, RoomForDown
  PROVE  /\ Down \in Seq(RadioEvents) /\ Len(Down) <= MaxEvents + 1
         /\ (\E i \in 1..Len(Down) : Down[i] = "GOT_IP") => GotIpPending
<1>1. events \in Seq(RadioEvents) /\ Len(events) <= MaxEvents + 1 /\ MaxEvents \in Nat
  BY WifiAssumption DEF TypeOK, RadioEvents
<1>2. CASE link = "up"
  <2>1. Down = Append(events, "DISCONNECTED") /\ "DISCONNECTED" \in RadioEvents
    BY <1>2 DEF Down, RadioEvents
  <2>2. Len(events) <= MaxEvents BY <1>2 DEF RoomForDown
  <2> QED BY <1>1, <2>1, <2>2, AppendEvent DEF GotIpPending
<1>3. CASE link # "up" BY <1>1, <1>3 DEF Down, GotIpPending
<1> QED BY <1>2, <1>3

-----------------------------------------------------------------------------
LEMMA InitInv == Init => Inv
<1> SUFFICES ASSUME Init PROVE Inv OBVIOUS
<1>1. << >> \in Seq(RadioEvents) /\ Len(<< >>) = 0 OBVIOUS
<1>2. events = << >> /\ MaxEvents \in Nat BY WifiAssumption DEF Init
<1>3. TypeOK
  <2>1. opmode \in Modes BY DEF Init, SetOpmode, Modes
  <2>2. link \in {"down", "joining", "up"} BY DEF Init, AutoConnect
  <2>3. handler \in {"sta", "empty"} BY DEF Init
  <2>4. /\ saved \in BOOLEAN /\ connected \in BOOLEAN /\ instructed \in BOOLEAN
        /\ connectTimer \in BOOLEAN /\ initDue \in BOOLEAN
        /\ server \in BOOLEAN /\ mqtt \in BOOLEAN /\ restarting \in BOOLEAN
        /\ attempt \in BOOLEAN /\ stale \in BOOLEAN /\ sdkFailed \in BOOLEAN
    BY DEF Init
  <2> QED BY <1>1, <1>2, <2>1, <2>2, <2>3, <2>4 DEF TypeOK, RadioEvents
<1>4. RoomForDown BY <1>1, <1>2 DEF RoomForDown
<1>5. FlagsEarned
  <2>1. ~GotIpPending BY <1>1, <1>2 DEF GotIpPending
  <2> QED BY <2>1 DEF Init, FlagsEarned
<1>6. NoneIsIdle BY DEF Init, NoneIsIdle, AutoConnect
<1>7. RestartIsDeaf BY DEF Init, RestartIsDeaf
<1> QED BY <1>3, <1>4, <1>5, <1>6, <1>7 DEF Inv

\* go_back_to_ap keeps the invariant, whoever calls it: the Run AP command or the timer.
LEMMA GoBackKeepsInv ==
  ASSUME Inv, GoBackToAp,
         UNCHANGED <<handler, mqtt, restarting>>, connectTimer' \in BOOLEAN
  PROVE  Inv'
<1> USE DEF Inv
<1>1. /\ Down \in Seq(RadioEvents) /\ Len(Down) <= MaxEvents + 1
      /\ (\E i \in 1..Len(Down) : Down[i] = "GOT_IP") => GotIpPending
  BY DownEvents
<1>2. CASE UNCHANGED <<persistent, flags, link, events, initDue, server, ghosts>>
  BY <1>2 DEF persistent, flags, ghosts, TypeOK, RoomForDown, FlagsEarned, GotIpPending,
              NoneIsIdle, RestartIsDeaf
<1>3. CASE /\ opmode = "NONE"
           /\ ForgetStation
           /\ \/ opmode' = "SOFTAP" /\ ApServerInit
              \/ StartAccessPoint(FALSE) /\ UNCHANGED server
           /\ UNCHANGED <<saved, link, events, initDue, stale>>
  <2>1. ~GotIpPending /\ link = "down" /\ ~server
    BY <1>3 DEF NoneIsIdle, GotIpPending
  <2>2. /\ opmode' \in {"SOFTAP", "NONE"} /\ sdkFailed' \in BOOLEAN /\ server' \in BOOLEAN
        /\ opmode' = "NONE" => ~server'
    <3>1. server \in BOOLEAN /\ sdkFailed \in BOOLEAN BY DEF TypeOK
    <3>2. CASE opmode' = "SOFTAP" /\ ApServerInit BY <3>1, <3>2 DEF ApServerInit
    <3>3. CASE StartAccessPoint(FALSE) /\ UNCHANGED server
      BY <1>3, <2>1, <3>1, <3>3 DEF StartAccessPoint, SetOpmode
    <3> QED BY <1>3, <3>2, <3>3
  <2> QED BY <1>3, <2>1, <2>2 DEF ForgetStation, TypeOK, RoomForDown, FlagsEarned,
        GotIpPending, NoneIsIdle, RestartIsDeaf, Modes
<1>4. CASE /\ opmode = "STATIONAP"
           /\ ForgetStation
           /\ \E ok \in BOOLEAN :
                /\ StartAccessPoint(ok)
                /\ initDue' = (initDue \/ ok)
           /\ link' \in IF opmode' = "SOFTAP" THEN {"down"} ELSE {"down", link}
           /\ events' = IF link' = "down" THEN Down ELSE events
           /\ stale' = (stale \/ \E i \in 1..Len(events) : events[i] = "GOT_IP")
           /\ UNCHANGED <<saved, server>>
  <2>1. opmode' \in {"SOFTAP", "STATIONAP"} /\ sdkFailed' \in BOOLEAN /\ initDue' \in BOOLEAN
    BY <1>4 DEF StartAccessPoint, SetOpmode, TypeOK
  <2>2. link' \in {"down", link} BY <1>4
  <2>3. stale' = (stale \/ GotIpPending) BY <1>4 DEF GotIpPending
  <2>4. events' \in Seq(RadioEvents) /\ Len(events') <= MaxEvents + 1
    BY <1>1, <1>4 DEF TypeOK, RadioEvents
  <2>5. GotIpPending' => GotIpPending BY <1>1, <1>4 DEF GotIpPending
  <2>6. TypeOK'
    <3>1. stale' \in BOOLEAN BY <2>3, Zenon DEF TypeOK, GotIpPending
    <3> QED BY <1>4, <2>1, <2>2, <2>4, <3>1 DEF ForgetStation, TypeOK, RadioEvents, Modes
  <2>7. RoomForDown' BY <1>4, <2>2 DEF RoomForDown
  <2>8. FlagsEarned' BY <1>4, <2>3, <2>5 DEF ForgetStation, FlagsEarned
  <2>9. NoneIsIdle' BY <2>1 DEF NoneIsIdle
  <2>10. RestartIsDeaf' BY DEF RestartIsDeaf
  <2> QED BY <2>6, <2>7, <2>8, <2>9, <2>10
<1> QED BY <1>2, <1>3, <1>4 DEF GoBackToAp, persistent, flags, ghosts

LEMMA NextInv == Inv /\ [Next]_vars => Inv'
<1> SUFFICES ASSUME Inv, [Next]_vars PROVE Inv' OBVIOUS
<1> USE DEF Inv
<1>0. /\ events \in Seq(RadioEvents) /\ Len(events) <= MaxEvents + 1
      /\ MaxEvents \in Nat /\ "GOT_IP" \in RadioEvents /\ "DISCONNECTED" \in RadioEvents
  BY WifiAssumption DEF TypeOK, RadioEvents
<1>d. /\ Down \in Seq(RadioEvents) /\ Len(Down) <= MaxEvents + 1
      /\ (\E i \in 1..Len(Down) : Down[i] = "GOT_IP") => GotIpPending
  BY DownEvents
<1>1. CASE JoinOk
  <2>1. /\ events' \in Seq(RadioEvents) /\ Len(events') <= MaxEvents
        /\ opmode # "NONE"
    BY <1>0, <1>1, AppendEvent DEF JoinOk, NoneIsIdle
  <2> QED BY <1>0, <1>1, <2>1 DEF JoinOk, persistent, flags, TypeOK, RoomForDown,
        FlagsEarned, NoneIsIdle, RestartIsDeaf, RadioEvents
<1>2. CASE JoinFail
  <2>1. /\ events' \in Seq(RadioEvents) /\ Len(events') <= MaxEvents
        /\ GotIpPending' => GotIpPending
        /\ opmode # "NONE"
    BY <1>0, <1>2, AppendEvent DEF JoinFail, NoneIsIdle, GotIpPending
  <2> QED BY <1>0, <1>2, <2>1 DEF JoinFail, persistent, flags, ghosts, TypeOK, RoomForDown,
        FlagsEarned, NoneIsIdle, RestartIsDeaf, RadioEvents
<1>3. CASE LinkLost
  <2>1. /\ events' \in Seq(RadioEvents) /\ Len(events') <= MaxEvents
        /\ GotIpPending' => GotIpPending
        /\ opmode # "NONE"
    BY <1>0, <1>3, AppendEvent DEF LinkLost, NoneIsIdle, GotIpPending
  <2> QED BY <1>0, <1>3, <2>1 DEF LinkLost, persistent, flags, ghosts, TypeOK, RoomForDown,
        FlagsEarned, NoneIsIdle, RestartIsDeaf, RadioEvents
<1>4. CASE DisconnectedRestart
  <2>1. Down # << >> /\ events' = Tail(Down)
    <3>1. events # << >> BY <1>4 DEF DisconnectedRestart, Delivered
    <3>2. Len(Append(events, "DISCONNECTED")) = Len(events) + 1 /\ Len(events) \in Nat
      BY <1>0, AppendEvent
    <3>3. Append(events, "DISCONNECTED") # << >> BY <3>2
    <3> QED BY <1>4, <3>1, <3>3 DEF DisconnectedRestart, Down
  <2>2. /\ events' \in Seq(RadioEvents) /\ Len(events') <= MaxEvents
        /\ GotIpPending' => GotIpPending
    BY <1>0, <1>d, <2>1, TailEvent DEF GotIpPending
  <2>3. TypeOK'
    <3>1. /\ UNCHANGED <<opmode, saved, connected, instructed, connectTimer, initDue, server,
                          attempt, stale, sdkFailed>>
          /\ handler' = "empty" /\ link' = "down" /\ mqtt' = FALSE /\ restarting' = TRUE
      BY <1>4 DEF DisconnectedRestart, persistent, flags, ghosts
    <3>2. Len(events') <= MaxEvents + 1 BY <1>0, <2>2
    <3> QED BY <2>2, <3>1, <3>2 DEF TypeOK, RadioEvents
  <2>4. RoomForDown' /\ NoneIsIdle' /\ RestartIsDeaf'
    BY <1>4 DEF DisconnectedRestart, persistent, Delivered, RoomForDown, NoneIsIdle, RestartIsDeaf
  <2>5. FlagsEarned' BY <1>4, <2>2 DEF DisconnectedRestart, flags, ghosts, FlagsEarned
  <2> QED BY <2>3, <2>4, <2>5
<1>5. CASE DisconnectedIgnored
  <2>1. /\ events' \in Seq(RadioEvents) /\ Len(events') <= MaxEvents
        /\ GotIpPending' => GotIpPending
    BY <1>0, <1>5, TailEvent DEF DisconnectedIgnored, Delivered, GotIpPending
  <2> QED BY <1>0, <1>5, <2>1 DEF DisconnectedIgnored, Delivered, persistent, flags, ghosts,
        TypeOK, RoomForDown, FlagsEarned, NoneIsIdle, RestartIsDeaf, RadioEvents
<1>6. CASE GotIp
  <2>1. /\ events' \in Seq(RadioEvents) /\ Len(events') <= MaxEvents
        /\ GotIpPending' => GotIpPending
        /\ GotIpPending /\ opmode # "NONE"
    <3>1. events # << >> /\ Head(events) = "GOT_IP" /\ events' = Tail(events)
      BY <1>6 DEF GotIp, Delivered
    <3>2. 1 \in 1..Len(events) /\ events[1] = "GOT_IP" BY <1>0, <3>1, TailEvent
    <3>3. GotIpPending BY <3>2 DEF GotIpPending
    <3> QED BY <1>0, <3>1, <3>3, TailEvent DEF GotIpPending, NoneIsIdle
  <2>2. attempt \/ stale BY <2>1 DEF FlagsEarned
  <2>3. /\ server' \in BOOLEAN /\ sdkFailed' \in BOOLEAN /\ mqtt' \in BOOLEAN
        /\ connected' \in BOOLEAN
        /\ restarting => mqtt' = mqtt
    BY <1>6 DEF GotIp, StaServerInit, TypeOK, RestartIsDeaf
  <2> QED BY <1>0, <1>6, <2>1, <2>2, <2>3 DEF GotIp, persistent, TypeOK, RoomForDown,
        FlagsEarned, NoneIsIdle, RestartIsDeaf, RadioEvents
<1>7. CASE RunAp BY <1>7, GoBackKeepsInv DEF RunAp, TypeOK
<1>8. CASE Connect
  <2>1. opmode # "NONE" /\ opmode' # "NONE" /\ opmode' \in Modes
    BY <1>8 DEF Connect, NoneIsIdle, TypeOK, Modes
  <2>2. /\ events' \in Seq(RadioEvents) /\ Len(events') <= MaxEvents + 1
        /\ link' = "up" => Len(events') <= MaxEvents
        /\ link' \in {"down", "joining", "up"}
    BY <1>0, <1>8, <1>d DEF Connect, RoomForDown, TypeOK
  <2>3. saved' \in BOOLEAN /\ sdkFailed' \in BOOLEAN BY <1>8 DEF Connect, TypeOK
  <2>4. /\ instructed' = TRUE /\ attempt' = TRUE
        /\ UNCHANGED <<connected, handler, connectTimer, initDue, server, mqtt, restarting, stale>>
    BY <1>8 DEF Connect
  <2>5. TypeOK' BY <2>1, <2>2, <2>3, <2>4 DEF TypeOK, RadioEvents
  <2>6. RoomForDown' /\ FlagsEarned' /\ NoneIsIdle' /\ RestartIsDeaf'
    <3>1. RoomForDown' /\ FlagsEarned' BY <2>2, <2>4 DEF RoomForDown, FlagsEarned
    <3>2. NoneIsIdle' /\ RestartIsDeaf' BY <2>1, <2>4 DEF NoneIsIdle, RestartIsDeaf
    <3> QED BY <3>1, <3>2
  <2> QED BY <2>5, <2>6
<1>9. CASE ConnectTimeout
  <2>1. CASE connected
    <3>1. /\ UNCHANGED <<opmode, saved, connected, instructed, link, events, initDue, server,
                          attempt, stale, sdkFailed, handler, mqtt, restarting>>
          /\ connectTimer' = FALSE
      BY <1>9, <2>1 DEF ConnectTimeout, persistent, flags, ghosts
    <3>2. TypeOK' BY <3>1 DEF TypeOK
    <3>3. FlagsEarned' BY <3>1 DEF FlagsEarned, GotIpPending
    <3>4. RoomForDown' /\ NoneIsIdle' /\ RestartIsDeaf'
      BY <3>1 DEF RoomForDown, NoneIsIdle, RestartIsDeaf
    <3> QED BY <3>2, <3>3, <3>4
  <2>2. CASE ~connected
    BY <1>9, <2>2, GoBackKeepsInv DEF ConnectTimeout
  <2> QED BY <2>1, <2>2
<1>10. CASE InitDone
  <2>1. /\ server' \in BOOLEAN /\ sdkFailed' \in BOOLEAN
        /\ opmode = "NONE" => server' = server
    BY <1>10 DEF InitDone, ApServerInit, TypeOK
  <2> QED BY <1>10, <2>1 DEF InitDone, persistent, flags, TypeOK, RoomForDown, FlagsEarned,
        GotIpPending, NoneIsIdle, RestartIsDeaf
<1>11. CASE Restart
  <2>1. /\ << >> \in Seq(RadioEvents) /\ Len(<< >>) = 0 /\ events' = << >>
    BY <1>11 DEF Restart
  <2>2. opmode' \in Modes /\ sdkFailed' \in BOOLEAN
    BY <1>11 DEF Restart, SetOpmode, TypeOK, Modes
  <2>3. link' \in {"down", "joining"} /\ (opmode' = "NONE" => link' = "down")
    BY <1>11 DEF Restart, AutoConnect
  <2>4. ~GotIpPending' BY <2>1 DEF GotIpPending
  <2>5. TypeOK'
    <3>1. Len(events') <= MaxEvents + 1 BY <1>0, <2>1
    <3>2. /\ saved' = saved /\ handler' = "sta" /\ connected' = FALSE /\ instructed' = FALSE
          /\ connectTimer' = TRUE /\ initDue' = TRUE /\ server' = FALSE /\ mqtt' = FALSE
          /\ restarting' = FALSE /\ attempt' = FALSE /\ stale' = FALSE
      BY <1>11 DEF Restart
    <3> QED BY <2>1, <2>2, <2>3, <3>1, <3>2 DEF TypeOK, RadioEvents
  <2>6. RoomForDown' /\ NoneIsIdle' /\ RestartIsDeaf' /\ FlagsEarned'
    BY <1>11, <2>1, <2>3, <2>4 DEF Restart, RoomForDown, NoneIsIdle, RestartIsDeaf, FlagsEarned
  <2> QED BY <2>5, <2>6
<1>12. CASE UNCHANGED vars
  BY <1>12 DEF vars, persistent, flags, ghosts, TypeOK, RoomForDown, FlagsEarned,
     GotIpPending, NoneIsIdle, RestartIsDeaf
<1> QED BY <1>1, <1>2, <1>3, <1>4, <1>5, <1>6, <1>7, <1>8, <1>9, <1>10, <1>11, <1>12
     DEF Next, Radio, Handle

LEMMA InvHolds == Spec => []Inv
BY InitInv, NextInv, PTL DEF Spec

\* wifi.c keeps its modes, flags and pending events in their ranges: taking the interface
\* down adds one event to those of the radio, and never a second one.
THEOREM WifiTypeOK == Spec => []TypeOK
<1>1. Inv => TypeOK BY DEF Inv
<1> QED BY <1>1, InvHolds, PTL

\* From the call of system_restart to the restart no handler starts the MQTT client again,
\* whatever events are still pending (wifi.c:39-63, 74-83).
THEOREM RestartStaysQuiet == Spec => []QuietRestart
<1>1. Inv => QuietRestart BY DEF Inv, RestartIsDeaf, QuietRestart
<1> QED BY <1>1, InvHolds, PTL

\* A DISCONNECTED event restarts the device only for a network that was joined or asked for
\* in this session (or a GOT_IP that was on its way when go_back_to_ap ran): wifi.c:70-83.
THEOREM RestartIsEarned == Spec => RestartOnlyFromSession
<1>1. Inv /\ [Next]_vars => [~restarting /\ restarting' => attempt \/ stale]_vars
  <2> SUFFICES ASSUME Inv, [Next]_vars, ~restarting, restarting'
               PROVE  attempt \/ stale
    OBVIOUS
  <2>1. DisconnectedRestart
    BY DEF Next, Radio, Handle, JoinOk, JoinFail, LinkLost, DisconnectedIgnored, GotIp, RunAp,
           Connect, ConnectTimeout, InitDone, Restart, vars
  <2> QED BY <2>1 DEF DisconnectedRestart, Inv, FlagsEarned
<1> QED BY <1>1, InvHolds, PTL DEF Spec, RestartOnlyFromSession

=============================================================================
