----------------------------- MODULE MqttClient -----------------------------
(***************************************************************************)
(* The MQTT client: esp_mqtt/mqtt/mqtt.c as user/mqtt.c uses it, with a      *)
(* broker that is given by its IP address and without TLS.                  *)
(*                                                                         *)
(* The callbacks of the TCP stack, a timer that ticks once a second and the *)
(* task MQTT_Task share the client's state; each of them runs to its end.   *)
(* They wake the task by posting to an event queue of one entry and do not  *)
(* look at whether the post was accepted: the task looks at the state only, *)
(* so that the event that is in the queue already serves as well.           *)
(***************************************************************************)
EXTENDS Naturals, Sequences

CONSTANTS KeepAlive,        \* MQTT_KEEPALIVE, in ticks
          ReconnectTimeout, \* MQTT_RECONNECT_TIMEOUT, in ticks
          SendTimeout,      \* MQTT_SEND_TIMOUT, in ticks
          QMax,             \* packets the queue of outgoing packets holds
          MaxOwed           \* chunks the TCP stack takes

ASSUME MqttAssumption ==
  /\ KeepAlive \in Nat /\ ReconnectTimeout \in Nat
  /\ SendTimeout \in Nat \ {0} /\ QMax \in Nat \ {0} /\ MaxOwed \in Nat \ {0}

VARIABLES
  connState,                 \* connState
  timer,                     \* mqttTimer is armed
  keepAliveTick, reconnectTick, sendTimeout,
  pending,                   \* pending_msg_type
  msgQueue,                  \* the queue of outgoing packets, their types
  posted,                    \* the event queue of MQTT_Task has its event
  tcp,                       \* what the stack does with pCon; "none" if that is NULL
  owed,                      \* sent callbacks it owes for it
  orphan,                    \* a pCon was freed that the stack still used
  failed                     \* the stack had no memory for a connection or a chunk

ticks == <<keepAliveTick, reconnectTick>>
stack == <<tcp, owed>>
vars  == <<connState, timer, ticks, sendTimeout, pending, msgQueue, posted,
           stack, orphan, failed>>

ConnStates == {"WIFI_INIT", "TCP_RECONNECT_REQ", "TCP_RECONNECT", "TCP_CONNECTING",
               "MQTT_CONNECT_SENDING", "MQTT_DATA"}
Packets == {"SUBSCRIBE", "PUBLISH", "ACK"}

\* mqtt_init
Init ==
  /\ connState = "WIFI_INIT" /\ timer = FALSE
  /\ keepAliveTick = 0 /\ reconnectTick = 0 /\ sendTimeout = 0
  /\ pending = "NONE" /\ msgQueue = << >> /\ posted = TRUE
  /\ tcp = "none" /\ owed = 0 /\ orphan = FALSE /\ failed = FALSE

-----------------------------------------------------------------------------
(* The SDK and the queue. *)

\* system_os_post to a queue of one entry.
Post == posted' = TRUE

\* espconn_sent: accepted, or refused because the connection is not up (or pCon is
\* NULL), because the stack has enough, or for lack of memory.
Sent ==
  \/ tcp = "up" /\ owed < MaxOwed /\ owed' = owed + 1 /\ failed' = failed
  \/ owed' = owed /\ failed' = (failed \/ (tcp = "up" /\ owed < MaxOwed))

\* QUEUE_Puts with its result ignored, once for each packet of a segment that is to be
\* answered: answers that do not fit are not given.  (How much fits depends on the
\* lengths of the packets.)
PutQuietly(q, p) == {q \o [i \in 1..k |-> p] : k \in 0..(QMax - Len(q))}

\* (A bug) Nothing makes room.
PutAlways(q, p) == {Append(q, p)}

\* MQTT_Publish and MQTT_Subscribe: the oldest packets make room, and when that is
\* not enough (see PacketQueue) all are lost, the new one too.
PutDropping(q, p) ==
  {<< >>} \union {Append(SubSeq(q, k, Len(q)), p) : k \in {j \in 1..(Len(q) + 1) :
                                                            Len(q) + 1 - j < QMax}}

-----------------------------------------------------------------------------
(* Connecting. *)

\* MQTT_Disconnect, when something is to be freed, and mqtt_stop.  The stack is
\* not told.
Freed == orphan' = (orphan \/ tcp # "none")

\* MQTT_Connect
Connect ==
  /\ Freed
  /\ timer' = TRUE
  /\ keepAliveTick' = 0 /\ reconnectTick' = 0
  /\ \/ tcp' = "connecting" /\ failed' = failed
     \/ tcp' = "none" /\ failed' = TRUE
  /\ owed' = 0
  /\ connState' = "TCP_CONNECTING"

\* mqtt_start: every GOT_IP of the Wi-Fi handler.
Start ==
  /\ Connect
  /\ UNCHANGED <<sendTimeout, pending, msgQueue, posted>>

\* mqtt_stop: a DISCONNECTED of the Wi-Fi handler.
Stop ==
  /\ Freed
  /\ timer' = FALSE
  /\ tcp' = "none" /\ owed' = 0
  /\ UNCHANGED <<connState, ticks, sendTimeout, pending, msgQueue, posted, failed>>

\* mqtt_tcpclient_connect_cb: the connection is up, and CONNECT is sent.
ConnectCb ==
  /\ tcp = "connecting"
  /\ tcp' = "up"
  /\ pending' = "CONNECT"
  /\ sendTimeout' = SendTimeout
  /\ \/ owed' = 1 /\ failed' = failed
     \/ owed' = 0 /\ failed' = TRUE
  /\ connState' = "MQTT_CONNECT_SENDING"
  /\ Post
  /\ UNCHANGED <<timer, ticks, msgQueue, orphan>>

\* The connection is over: the stack is done with pCon.
Over ==
  /\ tcp' = "none" /\ owed' = 0
  /\ connState' = "TCP_RECONNECT_REQ"
  /\ Post
  /\ UNCHANGED <<timer, ticks, sendTimeout, pending, msgQueue, orphan, failed>>

\* mqtt_tcpclient_recon_cb: it could not be made, or was broken.
ReconCb == tcp \in {"connecting", "up"} /\ Over

\* mqtt_tcpclient_discon_cb: it was closed.
DisconCb == tcp = "up" /\ Over

\* A callback for a pCon that was freed while the stack used it, as long as its memory
\* is still as it was: connected, broken or closed, sent.  (After that it may lead
\* anywhere, of which nothing can be said.)
OrphanCb ==
  /\ orphan
  /\ \/ /\ connState' = "MQTT_CONNECT_SENDING" /\ pending' = "CONNECT"
        /\ sendTimeout' = SendTimeout /\ Sent
     \/ connState' = "TCP_RECONNECT_REQ" /\ UNCHANGED <<sendTimeout, pending, owed, failed>>
     \/ sendTimeout' = 0 /\ UNCHANGED <<connState, pending, owed, failed>>
  /\ Post
  /\ UNCHANGED <<timer, ticks, msgQueue, tcp, orphan>>

-----------------------------------------------------------------------------
(* Receiving and sending. *)

\* mqttConnectedCb: it subscribes and publishes.  (One packet stands for three.)
Hello(q) == UNION {PutDropping(s, "PUBLISH") : s \in PutDropping(q, "SUBSCRIBE")}

\* mqtt_tcpclient_recv, CONNACK
RecvConnAck ==
  /\ tcp = "up" \/ orphan
  /\ connState = "MQTT_CONNECT_SENDING"
  /\ IF pending # "CONNECT"
     THEN UNCHANGED <<connState, msgQueue>>  \* "Invalid packet": espconn_disconnect
     ELSE connState' = "MQTT_DATA" /\ msgQueue' \in Hello(msgQueue)
  /\ Post
  /\ UNCHANGED <<timer, ticks, sendTimeout, pending, stack, orphan, failed>>

\* (A bug) A message that is too long ends the session at once.
RecvDataGivesUp ==
  /\ tcp = "up" \/ orphan
  /\ \/ connState' = "TCP_RECONNECT_REQ" /\ msgQueue' = msgQueue
     \/ /\ connState' = connState
        /\ msgQueue' \in IF connState = "MQTT_DATA" THEN PutQuietly(msgQueue, "ACK")
                         ELSE {msgQueue}
  /\ Post
  /\ UNCHANGED <<timer, ticks, sendTimeout, pending, stack, orphan, failed>>

\* mqtt_tcpclient_recv, anything else: in a session each PUBLISH with a QoS, a PUBREC, a
\* PUBREL or a PINGREQ queues an answer (see MqttSession), all else does nothing, and
\* neither does a message that is too long.
RecvData ==
  /\ tcp = "up" \/ orphan
  /\ msgQueue' \in IF connState = "MQTT_DATA" THEN PutQuietly(msgQueue, "ACK")
                   ELSE {msgQueue}
  /\ Post
  /\ UNCHANGED <<connState, timer, ticks, sendTimeout, pending, stack, orphan,
                 failed>>

\* (A bug) The task is not told that it may send.
SentCbQuiet ==
  /\ owed > 0
  /\ owed' = owed - 1
  /\ sendTimeout' = 0
  /\ UNCHANGED <<connState, timer, ticks, pending, msgQueue, posted, tcp, orphan,
                 failed>>

\* (A bug) Only the timer ends the wait for the last packet.
SentCbKeepsTimeout ==
  /\ owed > 0
  /\ owed' = owed - 1
  /\ Post
  /\ UNCHANGED <<connState, timer, ticks, sendTimeout, pending, msgQueue, tcp,
                 orphan, failed>>

\* mqtt_tcpclient_sent_cb
SentCb ==
  /\ owed > 0
  /\ owed' = owed - 1
  /\ sendTimeout' = 0
  /\ Post
  /\ UNCHANGED <<connState, timer, ticks, pending, msgQueue, tcp, orphan, failed>>

Less(n) == IF n > 0 THEN n - 1 ELSE 0

\* mqtt_timer, the keep-alive of a session.
KeepAliveDue == connState = "MQTT_DATA" /\ keepAliveTick >= KeepAlive

TimerPing ==
  /\ KeepAliveDue
  /\ keepAliveTick' = 0
  /\ pending' = "PINGREQ"
  /\ Sent
  /\ sendTimeout' = Less(SendTimeout)
  /\ Post
  /\ UNCHANGED <<connState, reconnectTick>>

\* mqtt_timer, the end of the pause before the next attempt.
ReconnectDue == connState = "TCP_RECONNECT_REQ" /\ reconnectTick >= ReconnectTimeout

\* (A bug) The task is not told.
TimerReconnectQuiet ==
  /\ ReconnectDue
  /\ reconnectTick' = 0
  /\ connState' = "TCP_RECONNECT"
  /\ sendTimeout' = Less(sendTimeout)
  /\ UNCHANGED <<keepAliveTick, pending, posted, owed, failed>>

TimerReconnect ==
  /\ ReconnectDue
  /\ reconnectTick' = 0
  /\ connState' = "TCP_RECONNECT"
  /\ Post
  /\ sendTimeout' = Less(sendTimeout)
  /\ UNCHANGED <<keepAliveTick, pending, owed, failed>>

\* mqtt_timer, when nothing is due.
TimerCount ==
  /\ ~KeepAliveDue /\ ~ReconnectDue
  /\ keepAliveTick' = keepAliveTick + (IF connState = "MQTT_DATA" THEN 1 ELSE 0)
  /\ reconnectTick' = reconnectTick + (IF connState = "TCP_RECONNECT_REQ" THEN 1 ELSE 0)
  /\ sendTimeout' = Less(sendTimeout)
  /\ UNCHANGED <<connState, pending, posted, owed, failed>>

\* mqtt_timer, once a second.  What is left of the time that a packet may take is
\* counted down last, and always.
TimerTick ==
  /\ timer
  /\ TimerPing \/ TimerReconnect \/ TimerCount
  /\ UNCHANGED <<timer, msgQueue, tcp, orphan>>

-----------------------------------------------------------------------------
(* MQTT_Task *)

Take == posted /\ posted' = FALSE

TaskReconnect ==
  /\ Take /\ connState = "TCP_RECONNECT"
  /\ Connect
  /\ UNCHANGED <<sendTimeout, pending, msgQueue>>

\* (A bug) The queue is served before the session is open.
ReadyEarly ==
  connState \in {"MQTT_CONNECT_SENDING", "MQTT_DATA"} /\ msgQueue # << >> /\ sendTimeout = 0

\* The state, an empty queue or a packet on its way make the task return early.
Ready == connState = "MQTT_DATA" /\ msgQueue # << >> /\ sendTimeout = 0

TaskSend ==
  /\ Take /\ Ready
  /\ pending' = Head(msgQueue)
  /\ msgQueue' = Tail(msgQueue)
  /\ sendTimeout' = SendTimeout
  /\ Sent
  /\ UNCHANGED <<connState, timer, ticks, tcp, orphan>>

TaskNothing ==
  /\ Take /\ connState # "TCP_RECONNECT" /\ ~Ready
  /\ UNCHANGED <<connState, timer, ticks, sendTimeout, pending, msgQueue, stack,
                 orphan, failed>>

Task == TaskReconnect \/ TaskSend \/ TaskNothing

-----------------------------------------------------------------------------
Next == \/ Start \/ Stop
        \/ ConnectCb \/ ReconCb \/ DisconCb \/ OrphanCb
        \/ RecvConnAck \/ RecvData \/ SentCb
        \/ TimerTick \/ Task

Spec == Init /\ [][Next]_vars

\* The SDK runs the task and the timer, and the stack delivers the sent callbacks of a
\* connection that stays up.  A keep-alive is due once a minute, and does not fall every
\* time into the moment between a sent callback and the task: the task, when it
\* may send again and again, does so (strong fairness).  Nothing is assumed of the
\* broker and the network.
Fairness ==
  /\ WF_vars(TimerTick) /\ WF_vars(Task) /\ WF_vars(SentCb)
  /\ SF_vars(TaskSend)

FairSpec == Spec /\ Fairness

-----------------------------------------------------------------------------
(* Properties. *)

\* The shape of the state.
TypeOK ==
  /\ connState \in ConnStates
  /\ timer \in BOOLEAN /\ posted \in BOOLEAN
  /\ keepAliveTick \in 0..KeepAlive /\ reconnectTick \in 0..ReconnectTimeout
  /\ sendTimeout \in 0..SendTimeout
  /\ pending \in Packets \union {"NONE", "CONNECT", "PINGREQ"}
  /\ msgQueue \in Seq(Packets) /\ Len(msgQueue) <= QMax
  /\ tcp \in {"none", "connecting", "up"} /\ owed \in 0..MaxOwed
  /\ orphan \in BOOLEAN /\ failed \in BOOLEAN

\* A CONNACK always finds the CONNECT it answers as the last packet sent: neither the
\* timer nor the task sends anything before the session is open, so the branch
\* "Invalid packet" that gives up the connection is never taken.
ConnAckExpected == connState = "MQTT_CONNECT_SENDING" => pending = "CONNECT"

\* The task frees pCon only when the stack has finished with it: reconnecting does
\* not leave the stack with a dangling pointer.  (Only mqtt_start and mqtt_stop do,
\* in the middle of a connection.)
ReconnectIsClean ==
  ~orphan /\ connState \in {"TCP_RECONNECT_REQ", "TCP_RECONNECT"} => tcp = "none"

\* One entry is enough for the events of the task: a reconnection that is due has its
\* event, and a packet of a session has one, or a sent callback still to come, unless
\* the stack has refused something.
WakeupPending ==
  /\ connState = "TCP_RECONNECT" => posted
  /\ connState = "MQTT_DATA" /\ msgQueue # << >> /\ ~orphan /\ ~failed /\ tcp = "up" =>
       posted \/ owed > 0

\* A client whose connection is over tries again, unless it is stopped: the timer's
\* request reaches the task although nobody looks whether it was posted.
Reconnects ==
  connState = "TCP_RECONNECT_REQ" ~> connState = "TCP_CONNECTING" \/ ~timer \/ orphan

\* In a session that lasts the queue keeps moving, whatever the timer did to
\* sendTimeout and however many keep-alives come in between.
QueueMoves ==
  \/ []<>(connState # "MQTT_DATA" \/ msgQueue = << >> \/ ~timer \/ failed \/ orphan)
  \/ []<><<Len(msgQueue') < Len(msgQueue)>>_vars

=============================================================================
