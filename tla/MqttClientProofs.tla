-------------------------- MODULE MqttClientProofs --------------------------
(***************************************************************************)
(* The safety properties of MqttClient, for all times and queue sizes.      *)
(***************************************************************************)
EXTENDS MqttClient, TLAPS

\* A packet is only waited for while the stack owes its sent callback.
WaitsForCallback ==
  tcp = "up" /\ ~orphan /\ ~failed /\ sendTimeout > 0 => owed > 0

Inv == /\ TypeOK
       /\ ConnAckExpected
       /\ ReconnectIsClean
       /\ WaitsForCallback
       /\ WakeupPending

-----------------------------------------------------------------------------
(* The queue. *)

\* What Append and Tail keep.
LEMMA AppendSeq ==
  ASSUME NEW q \in Seq(Packets), NEW p \in Packets
  PROVE  Append(q, p) \in Seq(Packets) /\ Len(Append(q, p)) = Len(q) + 1
  OBVIOUS

\* A packet is taken from a queue that is not empty.
LEMMA TailSeq ==
  ASSUME NEW q \in Seq(Packets), q # << >>
  PROVE  /\ Len(q) \in Nat \ {0} /\ Head(q) \in Packets
         /\ Tail(q) \in Seq(Packets) /\ Len(Tail(q)) = Len(q) - 1
  OBVIOUS

\* What SubSeq leaves of a queue.
LEMMA SubSeqSeq ==
  ASSUME NEW q \in Seq(Packets), NEW k \in 1..(Len(q) + 1)
  PROVE  SubSeq(q, k, Len(q)) \in Seq(Packets) /\ Len(SubSeq(q, k, Len(q))) = Len(q) + 1 - k
  OBVIOUS

\* An answer never makes the queue too long.
LEMMA PutQuietlyType ==
  ASSUME NEW q \in Seq(Packets), Len(q) <= QMax, NEW p \in Packets,
         NEW s \in PutQuietly(q, p)
  PROVE  s \in Seq(Packets) /\ Len(s) <= QMax
<1>1. PICK k \in 0..(QMax - Len(q)) : s = q \o [i \in 1..k |-> p]
  BY DEF PutQuietly
<1>2. k \in Nat /\ Len(q) \in Nat /\ Len(q) + k <= QMax
  BY <1>1, MqttAssumption
<1>3. [i \in 1..k |-> p] \in Seq(Packets) /\ Len([i \in 1..k |-> p]) = k
  BY <1>2
<1> QED
  BY <1>1, <1>2, <1>3

\* Neither does a publication, which makes room for itself.
LEMMA PutDroppingType ==
  ASSUME NEW q \in Seq(Packets), NEW p \in Packets, NEW s \in PutDropping(q, p)
  PROVE  s \in Seq(Packets) /\ Len(s) <= QMax
<1>1. CASE s = << >>
  BY <1>1, MqttAssumption
<1>2. ASSUME NEW k \in 1..(Len(q) + 1), Len(q) + 1 - k < QMax,
             s = Append(SubSeq(q, k, Len(q)), p)
      PROVE  s \in Seq(Packets) /\ Len(s) <= QMax
  BY <1>2, SubSeqSeq, AppendSeq, MqttAssumption
<1> QED
  BY <1>1, <1>2 DEF PutDropping

\* The subscriptions and publications of a new session fit.
LEMMA HelloType ==
  ASSUME NEW q \in Seq(Packets), NEW s \in Hello(q)
  PROVE  s \in Seq(Packets) /\ Len(s) <= QMax
<1>1. PICK t \in PutDropping(q, "SUBSCRIBE") : s \in PutDropping(t, "PUBLISH")
  BY DEF Hello
<1>2. t \in Seq(Packets)
  BY <1>1, PutDroppingType DEF Packets
<1> QED
  BY <1>1, <1>2, PutDroppingType DEF Packets

-----------------------------------------------------------------------------
(* The invariant. *)

\* The client starts with the invariant.
LEMMA InitInv == Init => Inv
<1> SUFFICES ASSUME Init PROVE Inv
  OBVIOUS
<1>1. << >> \in Seq(Packets) /\ Len(<< >>) = 0
  OBVIOUS
<1>2. 0 \in 0..KeepAlive /\ 0 \in 0..ReconnectTimeout /\ 0 \in 0..SendTimeout
      /\ 0 \in 0..MaxOwed /\ 0 <= QMax
  BY MqttAssumption, SMT
<1>3. TypeOK
  BY <1>1, <1>2, Zenon DEF Init, TypeOK, ConnStates
<1> QED
  BY <1>3 DEF Init, Inv, ConnAckExpected, ReconnectIsClean, WaitsForCallback,
              WakeupPending

\* Of the stack's answer to espconn_sent this matters: unless it failed, it owes a
\* callback now for a connection that is up.
LEMMA SentOwes ==
  ASSUME TypeOK, Sent
  PROVE  /\ owed' \in 0..MaxOwed /\ failed' \in BOOLEAN
         /\ tcp = "up" /\ ~failed' => owed' > 0
         /\ ~failed' => ~failed
<1>1. MaxOwed \in Nat \ {0} /\ owed \in 0..MaxOwed /\ failed \in BOOLEAN
  BY MqttAssumption DEF TypeOK
<1>2. CASE tcp = "up" /\ owed < MaxOwed /\ owed' = owed + 1 /\ failed' = failed
  <2>1. owed' \in 0..MaxOwed /\ owed' > 0
    BY <1>1, <1>2, SMT
  <2> QED
    BY <1>1, <1>2, <2>1, Zenon
<1>3. CASE owed' = owed /\ failed' = (failed \/ (tcp = "up" /\ owed < MaxOwed))
  <2>1. owed < MaxOwed \/ owed > 0
    BY <1>1, SMT
  <2> QED
    BY <1>1, <1>3, <2>1, Zenon
<1> QED
  BY <1>2, <1>3, Zenon DEF Sent

\* What MQTT_Connect leaves behind: never a connection that is up.
LEMMA ConnectType ==
  ASSUME TypeOK, Connect
  PROVE  /\ connState' = "TCP_CONNECTING" /\ tcp' \in {"none", "connecting"}
         /\ timer' \in BOOLEAN
         /\ keepAliveTick' \in 0..KeepAlive /\ reconnectTick' \in 0..ReconnectTimeout
         /\ owed' \in 0..MaxOwed /\ orphan' \in BOOLEAN /\ failed' \in BOOLEAN
<1>1. 0 \in 0..KeepAlive /\ 0 \in 0..ReconnectTimeout /\ 0 \in 0..MaxOwed
  BY MqttAssumption, SMT
<1> QED
  BY <1>1, Zenon DEF TypeOK, Connect, Freed

\* The timer counts sendTimeout down within its range.
LEMMA TimerType ==
  ASSUME TypeOK
  PROVE  /\ Less(sendTimeout) \in 0..SendTimeout /\ Less(SendTimeout) \in 0..SendTimeout
         /\ Less(sendTimeout) > 0 => sendTimeout > 0
BY MqttAssumption DEF TypeOK, Less

\* Every handler, the timer and the task keep it.
LEMMA StepInv == Inv /\ [Next]_vars => Inv'
<1> SUFFICES ASSUME Inv, [Next]_vars PROVE Inv'
  OBVIOUS
<1> USE DEF Inv
<1>1. CASE Start
  <2>1. TypeOK'
    BY <1>1, ConnectType, Zenon DEF Start, TypeOK, ConnStates
  <2>2. connState' = "TCP_CONNECTING" /\ tcp' # "up"
    BY <1>1, ConnectType DEF Start
  <2> QED
    BY <2>1, <2>2 DEF ConnAckExpected, ReconnectIsClean, WaitsForCallback, WakeupPending
<1>2. CASE Stop
  <2>1. 0 \in 0..MaxOwed
    BY MqttAssumption, SMT
  <2>2. TypeOK'
    BY <1>2, <2>1, Zenon DEF Stop, Freed, TypeOK, ticks, stack
  <2>3. ConnAckExpected'
    BY <1>2 DEF Stop, ConnAckExpected
  <2>4. tcp' = "none" /\ connState' = connState /\ posted' = posted
    BY <1>2 DEF Stop
  <2> QED
    BY <2>2, <2>3, <2>4 DEF ReconnectIsClean, WaitsForCallback, WakeupPending
<1>3. CASE ConnectCb
  <2>1. SendTimeout \in 0..SendTimeout /\ 0 \in 0..MaxOwed /\ 1 \in 0..MaxOwed
    BY MqttAssumption, SMT
  <2>2. TypeOK'
    BY <1>3, <2>1, Zenon DEF ConnectCb, Post, TypeOK, ConnStates, ticks, stack
  <2>3. /\ connState' = "MQTT_CONNECT_SENDING" /\ pending' = "CONNECT"
        /\ owed' > 0 \/ failed' = TRUE
    BY <1>3 DEF ConnectCb
  <2> QED
    BY <2>2, <2>3 DEF ConnAckExpected, ReconnectIsClean, WaitsForCallback, WakeupPending
<1>4. CASE ReconCb \/ DisconCb
  <2>1. 0 \in 0..MaxOwed
    BY MqttAssumption, SMT
  <2>2. Over
    BY <1>4 DEF ReconCb, DisconCb
  <2>3. TypeOK'
    BY <2>1, <2>2, Zenon DEF Over, Post, TypeOK, ConnStates, ticks, stack
  <2>4. tcp' = "none" /\ connState' = "TCP_RECONNECT_REQ"
    BY <2>2 DEF Over
  <2> QED
    BY <2>3, <2>4 DEF ConnAckExpected, ReconnectIsClean, WaitsForCallback, WakeupPending
<1>5. CASE OrphanCb
  <2>1. SendTimeout \in 0..SendTimeout /\ 0 \in 0..SendTimeout
    BY MqttAssumption, SMT
  <2>2. orphan' = TRUE /\ posted' = TRUE
    BY <1>5, Zenon DEF OrphanCb, Post, TypeOK
  <2>3. CASE connState' = "MQTT_CONNECT_SENDING" /\ pending' = "CONNECT"
             /\ sendTimeout' = SendTimeout /\ Sent
    <3>1. TypeOK'
      BY <1>5, <2>1, <2>2, <2>3, SentOwes, Zenon DEF OrphanCb, TypeOK, ConnStates, ticks, stack
    <3> QED
      BY <2>2, <2>3, <3>1
         DEF ConnAckExpected, ReconnectIsClean, WaitsForCallback, WakeupPending
  <2>4. CASE \/ connState' = "TCP_RECONNECT_REQ"
                /\ UNCHANGED <<sendTimeout, pending, owed, failed>>
             \/ sendTimeout' = 0 /\ UNCHANGED <<connState, pending, owed, failed>>
    <3>1. TypeOK'
      BY <1>5, <2>1, <2>2, <2>4, Zenon DEF OrphanCb, TypeOK, ConnStates, ticks, stack
    <3>2. ConnAckExpected'
      BY <2>4 DEF ConnAckExpected
    <3> QED
      BY <2>2, <3>1, <3>2 DEF ReconnectIsClean, WaitsForCallback, WakeupPending
  <2> QED
    BY <1>5, <2>3, <2>4 DEF OrphanCb
<1>6. CASE RecvConnAck
  <2>1. msgQueue' \in Seq(Packets) /\ Len(msgQueue') <= QMax
    <3>1. msgQueue' = msgQueue \/ msgQueue' \in Hello(msgQueue)
      BY <1>6 DEF RecvConnAck
    <3> QED
      BY <3>1, HelloType DEF TypeOK
  <2>2. /\ connState' \in {"MQTT_CONNECT_SENDING", "MQTT_DATA"}
        /\ connState' = "MQTT_CONNECT_SENDING" => connState' = connState
        /\ posted' = TRUE
    BY <1>6 DEF RecvConnAck, Post
  <2>3. TypeOK'
    BY <1>6, <2>1, <2>2, Zenon DEF RecvConnAck, TypeOK, ConnStates, ticks, stack
  <2>4. ConnAckExpected'
    BY <1>6, <2>2 DEF RecvConnAck, ConnAckExpected
  <2>5. WaitsForCallback'
    BY <1>6 DEF RecvConnAck, WaitsForCallback, stack
  <2> QED
    BY <2>2, <2>3, <2>4, <2>5 DEF ReconnectIsClean, WakeupPending
<1>7. CASE RecvData
  <2>1. msgQueue' = msgQueue \/ msgQueue' \in PutQuietly(msgQueue, "ACK")
    BY <1>7, Zenon DEF RecvData
  <2>2. msgQueue' \in Seq(Packets) /\ Len(msgQueue') <= QMax
    BY <2>1, PutQuietlyType DEF TypeOK, Packets
  <2>3. TypeOK'
    BY <1>7, <2>2, Zenon DEF RecvData, Post, TypeOK, stack, ticks
  <2>4. connState' = connState /\ pending' = pending /\ posted' = TRUE
        /\ UNCHANGED <<sendTimeout, tcp, owed, orphan, failed>>
    BY <1>7 DEF RecvData, Post, stack
  <2> QED
    BY <2>3, <2>4 DEF ConnAckExpected, ReconnectIsClean, WaitsForCallback, WakeupPending
<1>8. CASE SentCb
  <2>1. owed' \in 0..MaxOwed /\ 0 \in 0..SendTimeout
    BY <1>8, MqttAssumption, SMT DEF SentCb, TypeOK
  <2>2. TypeOK'
    BY <1>8, <2>1, Zenon DEF SentCb, Post, TypeOK, ticks
  <2>3. connState' = connState /\ pending' = pending /\ posted' = TRUE
        /\ sendTimeout' = 0 /\ tcp' = tcp /\ orphan' = orphan
    BY <1>8 DEF SentCb, Post
  <2> QED
    BY <2>2, <2>3 DEF ConnAckExpected, ReconnectIsClean, WaitsForCallback, WakeupPending
<1>9. CASE TimerTick
  <2>1. UNCHANGED <<timer, msgQueue, tcp, orphan>>
    BY <1>9 DEF TimerTick
  <2>2. CASE TimerPing
    <3>1. 0 \in 0..KeepAlive
      BY MqttAssumption, SMT
    <3>2. TypeOK'
      BY <2>1, <2>2, <3>1, SentOwes, TimerType, Zenon DEF TimerPing, Post, TypeOK
    <3>3. connState' = "MQTT_DATA" /\ posted' = TRUE
      BY <2>2 DEF TimerPing, KeepAliveDue, Post
    <3>4. WaitsForCallback'
      BY <2>1, <2>2, SentOwes DEF TimerPing, WaitsForCallback
    <3> QED
      BY <3>2, <3>3, <3>4 DEF ConnAckExpected, ReconnectIsClean, WakeupPending
  <2>3. CASE TimerReconnect
    <3>1. 0 \in 0..ReconnectTimeout
      BY MqttAssumption, SMT
    <3>2. TypeOK'
      BY <2>1, <2>3, <3>1, TimerType, Zenon DEF TimerReconnect, Post, TypeOK, ConnStates
    <3>3. connState' = "TCP_RECONNECT" /\ connState = "TCP_RECONNECT_REQ"
          /\ posted' = TRUE /\ owed' = owed /\ failed' = failed
          /\ sendTimeout' = Less(sendTimeout)
      BY <2>3 DEF TimerReconnect, ReconnectDue, Post
    <3>4. WaitsForCallback'
      BY <2>1, <3>3, TimerType DEF WaitsForCallback
    <3> QED
      BY <2>1, <3>2, <3>3, <3>4 DEF ConnAckExpected, ReconnectIsClean, WakeupPending
  <2>4. CASE TimerCount
    <3>1. keepAliveTick' \in 0..KeepAlive /\ reconnectTick' \in 0..ReconnectTimeout
      BY <2>4, MqttAssumption, SMT DEF TimerCount, KeepAliveDue, ReconnectDue, TypeOK
    <3>2. UNCHANGED <<connState, pending, posted, owed, failed>>
          /\ sendTimeout' = Less(sendTimeout)
      BY <2>4 DEF TimerCount
    <3>3. TypeOK'
      BY <2>1, <3>1, <3>2, TimerType, Zenon DEF TypeOK
    <3>4. WaitsForCallback'
      BY <2>1, <3>2, TimerType DEF WaitsForCallback
    <3> QED
      BY <2>1, <3>2, <3>3, <3>4 DEF ConnAckExpected, ReconnectIsClean, WakeupPending
  <2> QED
    BY <1>9, <2>2, <2>3, <2>4 DEF TimerTick
<1>10. CASE TaskReconnect
  <2>1. TypeOK'
    BY <1>10, ConnectType, Zenon DEF TaskReconnect, Take, TypeOK, ConnStates
  <2>2. connState' = "TCP_CONNECTING" /\ tcp' # "up"
    BY <1>10, ConnectType DEF TaskReconnect
  <2> QED
    BY <2>1, <2>2 DEF ConnAckExpected, ReconnectIsClean, WaitsForCallback, WakeupPending
<1>11. CASE TaskSend
  <2>1. msgQueue \in Seq(Packets) /\ msgQueue # << >> /\ Len(msgQueue) <= QMax
    BY <1>11 DEF TaskSend, Ready, TypeOK
  <2>2. /\ pending' \in Packets /\ msgQueue' \in Seq(Packets) /\ Len(msgQueue') <= QMax
        /\ sendTimeout' \in 0..SendTimeout
    BY <1>11, <2>1, TailSeq, MqttAssumption DEF TaskSend
  <2>3. connState = "MQTT_DATA" /\ connState' = connState /\ tcp' = tcp /\ Sent
    BY <1>11, Zenon DEF TaskSend, Ready
  <2>4. TypeOK'
    BY <1>11, <2>2, <2>3, SentOwes, Zenon DEF TaskSend, Take, TypeOK, ticks
  <2>5. tcp' = "up" /\ ~failed' => owed' > 0
    BY <2>3, SentOwes
  <2> QED
    BY <2>3, <2>4, <2>5
       DEF ConnAckExpected, ReconnectIsClean, WaitsForCallback, WakeupPending
<1>12. CASE TaskNothing
  <2>1. UNCHANGED <<connState, sendTimeout, pending, msgQueue, tcp, owed, orphan, failed>>
    BY <1>12 DEF TaskNothing, stack
  <2>2. TypeOK'
    BY <1>12, <2>1, Zenon DEF TaskNothing, Take, TypeOK, ticks
  <2>3. WaitsForCallback'
    BY <2>1 DEF WaitsForCallback
  <2>4. WakeupPending'
    <3>1. connState' # "TCP_RECONNECT"
      BY <1>12, <2>1 DEF TaskNothing
    <3>2. connState = "MQTT_DATA" /\ msgQueue # << >> => sendTimeout > 0
      BY <1>12, MqttAssumption DEF TaskNothing, Ready, TypeOK
    <3> QED
      BY <2>1, <3>1, <3>2 DEF WaitsForCallback, WakeupPending
  <2> QED
    BY <2>1, <2>2, <2>3, <2>4 DEF ConnAckExpected, ReconnectIsClean
<1>13. CASE UNCHANGED vars
  BY <1>13 DEF vars, ticks, stack, TypeOK, ConnAckExpected, ReconnectIsClean,
               WaitsForCallback, WakeupPending
<1> QED
  BY <1>1, <1>2, <1>3, <1>4, <1>5, <1>6, <1>7, <1>8, <1>9, <1>10, <1>11, <1>12, <1>13
     DEF Next, Task

-----------------------------------------------------------------------------
(* The theorems. *)

\* The invariant holds always.
LEMMA Invariance == Spec => []Inv
<1> QED
  BY InitInv, StepInv, PTL DEF Spec

\* The state keeps its shape: the queue of packets and the counters their bounds.
THEOREM TypeCorrect == Spec => []TypeOK
<1>1. Inv => TypeOK
  BY DEF Inv
<1> QED
  BY <1>1, Invariance, PTL

\* The branch "Invalid packet" of mqtt_tcpclient_recv is never taken.
THEOREM ConnAck == Spec => []ConnAckExpected
<1>1. Inv => ConnAckExpected
  BY DEF Inv
<1> QED
  BY <1>1, Invariance, PTL

\* MQTT_Connect in the task frees no pCon that the stack uses, if mqtt_start and
\* mqtt_stop have not.
THEOREM CleanReconnect == Spec => []ReconnectIsClean
<1>1. Inv => ReconnectIsClean
  BY DEF Inv
<1> QED
  BY <1>1, Invariance, PTL

\* An event queue of one entry whose posts are not checked loses no wakeup of
\* MQTT_Task, whatever the times and the sizes are.
THEOREM NoLostWakeup == Spec => []WakeupPending
<1>1. Inv => WakeupPending
  BY DEF Inv
<1> QED
  BY <1>1, Invariance, PTL

=============================================================================
