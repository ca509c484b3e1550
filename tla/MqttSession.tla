---------------------------- MODULE MqttSession ----------------------------
(***************************************************************************)
(* The packets of an open MQTT session, byte by byte: how                   *)
(* mqtt_tcpclient_recv (esp_mqtt/mqtt/mqtt.c) takes what one callback of the *)
(* TCP stack brings apart, answers it and delivers it, and how              *)
(* MQTT_Publish and MQTT_Subscribe write their packets with identifiers of  *)
(* one counter.  MqttClient has the same callbacks without the bytes;       *)
(* PacketQueue has the queue that the answers go into.                      *)
(*                                                                         *)
(* A callback brings whole packets, or, when the broker's packet does not   *)
(* fit a segment of TCP, a part of one: the client does not put parts       *)
(* together ("Not Implement yet", mqtt.c:231).                              *)
(***************************************************************************)
EXTENDS MqttMessage, SequencesExt

CONSTANTS Incoming,     \* packets the broker sends, see Packet
          MaxPackets,   \* packets in a segment
          Cuts,         \* after how many bytes TCP may cut a packet
          Topics, Datas, Infos,  \* what the application publishes and connects with
          MaxCalls,     \* bound: segments and requests
          FirstId       \* identifiers the counter may be at

VARIABLES
  in,        \* in_buffer; the bytes of earlier segments stay behind shorter ones
  seg,       \* pdata and len: the bytes of the segment from the current packet on
  messageId, \* message_id of the connection, the last identifier that was assigned
  out,       \* packets queued for the broker by this callback or this request
  delivered, \* calls of dataCb by this callback
  pc,        \* "read" while mqtt_tcpclient_recv runs
  packets,   \* what the segment holds, << >> when it is not made of whole packets
  request,   \* the request that out answers, or NoRequest
  calls      \* segments and requests so far

ghosts == <<packets, request, calls>>
vars == <<in, seg, messageId, out, delivered, pc, ghosts>>

\* A packet of the broker: of a type, for a PUBLISH with topic and data, and with an
\* identifier unless it is 0.
Packet(type, qos, id, topic, data) ==
  [type |-> type, qos |-> qos, id |-> id, topic |-> topic, data |-> data]

Byte == 0..255

\* What the standard lets a broker send: a PUBLISH has a topic, an identifier exactly when it
\* is to be acknowledged, and of the other types that are answered, those that carry an
\* identifier carry nothing else.
ASSUME IncomingAssumption ==
  /\ Incoming \subseteq [type : 1..15, qos : 0..2, id : 0..Max16, topic : Seq(Byte), data : Seq(Byte)]
  /\ \A p \in Incoming :
       /\ p.type = PUBLISH => p.topic # << >> /\ (p.id # 0 <=> p.qos > 0)
       /\ p.type \in {PUBREC, PUBREL} => p.id # 0 /\ p.data = << >>

ASSUME RequestAssumption ==
  /\ Topics \subseteq Seq(Byte) /\ Datas \subseteq Seq(Byte)
  /\ Infos \subseteq [client : Seq(Byte), willTopic : Seq(Byte), willMessage : Seq(Byte),
                       willQos : 0..2, willRetain : 0..1, user : Seq(Byte),
                       password : Seq(Byte), keepalive : 0..Max16, clean : 0..1]

ASSUME SessionAssumption == FirstId \subseteq 0..Max16 /\ MaxPackets \in Nat

NoRequest == [kind |-> "none"]

\* The bytes the broker puts on the wire, by the standard: the length of the body in
\* groups of seven bits, low ones first, each but the last with bit 7 set.
Wire(p) ==
  LET body == (IF p.type = PUBLISH THEN String(p.topic) ELSE << >>)
              \o (IF p.id # 0 THEN Bytes2(p.id) ELSE << >>) \o p.data
      n == Len(body)
  IN <<16 * p.type + 2 * p.qos>>
     \o (IF n < 128 THEN <<n>> ELSE <<128 + (n % 128), n \div 128>>) \o body

Init ==
  /\ in = [i \in 1..BufSize |-> 0] /\ seg = << >>
  /\ messageId \in FirstId
  /\ out = << >> /\ delivered = << >> /\ pc = "idle"
  /\ packets = << >> /\ request = NoRequest /\ calls = 0

-----------------------------------------------------------------------------
(* mqtt_tcpclient_recv, in a session. *)

Begin(bytes, ps) ==
  /\ pc = "idle" /\ calls < MaxCalls
  /\ pc' = "read" /\ seg' = bytes /\ packets' = ps
  /\ out' = << >> /\ delivered' = << >> /\ request' = NoRequest
  /\ calls' = calls + 1
  /\ UNCHANGED <<in, messageId>>

RecvWhole ==
  \E ps \in UNION {[1..k -> Incoming] : k \in 1..MaxPackets} :
    Begin(FlattenSeq([i \in DOMAIN ps |-> Wire(ps[i])]), ps)

RecvPart ==
  \E p \in Incoming : \E k \in Cuts \intersect 1..(Len(Wire(p)) - 1) :
    \/ Begin(SubSeq(Wire(p), 1, k), << >>)
    \/ Begin(SubSeq(Wire(p), k + 1, Len(Wire(p))), << >>)

\* os_memcpy to the beginning of in_buffer.
Copied == [i \in 1..BufSize |-> IF i <= Len(seg) THEN seg[i] ELSE in[i]]

\* (A bug) The identifier is read before the segment is copied.
InIdBefore == GetId(in, BufSize)

\* The identifier is read as far as in_buffer goes, not as far as the segment.
InId == GetId(in', BufSize)

\* What a packet is answered with.  (The queue may be full: see PacketQueue.)
Answers(type, qos) ==
  CASE type = PUBLISH /\ qos = 1 -> <<Ack(PUBACK, 0, InId, messageId)>>
    [] type = PUBLISH /\ qos = 2 -> <<Ack(PUBREC, 0, InId, messageId)>>
    [] type = PUBREC  -> <<Ack(PUBREL, 1, InId, messageId)>>
    [] type = PUBREL  -> <<Ack(PUBCOMP, 0, InId, messageId)>>
    [] type = PINGREQ -> <<PingResp>>
    [] OTHER          -> << >>

\* An answer without an identifier to repeat takes one of the counter.
AnswerTakesId(type, qos) ==
  InId = 0 /\ ((type = PUBLISH /\ qos \in {1, 2}) \/ type \in {PUBREC, PUBREL})

\* What mqttDataCb copies from a slice of in_buffer; there is no saying what it finds
\* behind NULL.
Undefined == <<-1>>
Copy(s) == IF s.len = 0 THEN << >>
           ELSE IF s.at = 0 THEN Undefined ELSE SubSeq(in', s.at, s.at + s.len - 1)

\* deliver_publish: the length is that of the rest of the segment.
Deliver(n) == [topic |-> Copy(PublishTopic(in', n)), data |-> Copy(PublishData(in', n))]

\* READPACKET: one turn of the loop.  It goes on behind a PUBLISH only.
ReadPacket ==
  /\ pc = "read" /\ Len(seg) \in 1..(BufSize - 1)
  /\ in' = Copied
  /\ LET type  == TypeOf(in')
         qos   == QosOf(in')
         total == TotalLength(in', Len(seg))
     IN /\ out' = out \o Answers(type, qos)
        /\ messageId' = IF AnswerTakesId(type, qos) THEN NextId(messageId) ELSE messageId
        /\ IF type = PUBLISH
           THEN delivered' = Append(delivered, Deliver(Len(seg)))
           ELSE delivered' = delivered
        /\ IF type = PUBLISH /\ total < Len(seg)
           THEN pc' = "read" /\ seg' = SubSeq(seg, total + 1, Len(seg))
           ELSE pc' = "idle" /\ seg' = << >>
  /\ UNCHANGED ghosts

\* "Message too long"
ReadNothing ==
  /\ pc = "read" /\ Len(seg) \notin 1..(BufSize - 1)
  /\ pc' = "idle" /\ seg' = << >>
  /\ UNCHANGED <<in, messageId, out, delivered, ghosts>>

-----------------------------------------------------------------------------
(* What the client sends by itself. *)

Ask(r, sent) ==
  /\ pc = "idle" /\ calls < MaxCalls
  /\ out' = sent /\ request' = r /\ calls' = calls + 1
  /\ delivered' = << >> /\ packets' = << >>
  /\ UNCHANGED <<in, seg, pc>>

\* MQTT_Publish: a message that could not be written is not queued.
Publish ==
  \E t \in Topics, d \in Datas, q \in 0..2 :
    LET message == PublishMessage(t, d, q, messageId) IN
    /\ Ask([kind |-> "publish", topic |-> t, data |-> d, qos |-> q],
           IF message = Failed THEN << >> ELSE <<message>>)
    /\ messageId' = IF PublishTakesId(t, q) THEN NextId(messageId) ELSE messageId

\* MQTT_Subscribe asks for quality 0 whatever its caller wants, and queues what
\* mqtt_msg_subscribe returns.
Subscribe ==
  \E t \in Topics :
    /\ Ask([kind |-> "subscribe", topic |-> t], <<SubscribeMessage(t, 0, messageId)>>)
    /\ messageId' = IF t # << >> THEN NextId(messageId) ELSE messageId

\* mqtt_tcpclient_connect_cb, when the connection was made again: mqtt_msg_init clears as
\* many bytes of the connection as a pointer has, and message_id stays.
Connect ==
  \E info \in Infos :
    /\ Ask([kind |-> "connect", info |-> info], <<ConnectMessage(info)>>)
    /\ UNCHANGED messageId

Next == RecvWhole \/ RecvPart \/ ReadPacket \/ ReadNothing
        \/ Publish \/ Subscribe \/ Connect

Spec == Init /\ [][Next]_vars

-----------------------------------------------------------------------------
(* Properties. *)

\* The packets of a segment that are looked at: those up to the first that is not a
\* PUBLISH, when the segment is of a length the client takes.  (What is behind
\* that one is lost: mqtt.c:224.)
Looked ==
  LET others == {i \in DOMAIN packets : packets[i].type # PUBLISH}
      upTo   == IF others = {} THEN Len(packets) ELSE Min(others)
      length == Len(FlattenSeq([i \in DOMAIN packets |-> Wire(packets[i])]))
  IN IF length < BufSize THEN SubSeq(packets, 1, upTo) ELSE << >>

\* An empty message that is to be acknowledged, at the end of a segment: its data is
\* NULL with a length (mqtt_msg.c:213).
NoData(i) == i = Len(packets) /\ packets[i].qos > 0 /\ packets[i].data = << >>

\* Every PUBLISH that is looked at is delivered, in order, with its own topic and its own data,
\* whatever earlier segments have left in in_buffer and however the lengths are written;
\* only the data of an empty message at the end of a segment is undefined.
DeliveredInOrder ==
  pc = "idle" /\ packets # << >> =>
    LET published == {i \in DOMAIN Looked : Looked[i].type = PUBLISH} IN
    /\ DOMAIN delivered = published
    /\ \A i \in published :
         /\ delivered[i].topic = Looked[i].topic
         /\ delivered[i].data = Looked[i].data \/ NoData(i)

\* What the standard answers a packet with, byte by byte.
Expected(p) ==
  CASE p.type = PUBLISH /\ p.qos = 1 -> <<<<64, 2>> \o Bytes2(p.id)>>
    [] p.type = PUBLISH /\ p.qos = 2 -> <<<<80, 2>> \o Bytes2(p.id)>>
    [] p.type = PUBREC  -> <<<<98, 2>> \o Bytes2(p.id)>>
    [] p.type = PUBREL  -> <<<<112, 2>> \o Bytes2(p.id)>>
    [] p.type = PINGREQ -> <<<<208, 0>>>>
    [] OTHER -> << >>

\* Every packet that is looked at is answered as the standard says, with the identifier the
\* broker gave it: never with one that an earlier segment has left in in_buffer.
AnswersMatch ==
  pc = "idle" /\ packets # << >> =>
    out = FlattenSeq([i \in DOMAIN Looked |-> Expected(Looked[i])])

\* A string at position i of a packet, and the position behind it.
StringAt(b, i) == SubSeq(b, i + 2, i + 1 + Number(b[i], b[i + 1]))
Behind(b, i) == i + 2 + Number(b[i], b[i + 1])

Bit(n, value) == (n \div value) % 2 = 1

\* The broker reads a CONNECT as it was meant: its strings follow each other as the flags
\* say, to the end.
ReadsAs(b, info) ==
  LET start    == IF b[2] < 128 THEN 3 ELSE 4
      flags    == b[start + 9]
      will     == Behind(b, start + 12)
      message  == Behind(b, will)
      user     == IF Bit(flags, 4) THEN Behind(b, message) ELSE will
      password == IF Bit(flags, 128) THEN Behind(b, user) ELSE user
      end      == IF Bit(flags, 64) THEN Behind(b, password) ELSE password
  IN /\ b[1] = 16 /\ TotalLength(b, Len(b)) = Len(b)
     /\ StringAt(b, start) = MQIsdp /\ b[start + 8] = 3
     /\ Number(b[start + 10], b[start + 11]) = info.keepalive
     /\ Bit(flags, 4) <=> info.willTopic # << >>
     /\ Bit(flags, 128) <=> info.user # << >>
     /\ Bit(flags, 64) <=> info.password # << >>
     /\ Bit(flags, 4) => (flags \div 8) % 4 = info.willQos /\ (Bit(flags, 32) <=> info.willRetain = 1)
     /\ Bit(flags, 2) <=> info.clean = 1
     /\ StringAt(b, start + 12) = info.client
     /\ Bit(flags, 4) => StringAt(b, will) = info.willTopic /\ StringAt(b, message) = info.willMessage
     /\ Bit(flags, 128) => StringAt(b, user) = info.user
     /\ Bit(flags, 64) => StringAt(b, password) = info.password
     /\ end = Len(b) + 1

\* What the client sends of its own accord reads as what was asked for, or is too long for
\* its buffer; and its identifiers are never 0, although their counter wraps.
SentAsAsked ==
  CASE request.kind = "publish" /\ out # << >> ->
         /\ out = <<Wire(Packet(PUBLISH, request.qos, IF request.qos > 0 THEN messageId ELSE 0,
                                request.topic, request.data))>>
         /\ request.qos > 0 => messageId # 0
    [] request.kind = "subscribe" /\ out # <<Failed>> ->
         /\ out = <<Wire(Packet(SUBSCRIBE, 1, messageId, << >>, String(request.topic) \o <<0>>))>>
         /\ messageId # 0
    [] request.kind = "connect" /\ out # <<Failed>> -> ReadsAs(out[1], request.info)
    [] OTHER -> TRUE

=============================================================================
