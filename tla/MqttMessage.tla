---------------------------- MODULE MqttMessage ----------------------------
(***************************************************************************)
(* esp_mqtt/mqtt/mqtt_msg.c: the packets of MQTT 3.1 as sequences of bytes. *)
(*                                                                         *)
(* A packet is a header byte, the length of the rest in one or two bytes,   *)
(* and a body.  The C code writes a body into a buffer of BufSize bytes     *)
(* behind room for a header of three bytes, and gives up, with a message of *)
(* length 0, when something does not fit.  The checks of the single parts   *)
(* add up to one: the whole must fit.  Its readers get a buffer and a       *)
(* length that may be more, or less, than the packet at its beginning.      *)
(***************************************************************************)
EXTENDS Integers, Sequences

CONSTANT BufSize  \* MQTT_BUF_SIZE

\* Two bytes are enough for the length of any body that fits.
ASSUME BufAssumption == BufSize \in Nat /\ BufSize >= 16 /\ BufSize < 128 * 128

\* The types that the client tells apart.
CONNECT     == 1
PUBLISH     == 3
PUBACK      == 4
PUBREC      == 5
PUBREL      == 6
PUBCOMP     == 7
SUBSCRIBE   == 8
SUBACK      == 9
UNSUBACK    == 11
PINGREQ     == 12
PINGRESP    == 13

\* What follows the header of these is the identifier of a packet.
WithId == {PUBACK, PUBREC, PUBREL, PUBCOMP, SUBACK, UNSUBACK, SUBSCRIBE}

MaxHeader == 3                          \* MQTT_MAX_FIXED_HEADER_SIZE
Number(hi, lo) == 256 * hi + lo         \* two bytes of the network
Bytes2(n) == <<n \div 256, n % 256>>
Max16 == 65535                          \* the greatest of them

-----------------------------------------------------------------------------
(* Writing.  A message that could not be written is empty. *)

Failed == << >>

String(s) == Bytes2(Len(s)) \o s

Fits(body) == MaxHeader + Len(body) <= BufSize

\* The packets of the client have neither dup nor retain set.
Finish(type, qos, body) ==
  LET n == Len(body) IN
  <<16 * type + 2 * qos>> \o
  (IF n > 127 THEN <<128 + (n % 128), n \div 128>> ELSE <<n>>) \o body

Message(type, qos, body) == IF Fits(body) THEN Finish(type, qos, body) ELSE Failed

\* (A bug) The counter is used when it wraps to 0.
NextIdZero(id) == (id + 1) % (Max16 + 1)

\* The next identifier, in 16 bits; 0 is none.
NextId(id) == IF id = Max16 THEN 1 ELSE id + 1

\* An acknowledgement carries the identifier of what it answers, and an identifier
\* of its own when it is given none; id is the last one that was assigned.
AckId(given, id) == IF given = 0 THEN NextId(id) ELSE given

Ack(type, qos, given, id) == Message(type, qos, Bytes2(AckId(given, id)))

PingResp == Message(PINGRESP, 0, << >>)

\* mqtt_msg_publish: an identifier is assigned when the topic fits and the quality
\* of service asks for one.
PublishTakesId(topic, qos) == topic # << >> /\ Fits(String(topic)) /\ qos > 0

PublishMessage(topic, data, qos, id) ==
  IF topic = << >> THEN Failed
  ELSE Message(PUBLISH, qos,
               String(topic) \o (IF qos > 0 THEN Bytes2(NextId(id)) ELSE << >>) \o data)

\* mqtt_msg_connect, of a client with its will, its user and its password, each of which
\* may be empty: the flags tell which strings follow.
MQIsdp == <<77, 81, 73, 115, 100, 112>>
Flag(s, value) == IF s = << >> THEN 0 ELSE value
Optional(s, bytes) == IF s = << >> THEN << >> ELSE bytes

ConnectMessage(info) ==
  LET flags == 2 * info.clean + Flag(info.user, 128) + Flag(info.password, 64)
               + Flag(info.willTopic, 4 + 8 * info.willQos + 32 * info.willRetain)
  IN IF info.client = << >> THEN Failed
     ELSE Message(CONNECT, 0,
            String(MQIsdp) \o <<3, flags>> \o Bytes2(info.keepalive) \o String(info.client)
            \o Optional(info.willTopic, String(info.willTopic) \o String(info.willMessage))
            \o Optional(info.user, String(info.user))
            \o Optional(info.password, String(info.password)))

\* mqtt_msg_subscribe, of a topic with a quality of service to be granted.
SubscribeMessage(topic, qos, id) ==
  IF topic = << >> THEN Failed
  ELSE Message(SUBSCRIBE, 1, Bytes2(NextId(id)) \o String(topic) \o <<qos>>)

-----------------------------------------------------------------------------
(* Reading the packet at the beginning of b[1..n].                          *)

TypeOf(b) == b[1] \div 16
QosOf(b) == (b[1] \div 2) % 4

\* Where the length of a packet ends: the first byte after the header without the
\* continuation bit, or the last one that may be read.
LengthEnd(b, n) ==
  LET last == {i \in 2..n : b[i] < 128}
  IN IF last = {} THEN n ELSE CHOOSE i \in last : \A j \in last : i <= j

\* mqtt_get_total_length: seven bits of each byte, the low ones first.
TotalLength(b, n) ==
  LET e == LengthEnd(b, n)
      sum[i \in 2..(e + 1)] == IF i > e THEN 0 ELSE (b[i] % 128) + 128 * sum[i + 1]
  IN sum[2] + e

\* The length of the topic, and where the topic ends, when the two bytes of its length
\* can be read.
TopicLen(b, n) == LET e == LengthEnd(b, n) IN Number(b[e + 1], b[e + 2])
TopicEnd(b, n) == LengthEnd(b, n) + 2 + TopicLen(b, n)
HasTopic(b, n) == LengthEnd(b, n) + 2 < n

\* mqtt_get_id, with 0 for none.
GetId(b, n) ==
  IF TypeOf(b) = PUBLISH
  THEN IF HasTopic(b, n) /\ QosOf(b) > 0 /\ TopicEnd(b, n) + 2 < n
       THEN Number(b[TopicEnd(b, n) + 1], b[TopicEnd(b, n) + 2])
       ELSE 0
  ELSE IF TypeOf(b) \in WithId /\ n >= 4 /\ b[2] < 128 THEN Number(b[3], b[4]) ELSE 0

\* A pointer into the buffer with a length, or NULL (at = 0) with what the length
\* happens to be.
Slice(at, len) == [at |-> at, len |-> len]
Null(len) == Slice(0, len)

\* mqtt_get_publish_topic
PublishTopic(b, n) ==
  IF ~HasTopic(b, n) \/ TopicEnd(b, n) > n THEN Null(n)
  ELSE Slice(LengthEnd(b, n) + 3, TopicLen(b, n))

\* (A bug) The identifier is taken for the beginning of the data.
PublishDataWithId(b, n) ==
  IF ~HasTopic(b, n) THEN Null(n)
  ELSE IF TopicEnd(b, n) >= n THEN Null(0)
  ELSE Slice(TopicEnd(b, n) + 1,
             (IF TotalLength(b, n) <= n THEN TotalLength(b, n) ELSE n) - TopicEnd(b, n))

\* mqtt_get_publish_data.  Of its four ways to find no data only one resets the length.
PublishData(b, n) ==
  LET begin == TopicEnd(b, n) + (IF QosOf(b) > 0 THEN 2 ELSE 0)
      total == TotalLength(b, n)
  IN IF ~HasTopic(b, n) THEN Null(n)
     ELSE IF TopicEnd(b, n) >= n THEN Null(0)
     ELSE IF (QosOf(b) > 0 /\ begin >= n) \/ total < begin THEN Null(n)
     ELSE Slice(begin + 1, (IF total <= n THEN total ELSE n) - begin)

=============================================================================
