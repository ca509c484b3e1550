--------------------------- MODULE MCMqttSession ---------------------------
(* MqttSession for TLC: short packets, and some around the length at which the length
   itself takes a second byte (127 and 128) and around the size of the buffer.  The
   counter of the identifiers starts at 0, or is about to wrap. *)
EXTENDS MqttSession

Times(n) == [i \in 1..n |-> 7]
T == <<65>>
Published(qos, id, data) == Packet(PUBLISH, qos, id, T, data)
Other(type, qos, id, data) == Packet(type, qos, id, << >>, data)

MCIncoming == {Published(0, 0, << >>), Published(1, 258, <<2, 3>>),
               Published(1, 7, << >>), Published(2, 515, Times(123)),
               Other(PUBREC, 0, 9, << >>), Other(PUBREL, 1, 515, << >>),
               Other(PINGREQ, 0, 0, << >>)}

MCTopics == {<< >>, T, Times(140)}
MCDatas == {<< >>, <<5>>, Times(123), Times(125), Times(140)}

Info(will, user, password, qos, retain) ==
  [client |-> <<67>>, willTopic |-> will, willMessage |-> <<79, 70>>, willQos |-> qos,
   willRetain |-> retain, user |-> user, password |-> password, keepalive |-> 120, clean |-> 1]
MCInfos == {Info(w, u, p, q, r) : w \in {<< >>, T}, u \in {<< >>, <<85>>},
                                  p \in {<< >>, Times(104)},
                                  q \in {0, 2}, r \in {0, 1}}
=============================================================================
