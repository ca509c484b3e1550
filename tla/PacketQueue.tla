----------------------------- MODULE PacketQueue -----------------------------
(***************************************************************************)
(* The queue of outgoing packets of the MQTT client: a ring buffer of bytes *)
(* (esp_mqtt/mqtt/ringbuf.c), frames with byte stuffing in it (proto.c),    *)
(* and the three ways the client uses it (queue.c, mqtt.c).                 *)
(*                                                                         *)
(* A frame that does not fit is abandoned where the ring is full, and its   *)
(* first part stays there for the reader to skip.  All users run in tasks   *)
(* and callbacks of the SDK, which do not preempt each other, so that       *)
(* putting or getting a packet is one step.                                 *)
(***************************************************************************)
EXTENDS Integers, Sequences, FiniteSetsExt

CONSTANTS Packets, \* the packets the client may want to send, as bytes
          Size,    \* QUEUE_BUFFER_SIZE
          MaxLen,  \* MQTT_BUF_SIZE
          None

VARIABLES buf, r, w, fill, \* the ring: p_o, p_r, p_w as indices, fill_cnt
          pc, job,         \* whether MQTT_Publish is in its loop, and its packet
          got              \* the packet this step took out of the queue, or None

vars == <<buf, r, w, fill, pc, job, got>>

ESC   == 125
BEGIN == 126
END   == 127

\* value ^ 0x20
Flip(b) == IF (b \div 32) % 2 = 1 THEN b - 32 ELSE b + 32

Slots == 0..(Size - 1)

\* A pointer behind the end of the ring goes on at its beginning.
Wrapped(i) == IF i >= Size THEN i - Size ELSE i

-----------------------------------------------------------------------------
(* proto.c: writing. *)

Stuffed(b) == IF b \in {ESC, BEGIN, END} THEN <<ESC, Flip(b)>> ELSE <<b>>

\* The bytes that PROTO_AddRb puts for the first k bytes of a packet.
Stuffing(p) ==
  LET upTo[k \in 0..Len(p)] == IF k = 0 THEN << >> ELSE upTo[k - 1] \o Stuffed(p[k])
  IN upTo

\* The bytes that it puts for a packet.
Frame == [p \in Packets |-> <<BEGIN>> \o Stuffing(p)[Len(p)] \o <<END>>]

Fits(p) == Len(Frame[p]) <= Size - fill

\* RINGBUF_Put, for the first n bytes of s.
AddBytes(s, n) ==
  /\ buf' = [i \in Slots |-> LET k == Wrapped(i - w + Size)
                             IN IF k < n THEN s[k + 1] ELSE buf[i]]
  /\ w' = Wrapped(w + n)
  /\ fill' = fill + n

\* PROTO_AddRb
AddRb(p) ==
  /\ AddBytes(Frame[p], IF Fits(p) THEN Len(Frame[p]) ELSE Size - fill)
  /\ r' = r /\ got' = None

-----------------------------------------------------------------------------
(* proto.c: reading. *)

Content == [k \in 1..fill |-> buf[Wrapped(r + k - 1)]]

\* Where frames end among the bytes of c.
Ends(c) == {k \in 1..Len(c) : c[k] = END}

\* (A bug) A new frame does not throw away the one before it.
ParseByteMerges(state, v) ==
  IF v = ESC THEN [state EXCEPT !.esc = TRUE]
  ELSE IF v = BEGIN THEN [state EXCEPT !.begin = TRUE, !.esc = FALSE]
  ELSE IF ~state.begin THEN state
  ELSE [state EXCEPT !.esc = FALSE,
          !.data = Append(@, IF state.esc THEN Flip(v) ELSE v)]

\* PROTO_ParseByte, but for the end of a frame.
ParseByte(state, v) ==
  IF v = ESC THEN [state EXCEPT !.esc = TRUE]
  ELSE IF v = BEGIN THEN [begin |-> TRUE, esc |-> FALSE, data |-> << >>]
  ELSE IF ~state.begin THEN state
  ELSE [state EXCEPT !.esc = FALSE,
          !.data = IF Len(@) < MaxLen
                   THEN Append(@, IF state.esc THEN Flip(v) ELSE v) ELSE @]

\* What is read of the ring by PROTO_ParseRb: a frame with all that comes before
\* it, or all there is; 0 when there is no end of a frame.
FrameEnd == IF Ends(Content) = {} THEN 0 ELSE Min(Ends(Content))

\* The parser after each byte up to that end.  isBegin is not initialised: the first byte
\* finds it as it was on the stack.
States(stack) ==
  LET after[k \in 0..(FrameEnd - 1)] ==
        IF k = 0 THEN [begin |-> stack, esc |-> FALSE, data |-> << >>]
                 ELSE ParseByte(after[k - 1], Content[k])
  IN after

Parsed(stack) == States(stack)[FrameEnd - 1].data

\* (A bug) The end of the frame is read and not counted.
TakeBytesOffByOne(n) ==
  /\ r' = Wrapped(r + n)
  /\ fill' = IF n = 0 THEN fill ELSE fill - n + 1
  /\ UNCHANGED <<buf, w>>

\* RINGBUF_Get, n times.
TakeBytes(n) ==
  /\ r' = Wrapped(r + n)
  /\ fill' = fill - n
  /\ UNCHANGED <<buf, w>>

\* PROTO_ParseRb
ParseRb ==
  /\ TakeBytes(IF FrameEnd = 0 THEN fill ELSE FrameEnd)
  /\ IF FrameEnd = 0 THEN got' = None
     ELSE \E stack \in BOOLEAN : got' = Parsed(stack)

-----------------------------------------------------------------------------
(* mqtt.c: the users of the queue. *)

\* QUEUE_Init
Init ==
  /\ buf = [i \in Slots |-> 0] /\ r = 0 /\ w = 0 /\ fill = 0
  /\ pc = "idle" /\ job = None /\ got = None

\* mqtt_tcpclient_recv queues an answer, and goes on when it does not fit.
Respond(p) ==
  /\ pc = "idle"
  /\ AddRb(p)
  /\ UNCHANGED <<pc, job>>

\* MQTT_Publish and MQTT_Subscribe drop packets until theirs fits.
Publish(p) ==
  /\ pc = "idle"
  /\ pc' = "put" /\ job' = p /\ got' = None
  /\ UNCHANGED <<buf, r, w, fill>>

PublishPut ==
  /\ pc = "put"
  /\ AddRb(job)
  /\ pc' = IF Fits(job) THEN "idle" ELSE "drop"
  /\ job' = job

\* (A bug) The packet to be dropped is looked at, not taken.
PublishDropPeeks ==
  /\ pc = "drop"
  /\ pc' = IF FrameEnd = 0 THEN "idle" ELSE "put"
  /\ got' = None
  /\ UNCHANGED <<buf, r, w, fill, job>>

\* Finding no packet to drop is a "serious buffer error": the publication is lost.
PublishDrop ==
  /\ pc = "drop"
  /\ ParseRb
  /\ pc' = IF FrameEnd = 0 THEN "idle" ELSE "put"
  /\ job' = job

\* MQTT_Task takes the next packet to send.
Send ==
  /\ pc = "idle" /\ fill > 0
  /\ ParseRb
  /\ UNCHANGED <<pc, job>>

Next == \/ \E p \in Packets : Respond(p) \/ Publish(p)
        \/ PublishPut \/ PublishDrop \/ Send

Spec == Init /\ [][Next]_vars

\* A function that runs is not interrupted.
FairSpec == Spec /\ WF_vars(PublishPut \/ PublishDrop)

-----------------------------------------------------------------------------
(* Properties. *)

\* The shape of the state; the three counters of the ring agree, whether it is full
\* or empty (ringbuf.c).
TypeOK ==
  /\ buf \in [Slots -> 0..255]
  /\ r \in Slots /\ w \in Slots /\ fill \in 0..Size
  /\ w = r + fill \/ w = r + fill - Size
  /\ pc \in {"idle", "put", "drop"} /\ job \in Packets \union {None}
  /\ got = None \/ got \in Seq(0..255)

\* The whole frame of p is in c and ends at e.
EndsAt(p, c, e) ==
  LET n == Len(Frame[p])
  IN n <= e /\ \A j \in 1..n : c[e - n + j] = Frame[p][j]

\* f goes through the ends of frames in their order.
InOrder(f, ends) ==
  /\ \A i, j \in DOMAIN f : i < j => f[i] < f[j]
  /\ \A e \in ends : \E i \in DOMAIN f : f[i] = e

Ordered(ends) == CHOOSE f \in [1..Cardinality(ends) -> ends] : InOrder(f, ends)

\* The packets whose frames are complete.
CompleteIn(c) ==
  [i \in 1..Cardinality(Ends(c)) |->
     CHOOSE p \in Packets : EndsAt(p, c, Ordered(Ends(c))[i])]
Complete == CompleteIn(Content)

\* Whatever was abandoned in the ring before, between or after them, the packets that
\* were accepted come out in order, each as it was put in: no part of an abandoned
\* frame, no uninitialised flag and no escaped byte gets into one.
Fifo == INSTANCE PacketFifo WITH pending <- Complete
PacketsInOrder == Fifo!Spec

\* The loop of MQTT_Publish and MQTT_Subscribe ends.
PublishEnds == pc # "idle" ~> pc = "idle"

\* mqtt.c:407: a full queue without a packet that could be dropped to make room is
\* called a serious buffer error; it does not happen to packets that fit the queue.
DropFindsPacket == pc = "drop" => Complete # << >>

\* The bytes of a packet are bytes, its frame fits the ring, and None is no packet.
ASSUME PacketAssumption ==
  /\ Size \in Nat /\ Size > 1 /\ MaxLen \in Nat
  /\ Packets \subseteq Seq(0..255)
  /\ \A p \in Packets : Len(p) <= MaxLen /\ Len(Frame[p]) <= Size
  /\ None \notin Seq(0..255)

=============================================================================
