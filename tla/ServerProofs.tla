---------------------------- MODULE ServerProofs ----------------------------
(***************************************************************************)
(* Theorems about Server for any connections, blocks, message lengths,     *)
(* packet size and event-queue length.                                     *)
(***************************************************************************)
EXTENDS Server, FiniteSetTheorems, TLAPS

-----------------------------------------------------------------------------
(* Sequences: what Append and Tail keep. *)

LEMMA AppendSeq ==
  ASSUME NEW S, NEW q \in Seq(S), NEW e \in S
  PROVE  /\ Append(q, e) \in Seq(S)
         /\ Len(Append(q, e)) = Len(q) + 1
         /\ \A i \in 1..Len(q) : Append(q, e)[i] = q[i]
         /\ Append(q, e)[Len(q) + 1] = e
  OBVIOUS

LEMMA TailSeq ==
  ASSUME NEW S, NEW q \in Seq(S), q # << >>
  PROVE  /\ Head(q) \in S
         /\ Head(q) = q[1]
         /\ Tail(q) \in Seq(S)
         /\ Len(Tail(q)) = Len(q) - 1
         /\ Len(q) \in Nat \ {0}
         /\ \A i \in 1..Len(Tail(q)) : Tail(q)[i] = q[i + 1]
  OBVIOUS

LEMMA EmptySeq ==
  ASSUME NEW S
  PROVE  << >> \in Seq(S) /\ Len(<< >>) = 0
  OBVIOUS

\* A post keeps the event queue within its length.
LEMMA PostType ==
  ASSUME NEW q \in Seq(Events), Len(q) <= QLen, NEW e \in Events
  PROVE  /\ Post(q, e) \in Seq(Events) /\ Len(Post(q, e)) <= QLen
         /\ Full(q) \in BOOLEAN
<1>1. QLen \in Nat /\ Len(q) \in Nat BY ServerAssumption
<1>2. CASE Full(q) BY <1>2 DEF Post, Full
<1>3. CASE ~Full(q)
  <2>1. Len(q) < QLen BY <1>1, <1>3 DEF Full
  <2>2. Post(q, e) = Append(q, e) BY <1>3 DEF Post
  <2> QED BY <1>1, <2>1, <2>2, AppendSeq, Zenon, SMT DEF Full
<1> QED BY <1>2, <1>3 DEF Full

\* Pushing keeps a queue a sequence of messages.
LEMMA PushType ==
  ASSUME NEW q \in Seq(Messages), NEW c \in Conns, NEW b \in Bufs, NEW n \in Lens
  PROVE  Push(q, c, b, n) \in Seq(Messages)
BY DEF Push, Messages, Message

LEMMA UnshiftType ==
  ASSUME NEW q \in Seq(Messages), ~Empty(q)
  PROVE  First(q) \in Messages /\ Unshift(q) \in Seq(Messages)
BY TailSeq DEF First, Unshift, Empty

-----------------------------------------------------------------------------
(* Type correctness, with what pc says of the statics of server_task. *)

LEMMA ClearedType == Cleared \in Seq(Messages)
BY DEF Cleared

\* A call of espconn_sent keeps the outputs in their types.
LEMMA SentType ==
  ASSUME TypeOK, NEW chunk \in Fragments, Sent(chunk)
  PROVE  /\ unacked' \in [Conns -> 0..MaxUnacked]
         /\ lost' \in BOOLEAN
         /\ out' \in Fragments \union {None}
<1>1. chunk.conn \in Conns BY DEF Fragments
<1>2. MaxUnacked \in Nat /\ unacked \in [Conns -> 0..MaxUnacked]
  BY ServerAssumption DEF TypeOK
<1>3. CASE unacked' = unacked /\ lost' = TRUE BY <1>2, <1>3 DEF Sent
<1>4. CASE /\ unacked[chunk.conn] < MaxUnacked /\ lost' = lost
           /\ unacked' = [unacked EXCEPT ![chunk.conn] = @ + 1]
  <2>1. unacked[chunk.conn] + 1 \in 0..MaxUnacked BY <1>1, <1>2, <1>4
  <2>2. unacked' \in [Conns -> 0..MaxUnacked] BY <1>2, <1>4, <2>1
  <2> QED BY <1>4, <2>2 DEF Sent, TypeOK
<1> QED BY <1>3, <1>4 DEF Sent

LEMMA EnqueueType ==
  ASSUME TypeOK, NEW c \in Conns, NEW b \in Bufs, NEW n \in Lens, Enqueue(c, b, n)
  PROVE  /\ sendq' \in Seq(Messages)
         /\ evq' \in Seq(Events) /\ Len(evq') <= QLen
         /\ lost' \in BOOLEAN
BY PushType, PostType DEF Enqueue, TypeOK, Events

LEMMA TakeType ==
  ASSUME TypeOK, NEW e, Take(e)
  PROVE  evq' \in Seq(Events) /\ Len(evq') <= QLen
<1>1. evq \in Seq(Events) /\ evq # << >> /\ evq' = Tail(evq) BY DEF Take, TypeOK
<1>2. Len(evq) \in Nat /\ Len(evq') = Len(evq) - 1 BY <1>1, TailSeq
<1> QED BY <1>1, <1>2, TailSeq, ServerAssumption DEF TypeOK

\* The two chunks a message or a fragment is cut into.
LEMMA ChunkType ==
  ASSUME NEW m \in Messages \union Fragments
  PROVE  /\ \A k, n \in Nat : Chunk(m, k, n) \in Fragments
         /\ m.len \in Nat
         /\ m.len > MTU => m.len - MTU \in Nat
<1>1. m.conn \in Conns /\ m.buf \in Bufs /\ m.len \in Nat
  BY ServerAssumption DEF Messages, Message, Fragments
<1> QED BY <1>1, ServerAssumption DEF Chunk, Fragments

LEMMA InitControl == Init => TypeOK /\ ControlOK
<1> SUFFICES ASSUME Init PROVE TypeOK /\ ControlOK OBVIOUS
<1>1. << >> \in Seq(Messages) /\ << >> \in Seq(Events) /\ Len(<< >>) = 0
  BY EmptySeq
<1>2. QLen \in Nat /\ 0 \in 0..MaxUnacked BY ServerAssumption
<1>3. TypeOK
  <2>1. recvq \in Seq(Messages) /\ sendq \in Seq(Messages)
    BY <1>1 DEF Init, Cleared
  <2>2. evq \in Seq(Events) /\ Len(evq) <= QLen
    <3>1. evq = << >> BY DEF Init
    <3> QED BY <1>1, <1>2, <3>1
  <2>3. unacked \in [Conns -> 0..MaxUnacked] BY <1>2 DEF Init
  <2>4. heap \subseteq Bufs /\ leaked \subseteq Bufs /\ open \subseteq Conns BY DEF Init
  <2>5. /\ sending \in BOOLEAN /\ more \in BOOLEAN /\ listening \in BOOLEAN
        /\ lost \in BOOLEAN /\ lostRx \in BOOLEAN
    BY DEF Init
  <2>6. cur = None /\ job = None /\ out = None /\ pc \in Places BY DEF Init, Places
  <2> QED BY <2>1, <2>2, <2>3, <2>4, <2>5, <2>6 DEF TypeOK
<1>4. pc = "idle" /\ more = FALSE BY DEF Init
<1>5. ControlOK BY <1>4 DEF ControlOK
<1> QED BY <1>3, <1>5

LEMMA NextControl == TypeOK /\ ControlOK /\ [Next]_vars => TypeOK' /\ ControlOK'
<1> SUFFICES ASSUME TypeOK, ControlOK, [Next]_vars PROVE TypeOK' /\ ControlOK'
  OBVIOUS
<1> USE DEF TypeOK, ControlOK, Places
<1>1. ASSUME NEW c \in Conns, ConnectCb(c)
      PROVE  TypeOK' /\ ControlOK'
  BY <1>1 DEF ConnectCb
<1>2. ASSUME NEW c \in Conns, DisconnectCb(c)
      PROVE  TypeOK' /\ ControlOK'
  BY <1>2, ServerAssumption DEF DisconnectCb
<1>3. ASSUME NEW c \in Conns, SentCb(c)
      PROVE  TypeOK' /\ ControlOK'
  BY <1>3, PostType, ServerAssumption DEF SentCb, net, ghosts, Events
<1>4. ASSUME NEW c \in Conns, NEW b \in Bufs, NEW n \in Lens, RecvCb(c, b, n)
      PROVE  TypeOK' /\ ControlOK'
  BY <1>4, PostType, PushType DEF RecvCb, Events, Fresh
<1>5. ASSUME NEW c \in Conns, NEW b \in Bufs, NEW n \in Lens, PictureDone(c, b, n)
      PROVE  TypeOK' /\ ControlOK'
  BY <1>5, EnqueueType DEF PictureDone, net, ghosts
<1>6. ASSUME TaskRx
      PROVE  TypeOK' /\ ControlOK'
  BY <1>6, TakeType, UnshiftType DEF TaskRx, Take, net, ghosts
<1>7. ASSUME ParseQuiet
      PROVE  TypeOK' /\ ControlOK'
  BY <1>7 DEF ParseQuiet, Parsed, net, ghosts
<1>8. ASSUME NEW b \in Bufs, NEW n \in Lens, ParseReply(b, n)
      PROVE  TypeOK' /\ ControlOK'
  <2>1. job.conn \in Conns
    BY <1>8 DEF ParseReply, Parsed, Messages, Message
  <2> QED BY <1>8, <2>1, EnqueueType DEF ParseReply, Parsed, net, ghosts
<1>9. ASSUME ParseDirect
      PROVE  TypeOK' /\ ControlOK'
  BY <1>9, ServerAssumption DEF ParseDirect, Parsed, net, ghosts, Messages, Message
<1>10. ASSUME ParseClose
      PROVE  TypeOK' /\ ControlOK'
  BY <1>10, ClearedType DEF ParseClose, Parsed, net, ghosts
<1>11. ASSUME TaskTx
      PROVE  TypeOK' /\ ControlOK'
  BY <1>11, TakeType, UnshiftType DEF TaskTx, Take, net, ghosts
<1>12. ASSUME SendWhole
      PROVE  TypeOK' /\ ControlOK'
  <2>1. job \in Messages BY <1>12 DEF SendWhole
  <2>2. Chunk(job, 0, job.len) \in Fragments BY <1>12, <2>1, ChunkType
  <2> QED BY <1>12, <2>2, SentType DEF SendWhole, net, ghosts
<1>13. ASSUME SendFirst
      PROVE  TypeOK' /\ ControlOK'
  <2>1. job \in Messages BY <1>13 DEF SendFirst
  <2>2. Chunk(job, 0, MTU) \in Fragments /\ Chunk(job, MTU, job.len - MTU) \in Fragments
    BY <1>13, <2>1, ChunkType, ServerAssumption DEF SendFirst
  <2> QED BY <1>13, <2>2, SentType DEF SendFirst, net, ghosts
<1>14. ASSUME TaskTxDone
      PROVE  TypeOK' /\ ControlOK'
  BY <1>14, TakeType DEF TaskTxDone, Take, net, ghosts
<1>15. ASSUME SendMore
      PROVE  TypeOK' /\ ControlOK'
  <2>1. cur \in Fragments /\ cur.off \in Nat BY <1>15 DEF SendMore, Fragments
  <2>2. Chunk(cur, cur.off, MTU) \in Fragments
        /\ Chunk(cur, cur.off + MTU, cur.len - MTU) \in Fragments
    <3>1. MTU \in Nat /\ cur.off + MTU \in Nat BY <2>1, ServerAssumption
    <3>2. cur.len - MTU \in Nat BY <1>15, <2>1, ChunkType DEF SendMore
    <3> QED BY <2>1, <3>1, <3>2, ChunkType
  <2> QED BY <1>15, <2>2, SentType DEF SendMore, net, ghosts
<1>16. ASSUME SendLast
      PROVE  TypeOK' /\ ControlOK'
  <2>1. cur \in Fragments /\ cur.off \in Nat BY <1>16 DEF SendLast, Fragments
  <2>2. Chunk(cur, cur.off, cur.len) \in Fragments BY <1>16, <2>1, ChunkType
  <2> QED BY <1>16, <2>2, SentType DEF SendLast, net, ghosts
<1>17. ASSUME TaskFragEnd
      PROVE  TypeOK' /\ ControlOK'
  BY <1>17 DEF TaskFragEnd, net, ghosts
<1>18. ASSUME TaskRepost
      PROVE  TypeOK' /\ ControlOK'
  BY <1>18, PostType DEF TaskRepost, net, ghosts, Events
<1>19. ASSUME ServerClose
      PROVE  TypeOK' /\ ControlOK'
  BY <1>19, ClearedType DEF ServerClose, net, ghosts
<1>20. ASSUME ServerInit
      PROVE  TypeOK' /\ ControlOK'
  <2>1. evq' \in Seq(Events) /\ Len(evq') <= QLen
    <3>1. CASE evq' = evq BY <3>1
    <3>2. CASE evq' = << >>
      <4>1. << >> \in Seq(Events) /\ Len(<< >>) = 0 BY EmptySeq
      <4> QED BY <3>2, <4>1, ServerAssumption
    <3> QED BY <1>20, <3>1, <3>2 DEF ServerInit
  <2>2. lost' \in BOOLEAN
    <3>1. CASE evq' = evq /\ lost' = lost BY <3>1
    <3>2. CASE lost' = (lost \/ \E i \in 1..Len(evq) : evq[i] = "TX_DONE")
      BY <3>2, Zenon
    <3> QED BY <1>20, <3>1, <3>2 DEF ServerInit
  <2>3. listening' \in BOOLEAN BY <1>20 DEF ServerInit
  <2> QED BY <1>20, <2>1, <2>2, <2>3, ClearedType DEF ServerInit, ghosts
<1>21. ASSUME UNCHANGED vars
      PROVE  TypeOK' /\ ControlOK'
  BY <1>21 DEF vars
<1> QED BY <1>1, <1>2, <1>3, <1>4, <1>5, <1>6, <1>7, <1>8, <1>9, <1>10, <1>11, <1>12, <1>13, <1>14, <1>15, <1>16, <1>17, <1>18, <1>19, <1>20, <1>21
     DEF Next, Task, Parse, Callback, Interrupt

\* Every state of server.c has the shape TypeOK gives it, and the flags of
\* server_task agree with where it is.
THEOREM ServerTypeCorrect == Spec => [](TypeOK /\ ControlOK)
<1>1. Init => TypeOK /\ ControlOK BY InitControl
<1>2. TypeOK /\ ControlOK /\ [Next]_vars => TypeOK' /\ ControlOK' BY NextControl
<1> QED BY <1>1, <1>2, PTL DEF Spec

\* The queues of server.c hold messages, the event queue is bounded, and the message in
\* hand is a message of a connection.
THEOREM ServerTypeOK == Spec => []TypeOK
<1> QED BY ServerTypeCorrect, PTL

-----------------------------------------------------------------------------
(* Ownership of the heap blocks.                                            *)

\* What a push, an unshift and a clear do to the blocks of a queue.
LEMMA PushBlocks ==
  ASSUME NEW q \in Seq(Messages), NEW c \in Conns, NEW b \in Bufs, NEW n \in Lens,
         Distinct(q), b \notin Blocks(q)
  PROVE  /\ Blocks(Push(q, c, b, n)) = Blocks(q) \union {b}
         /\ Distinct(Push(q, c, b, n))
<1> DEFINE m == [conn |-> c, buf |-> b, len |-> n]
<1>1. m \in Messages /\ m.buf = b BY DEF Messages, Message
<1>2. /\ Len(Append(q, m)) = Len(q) + 1 /\ Len(q) \in Nat
      /\ \A i \in 1..Len(q) : Append(q, m)[i] = q[i]
      /\ Append(q, m)[Len(q) + 1] = m
  BY <1>1, AppendSeq
<1> HIDE DEF m
<1>3. Blocks(Append(q, m)) = Blocks(q) \union {b}
  <2>1. ASSUME NEW x \in Blocks(Append(q, m)) PROVE x \in Blocks(q) \union {b}
    <3>1. PICK i \in 1..(Len(q) + 1) : x = Append(q, m)[i].buf
      BY <1>2, <2>1 DEF Blocks
    <3>2. CASE i \in 1..Len(q) BY <1>2, <3>1, <3>2 DEF Blocks
    <3>3. CASE i = Len(q) + 1 BY <1>1, <1>2, <3>1, <3>3
    <3> QED BY <1>2, <3>2, <3>3
  <2>2. ASSUME NEW x \in Blocks(q) PROVE x \in Blocks(Append(q, m))
    <3>1. PICK i \in 1..Len(q) : x = q[i].buf BY <2>2 DEF Blocks
    <3>2. i \in 1..(Len(q) + 1) /\ x = Append(q, m)[i].buf BY <1>2, <3>1
    <3> QED BY <1>2, <3>2 DEF Blocks
  <2>3. b \in Blocks(Append(q, m))
    <3>1. Len(q) + 1 \in 1..(Len(q) + 1) BY <1>2
    <3> QED BY <1>1, <1>2, <3>1 DEF Blocks
  <2> QED BY <2>1, <2>2, <2>3
<1>4. Distinct(Append(q, m))
  <2> SUFFICES ASSUME NEW i \in 1..(Len(q) + 1), NEW j \in 1..(Len(q) + 1),
                      Append(q, m)[i].buf = Append(q, m)[j].buf
               PROVE  i = j
    BY <1>2 DEF Distinct
  <2>1. \A k \in 1..Len(q) : Append(q, m)[k].buf # b
    BY <1>2 DEF Blocks
  <2>2. CASE i \in 1..Len(q) /\ j \in 1..Len(q) BY <1>2, <2>2 DEF Distinct
  <2>3. CASE i = Len(q) + 1 /\ j \in 1..Len(q) BY <1>1, <1>2, <2>1, <2>3
  <2>4. CASE j = Len(q) + 1 /\ i \in 1..Len(q) BY <1>1, <1>2, <2>1, <2>4
  <2> QED BY <1>2, <2>2, <2>3, <2>4
<1> QED BY <1>3, <1>4 DEF Push, m

LEMMA UnshiftBlocks ==
  ASSUME NEW q \in Seq(Messages), ~Empty(q), Distinct(q)
  PROVE  /\ First(q).buf \in Blocks(q)
         /\ Blocks(Unshift(q)) = Blocks(q) \ {First(q).buf}
         /\ Distinct(Unshift(q))
<1>1. /\ Len(Tail(q)) = Len(q) - 1 /\ Len(q) \in Nat \ {0}
      /\ Head(q) = q[1]
      /\ \A i \in 1..Len(Tail(q)) : Tail(q)[i] = q[i + 1]
  BY TailSeq DEF Empty
<1>2. Head(q).buf \in Blocks(q) BY <1>1 DEF Blocks
<1>3. Blocks(Tail(q)) = Blocks(q) \ {Head(q).buf}
  <2>1. ASSUME NEW x \in Blocks(Tail(q)) PROVE x \in Blocks(q) /\ x # Head(q).buf
    <3>1. PICK i \in 1..Len(Tail(q)) : x = Tail(q)[i].buf BY <2>1 DEF Blocks
    <3>2. i + 1 \in 1..Len(q) /\ x = q[i + 1].buf BY <1>1, <3>1
    <3>3. 1 \in 1..Len(q) /\ i + 1 # 1 BY <1>1, <3>1
    <3> QED BY <1>1, <3>2, <3>3 DEF Blocks, Distinct
  <2>2. ASSUME NEW x \in Blocks(q), x # Head(q).buf PROVE x \in Blocks(Tail(q))
    <3>1. PICK i \in 1..Len(q) : x = q[i].buf BY <2>2 DEF Blocks
    <3>2. i # 1 BY <1>1, <2>2, <3>1
    <3>3. i - 1 \in 1..Len(Tail(q)) /\ (i - 1) + 1 = i BY <1>1, <3>1, <3>2
    <3>4. x = Tail(q)[i - 1].buf BY <1>1, <3>1, <3>3
    <3> QED BY <3>3, <3>4 DEF Blocks
  <2> QED BY <2>1, <2>2
<1>4. Distinct(Tail(q))
  <2> SUFFICES ASSUME NEW i \in 1..Len(Tail(q)), NEW j \in 1..Len(Tail(q)),
                      Tail(q)[i].buf = Tail(q)[j].buf
               PROVE  i = j
    BY DEF Distinct
  <2>1. i + 1 \in 1..Len(q) /\ j + 1 \in 1..Len(q) BY <1>1
  <2>2. q[i + 1].buf = q[j + 1].buf BY <1>1
  <2>3. i + 1 = j + 1 BY <2>1, <2>2 DEF Distinct
  <2> QED BY <1>1, <2>3
<1> QED BY <1>2, <1>3, <1>4 DEF First, Unshift

LEMMA ClearedBlocks == Blocks(Cleared) = {} /\ Distinct(Cleared)
<1>1. 1..Len(<< >>) = {} OBVIOUS
<1> QED BY <1>1 DEF Blocks, Distinct, Cleared

-----------------------------------------------------------------------------
(* The invariant of the proof: the ownership of blocks rests on the flags.  *)

Inv == TypeOK /\ ControlOK /\ OwnedOnce

LEMMA InitOwned == Init => OwnedOnce
<1> SUFFICES ASSUME Init PROVE OwnedOnce OBVIOUS
<1>1. recvq = Cleared /\ sendq = Cleared /\ heap = {} /\ leaked = {} BY DEF Init
<1>2. InHand = {} /\ Partial = {} BY DEF Init, InHand, Partial
<1> QED BY <1>1, <1>2, ClearedBlocks DEF OwnedOnce

LEMMA NextOwned == Inv /\ [Next]_vars => OwnedOnce'
<1> SUFFICES ASSUME Inv, [Next]_vars PROVE OwnedOnce' OBVIOUS
<1>0. /\ recvq \in Seq(Messages) /\ sendq \in Seq(Messages)
      /\ OwnedOnce
      /\ pc = "tx" => ~more
      /\ pc = "frag" => more
  BY DEF Inv, TypeOK, ControlOK
<1>1. ASSUME NEW c \in Conns, ConnectCb(c) PROVE OwnedOnce'
  BY <1>0, <1>1 DEF ConnectCb, OwnedOnce, InHand, Partial
<1>2. ASSUME NEW c \in Conns, DisconnectCb(c) PROVE OwnedOnce'
  BY <1>0, <1>2 DEF DisconnectCb, OwnedOnce, InHand, Partial
<1>3. ASSUME NEW c \in Conns, SentCb(c) PROVE OwnedOnce'
  BY <1>0, <1>3 DEF SentCb, net, ghosts, OwnedOnce, InHand, Partial
<1>4. ASSUME NEW c \in Conns, NEW b \in Bufs, NEW n \in Lens, RecvCb(c, b, n) PROVE OwnedOnce'
  <2>1. InHand' = InHand /\ Partial' = Partial /\ sendq' = sendq
    BY <1>4 DEF RecvCb, InHand, Partial
  <2>2. b \notin heap /\ heap' = heap \union {b} BY <1>4 DEF RecvCb, Fresh
  <2>3. CASE recvq' = Push(recvq, c, b, n) /\ leaked' = leaked
    <3>1. Blocks(recvq') = Blocks(recvq) \union {b} /\ Distinct(recvq')
      BY <1>0, <2>2, <2>3, PushBlocks DEF OwnedOnce
    <3> QED BY <1>0, <2>1, <2>2, <2>3, <3>1 DEF OwnedOnce
  <2>4. CASE recvq' = recvq /\ leaked' = leaked \union {b}
    BY <1>0, <2>1, <2>2, <2>4 DEF OwnedOnce
  <2> QED BY <1>4, <2>3, <2>4 DEF RecvCb
<1>5. ASSUME NEW c \in Conns, NEW b \in Bufs, NEW n \in Lens, PictureDone(c, b, n) PROVE OwnedOnce'
  <2>1. InHand' = InHand /\ Partial' = Partial /\ recvq' = recvq /\ leaked' = leaked
    BY <1>5 DEF PictureDone, ghosts, InHand, Partial
  <2>2. b \notin heap /\ heap' = heap \union {b} /\ sendq' = Push(sendq, c, b, n)
    BY <1>5 DEF PictureDone, Enqueue, Fresh
  <2>3. Blocks(sendq') = Blocks(sendq) \union {b} /\ Distinct(sendq')
    BY <1>0, <2>2, PushBlocks DEF OwnedOnce
  <2> QED BY <1>0, <2>1, <2>2, <2>3 DEF OwnedOnce
<1>6. ASSUME TaskRx PROVE OwnedOnce'
  <2>1. /\ pc = "idle" /\ Partial' = Partial /\ sendq' = sendq
        /\ leaked' = leaked /\ heap' = heap
    BY <1>6 DEF TaskRx, Take, ghosts, Partial
  <2>2. InHand = {} BY <2>1 DEF InHand
  <2>3. CASE Empty(recvq)
    <3>1. InHand' = {} /\ recvq' = recvq BY <1>6, <2>1, <2>3 DEF TaskRx, InHand
    <3> QED BY <1>0, <2>1, <2>2, <3>1 DEF OwnedOnce
  <2>4. CASE ~Empty(recvq)
    <3>1. InHand' = {First(recvq).buf} /\ recvq' = Unshift(recvq)
      BY <1>6, <2>4 DEF TaskRx, InHand
    <3>2. /\ First(recvq).buf \in Blocks(recvq) /\ Distinct(recvq')
          /\ Blocks(recvq') = Blocks(recvq) \ {First(recvq).buf}
      BY <1>0, <2>4, <3>1, UnshiftBlocks DEF OwnedOnce
    <3> QED BY <1>0, <2>1, <2>2, <3>1, <3>2 DEF OwnedOnce
  <2> QED BY <2>3, <2>4
<1>7. ASSUME ParseQuiet PROVE OwnedOnce'
  <2>1. pc = "parse" /\ InHand = {job.buf} /\ InHand' = {}
    BY <1>7 DEF ParseQuiet, Parsed, InHand
  <2>2. Partial' = Partial BY <1>7 DEF ParseQuiet, Partial
  <2> QED BY <1>0, <1>7, <2>1, <2>2 DEF ParseQuiet, ghosts, OwnedOnce
<1>8. ASSUME NEW b \in Bufs, NEW n \in Lens, ParseReply(b, n) PROVE OwnedOnce'
  <2>1. pc = "parse" /\ InHand = {job.buf} /\ InHand' = {}
    BY <1>8 DEF ParseReply, Parsed, InHand
  <2>2. Partial' = Partial /\ recvq' = recvq /\ leaked' = leaked
    BY <1>8 DEF ParseReply, ghosts, Partial
  <2>3. /\ b \notin heap /\ heap' = (heap \union {b}) \ {job.buf}
        /\ sendq' = Push(sendq, job.conn, b, n)
    BY <1>8 DEF ParseReply, Enqueue, Fresh
  <2>4. job.conn \in Conns
    BY <2>1 DEF Inv, ControlOK, Messages, Message
  <2>5. Blocks(sendq') = Blocks(sendq) \union {b} /\ Distinct(sendq')
    BY <1>0, <2>3, <2>4, PushBlocks DEF OwnedOnce
  <2>6. job.buf # b BY <1>0, <2>1, <2>3 DEF OwnedOnce
  <2> QED BY <1>0, <2>1, <2>2, <2>3, <2>5, <2>6 DEF OwnedOnce
<1>9. ASSUME ParseDirect PROVE OwnedOnce'
  <2>1. pc = "parse" /\ InHand = {job.buf} /\ InHand' = {}
    BY <1>9 DEF ParseDirect, Parsed, InHand
  <2>2. Partial' = Partial BY <1>9 DEF ParseDirect, Partial
  <2> QED BY <1>0, <1>9, <2>1, <2>2 DEF ParseDirect, ghosts, OwnedOnce
<1>10. ASSUME ParseClose PROVE OwnedOnce'
  <2>1. pc = "parse" /\ InHand = {job.buf} /\ InHand' = {}
    BY <1>10 DEF ParseClose, Parsed, InHand
  <2>2. Partial' = Partial BY <1>10 DEF ParseClose, Partial
  <2> QED BY <1>0, <1>10, <2>1, <2>2, ClearedBlocks DEF ParseClose, ghosts, OwnedOnce
<1>11. ASSUME TaskTx PROVE OwnedOnce'
  <2>1. /\ pc = "idle" /\ Partial' = Partial /\ recvq' = recvq
        /\ leaked' = leaked /\ heap' = heap
    BY <1>11 DEF TaskTx, Take, ghosts, Partial
  <2>2. InHand = {} BY <2>1 DEF InHand
  <2>3. CASE sending \/ Empty(sendq)
    <3>1. InHand' = {} /\ sendq' = sendq BY <1>11, <2>1, <2>3 DEF TaskTx, InHand
    <3> QED BY <1>0, <2>1, <2>2, <3>1 DEF OwnedOnce
  <2>4. CASE ~(sending \/ Empty(sendq))
    <3>1. InHand' = {First(sendq).buf} /\ sendq' = Unshift(sendq)
      BY <1>11, <2>4 DEF TaskTx, InHand
    <3>2. /\ First(sendq).buf \in Blocks(sendq) /\ Distinct(sendq')
          /\ Blocks(sendq') = Blocks(sendq) \ {First(sendq).buf}
      BY <1>0, <2>4, <3>1, UnshiftBlocks DEF OwnedOnce
    <3> QED BY <1>0, <2>1, <2>2, <3>1, <3>2 DEF OwnedOnce
  <2> QED BY <2>3, <2>4
<1>12. ASSUME SendWhole PROVE OwnedOnce'
  <2>1. InHand = {job.buf} /\ InHand' = {} /\ Partial = {} /\ Partial' = {}
    BY <1>0, <1>12 DEF SendWhole, InHand, Partial
  <2> QED BY <1>0, <1>12, <2>1 DEF SendWhole, ghosts, OwnedOnce
<1>13. ASSUME SendFirst PROVE OwnedOnce'
  <2>1. InHand = {job.buf} /\ InHand' = {} /\ Partial = {} /\ Partial' = {job.buf}
    BY <1>0, <1>13 DEF SendFirst, InHand, Partial, Chunk
  <2> QED BY <1>0, <1>13, <2>1 DEF SendFirst, ghosts, OwnedOnce
<1>14. ASSUME TaskTxDone PROVE OwnedOnce'
  <2>1. InHand = {} /\ InHand' = {} /\ Partial' = Partial
    BY <1>14 DEF TaskTxDone, Take, InHand, Partial
  <2> QED BY <1>0, <1>14, <2>1 DEF TaskTxDone, ghosts, OwnedOnce
<1>15. ASSUME SendMore PROVE OwnedOnce'
  <2>1. InHand = {} /\ InHand' = {} /\ Partial' = Partial
    BY <1>0, <1>15 DEF SendMore, InHand, Partial, Chunk
  <2> QED BY <1>0, <1>15, <2>1 DEF SendMore, ghosts, OwnedOnce
<1>16. ASSUME SendLast PROVE OwnedOnce'
  <2>1. InHand = {} /\ InHand' = {} /\ Partial = {cur.buf} /\ Partial' = {}
    BY <1>0, <1>16 DEF SendLast, InHand, Partial
  <2> QED BY <1>0, <1>16, <2>1 DEF SendLast, ghosts, OwnedOnce
<1>17. ASSUME TaskFragEnd PROVE OwnedOnce'
  BY <1>0, <1>17 DEF TaskFragEnd, ghosts, OwnedOnce, InHand, Partial
<1>18. ASSUME TaskRepost PROVE OwnedOnce'
  BY <1>0, <1>18 DEF TaskRepost, ghosts, OwnedOnce, InHand, Partial
<1>19. ASSUME ServerClose PROVE OwnedOnce'
  <2>1. InHand' = InHand /\ Partial' = Partial BY <1>19 DEF ServerClose, InHand, Partial
  <2> QED BY <1>0, <1>19, <2>1, ClearedBlocks DEF ServerClose, ghosts, OwnedOnce
<1>20. ASSUME ServerInit PROVE OwnedOnce'
  <2>1. InHand' = InHand /\ Partial' = Partial BY <1>20 DEF ServerInit, InHand, Partial
  <2> QED BY <1>0, <1>20, <2>1, ClearedBlocks DEF ServerInit, ghosts, OwnedOnce
<1>21. ASSUME UNCHANGED vars PROVE OwnedOnce'
  BY <1>0, <1>21 DEF vars, OwnedOnce, InHand, Partial
<1> QED BY <1>1, <1>2, <1>3, <1>4, <1>5, <1>6, <1>7, <1>8, <1>9, <1>10, <1>11, <1>12, <1>13, <1>14, <1>15, <1>16, <1>17, <1>18, <1>19, <1>20, <1>21
     DEF Next, Task, Parse, Callback, Interrupt

\* No block of server.c is freed twice, used after it was freed or forgotten,
\* apart from the copies tcpserver_recv_cb leaks.
THEOREM ServerOwnsBlocksOnce == Spec => []OwnedOnce
<1>1. Init => Inv BY InitControl, InitOwned DEF Inv
<1>2. Inv /\ [Next]_vars => Inv' BY NextControl, NextOwned DEF Inv
<1>3. Inv => OwnedOnce BY DEF Inv
<1> QED BY <1>1, <1>2, <1>3, PTL DEF Spec

-----------------------------------------------------------------------------
(* Wakeups.                                                                 *)

\* A post loses no event, and adds its own unless the queue is full.
LEMMA PostPending ==
  ASSUME TypeOK, NEW e \in Events, evq' = Post(evq, e)
  PROVE  /\ \A d \in Events : Pending(d) => Pending(d)'
         /\ ~Full(evq) => Pending(e)'
<1>1. CASE Full(evq) BY <1>1 DEF Post, Pending
<1>2. CASE ~Full(evq)
  <2>1. /\ Len(evq') = Len(evq) + 1 /\ Len(evq) \in Nat
        /\ \A i \in 1..Len(evq) : evq'[i] = evq[i]
        /\ evq'[Len(evq) + 1] = e
    BY <1>2, AppendSeq DEF Post, TypeOK
  <2>2. \A i \in 1..Len(evq) : i \in 1..Len(evq') BY <2>1
  <2>3. Len(evq) + 1 \in 1..Len(evq') BY <2>1
  <2> QED BY <2>1, <2>2, <2>3 DEF Pending
<1> QED BY <1>1, <1>2

\* Taking an event leaves the events of the other kinds.
LEMMA TakePending ==
  ASSUME TypeOK, NEW e \in Events, Take(e)
  PROVE  \A d \in Events : d # e /\ Pending(d) => Pending(d)'
<1>1. /\ Len(evq') = Len(evq) - 1 /\ Len(evq) \in Nat \ {0}
      /\ evq[1] = e
      /\ \A i \in 1..Len(evq') : evq'[i] = evq[i + 1]
  BY TailSeq DEF Take, TypeOK
<1> SUFFICES ASSUME NEW d \in Events, d # e, Pending(d) PROVE Pending(d)' OBVIOUS
<1>2. PICK i \in 1..Len(evq) : evq[i] = d BY DEF Pending
<1>3. i # 1 BY <1>1, <1>2
<1>4. i - 1 \in 1..Len(evq') /\ (i - 1) + 1 = i BY <1>1, <1>2, <1>3
<1>5. evq'[i - 1] = d BY <1>1, <1>2, <1>4
<1> QED BY <1>4, <1>5 DEF Pending

\* Once a chunk is with the stack, a sent callback is due, or the loss is known.
LEMMA SentAwaited ==
  ASSUME TypeOK, NEW chunk \in Fragments, Sent(chunk)
  PROVE  lost' \/ Awaited'
<1>1. chunk.conn \in Conns BY DEF Fragments
<1>2. CASE lost' = TRUE BY <1>2
<1>3. CASE unacked' = [unacked EXCEPT ![chunk.conn] = @ + 1]
  <2>1. unacked[chunk.conn] \in Nat BY <1>1, ServerAssumption DEF TypeOK
  <2>2. unacked'[chunk.conn] > 0 BY <1>1, <1>3, <2>1 DEF TypeOK
  <2> QED BY <1>1, <2>2 DEF Awaited
<1> QED BY <1>2, <1>3 DEF Sent

LEMMA NextWakeup == TypeOK /\ ControlOK /\ WakeupPending /\ [Next]_vars => WakeupPending'
<1> SUFFICES ASSUME TypeOK, ControlOK, WakeupPending, [Next]_vars, ~lost'
             PROVE  /\ sending' => pc' \in {"tx", "frag"} \/ Pending("TX_DONE")' \/ Awaited'
                    /\ ~sending' /\ sendq' # << >> =>
                         pc' = "repost" \/ Pending("TX")' \/ Pending("TX_DONE")' \/ Awaited'
  BY DEF WakeupPending
<1> DEFINE Goal ==
      /\ sending' => pc' \in {"tx", "frag"} \/ Pending("TX_DONE")' \/ Awaited'
      /\ ~sending' /\ sendq' # << >> =>
           pc' = "repost" \/ Pending("TX")' \/ Pending("TX_DONE")' \/ Awaited'
<1>0. "TX" \in Events /\ "TX_DONE" \in Events /\ "RX" \in Events BY DEF Events
<1>1. ASSUME NEW c \in Conns, ConnectCb(c) PROVE Goal
  BY <1>1 DEF ConnectCb, WakeupPending, Pending, Awaited
<1>2. ASSUME NEW c \in Conns, DisconnectCb(c) PROVE Goal
  <2>1. ~lost /\ ~(unacked[c] > 0) BY <1>2, Zenon DEF DisconnectCb
  <2>2. unacked[c] = 0 BY <2>1, ServerAssumption DEF TypeOK
  <2>3. unacked' = unacked BY <1>2, <2>2 DEF DisconnectCb, TypeOK
  <2> QED BY <1>2, <2>1, <2>3 DEF DisconnectCb, WakeupPending, Pending, Awaited
<1>3. ASSUME NEW c \in Conns, SentCb(c) PROVE Goal
  <2>1. ~lost /\ ~Full(evq) /\ evq' = Post(evq, "TX_DONE") BY <1>3 DEF SentCb
  <2> QED BY <1>0, <2>1, PostPending
<1>4. ASSUME NEW c \in Conns, NEW b \in Bufs, NEW n \in Lens, RecvCb(c, b, n) PROVE Goal
  <2>1. /\ ~lost /\ unacked' = unacked /\ sending' = sending /\ sendq' = sendq
        /\ pc' = pc /\ (evq' = evq \/ evq' = Post(evq, "RX"))
    BY <1>4 DEF RecvCb
  <2>2. \A d \in Events : Pending(d) => Pending(d)'
    BY <1>0, <2>1, PostPending DEF Pending
  <2> QED BY <1>0, <2>1, <2>2 DEF WakeupPending, Awaited
<1>5. ASSUME NEW c \in Conns, NEW b \in Bufs, NEW n \in Lens, PictureDone(c, b, n) PROVE Goal
  <2>1. /\ ~lost /\ ~Full(evq) /\ evq' = Post(evq, "TX") /\ unacked' = unacked
        /\ sending' = sending /\ pc' = pc
    BY <1>5 DEF PictureDone, Enqueue
  <2> QED BY <1>0, <2>1, PostPending DEF WakeupPending, Awaited
<1>6. ASSUME TaskRx PROVE Goal
  <2>1. /\ ~lost /\ Take("RX") /\ pc = "idle" /\ unacked' = unacked
        /\ sending' = sending /\ sendq' = sendq
    BY <1>6 DEF TaskRx, Take
  <2> QED BY <1>0, <2>1, TakePending DEF WakeupPending, Awaited
<1>7. ASSUME ParseQuiet PROVE Goal
  BY <1>7 DEF ParseQuiet, Parsed, WakeupPending, Pending, Awaited
<1>8. ASSUME NEW b \in Bufs, NEW n \in Lens, ParseReply(b, n) PROVE Goal
  <2>1. /\ ~lost /\ ~Full(evq) /\ evq' = Post(evq, "TX") /\ unacked' = unacked
        /\ sending' = sending /\ pc = "parse"
    BY <1>8 DEF ParseReply, Parsed, Enqueue
  <2> QED BY <1>0, <2>1, PostPending DEF WakeupPending, Awaited
<1>9. ASSUME ParseDirect PROVE Goal
  <2>1. job.conn \in Conns
    BY <1>9 DEF ParseDirect, Parsed, ControlOK, Messages, Message
  <2>2. unacked[job.conn] \in Nat /\ unacked'[job.conn] = unacked[job.conn] + 1
    BY <1>9, <2>1, ServerAssumption DEF ParseDirect, TypeOK
  <2> QED BY <2>1, <2>2 DEF Awaited
<1>10. ASSUME ParseClose PROVE Goal
  <2>1. sendq' = << >> BY <1>10 DEF ParseClose, Cleared
  <2> QED BY <1>10, <2>1 DEF ParseClose, Parsed, WakeupPending, Pending, Awaited
<1>11. ASSUME TaskTx PROVE Goal
  <2>1. /\ ~lost /\ Take("TX") /\ pc = "idle" /\ unacked' = unacked
    BY <1>11 DEF TaskTx, Take
  <2>2. CASE sending \/ Empty(sendq)
    <3>1. sending' = sending /\ sendq' = sendq BY <1>11, <2>2 DEF TaskTx
    <3> QED BY <1>0, <2>1, <2>2, <3>1, TakePending DEF WakeupPending, Awaited, Empty
  <2>3. CASE ~(sending \/ Empty(sendq))
    <3>1. sending' = TRUE /\ pc' = "tx" BY <1>11, <2>3 DEF TaskTx
    <3> QED BY <3>1
  <2> QED BY <2>2, <2>3
<1>12. ASSUME SendWhole PROVE Goal
  <2>1. job \in Messages BY <1>12 DEF SendWhole, ControlOK
  <2>2. Chunk(job, 0, job.len) \in Fragments BY <2>1, ChunkType, ServerAssumption
  <2> QED BY <1>12, <2>2, SentAwaited DEF SendWhole
<1>13. ASSUME SendFirst PROVE Goal
  <2>1. job \in Messages BY <1>13 DEF SendFirst, ControlOK
  <2>2. Chunk(job, 0, MTU) \in Fragments BY <2>1, ChunkType, ServerAssumption
  <2> QED BY <1>13, <2>2, SentAwaited DEF SendFirst
<1>14. ASSUME TaskTxDone PROVE Goal
  <2>1. CASE sending /\ more
    <3>1. sending' = sending /\ pc' = "frag" BY <1>14, <2>1 DEF TaskTxDone
    <3> QED BY <2>1, <3>1
  <2>2. CASE ~(sending /\ more)
    BY <1>14, <2>2 DEF TaskTxDone, Empty
  <2> QED BY <2>1, <2>2
<1>15. ASSUME SendMore PROVE Goal
  <2>1. cur \in Fragments /\ cur.off \in Nat BY <1>15 DEF SendMore, ControlOK, Fragments
  <2>2. Chunk(cur, cur.off, MTU) \in Fragments BY <2>1, ChunkType, ServerAssumption
  <2> QED BY <1>15, <2>2, SentAwaited DEF SendMore
<1>16. ASSUME SendLast PROVE Goal
  <2>1. cur \in Fragments /\ cur.off \in Nat BY <1>16 DEF SendLast, ControlOK, Fragments
  <2>2. Chunk(cur, cur.off, cur.len) \in Fragments BY <2>1, ChunkType, ServerAssumption
  <2> QED BY <1>16, <2>2, SentAwaited DEF SendLast
<1>17. ASSUME TaskFragEnd PROVE Goal
  BY <1>17 DEF TaskFragEnd, ControlOK, WakeupPending, Pending, Awaited
<1>18. ASSUME TaskRepost PROVE Goal
  <2>1. /\ ~lost /\ ~Full(evq) /\ evq' = Post(evq, "TX") /\ unacked' = unacked
        /\ sending' = sending /\ pc = "repost"
    BY <1>18 DEF TaskRepost
  <2> QED BY <1>0, <2>1, PostPending DEF WakeupPending, Awaited
<1>19. ASSUME ServerClose PROVE Goal
  BY <1>19 DEF ServerClose, Cleared, WakeupPending, Pending, Awaited
<1>20. ASSUME ServerInit PROVE Goal
  <2>1. sendq' = << >> /\ sending' = sending /\ pc' = pc /\ unacked' = unacked
    BY <1>20 DEF ServerInit, Cleared
  <2>2. CASE evq' = evq /\ lost' = lost
    BY <2>1, <2>2 DEF WakeupPending, Pending, Awaited
  <2>3. CASE lost' = (lost \/ Pending("TX_DONE"))
    BY <2>1, <2>3 DEF WakeupPending, Awaited
  <2> QED BY <1>20, <2>2, <2>3 DEF ServerInit, Pending
<1>21. ASSUME UNCHANGED vars PROVE Goal
  BY <1>21 DEF vars, WakeupPending, Pending, Awaited
<1> QED BY <1>1, <1>2, <1>3, <1>4, <1>5, <1>6, <1>7, <1>8, <1>9, <1>10, <1>11, <1>12, <1>13, <1>14, <1>15, <1>16, <1>17, <1>18, <1>19, <1>20, <1>21
     DEF Next, Task, Parse, Callback, Interrupt

\* For any clients, message sizes and event-queue length, the send path of
\* server.c never sleeps with work left unless an event, a sent callback or a
\* chunk was lost: a refused post, a refused espconn_sent, a connection that
\* died, or a registration that forgot the pending events.
THEOREM ServerKeepsWakeups == Spec => []WakeupPending
<1>1. Init => TypeOK /\ ControlOK /\ WakeupPending
  BY InitControl DEF Init, WakeupPending, Cleared
<1>2. TypeOK /\ ControlOK /\ WakeupPending /\ [Next]_vars
        => (TypeOK /\ ControlOK /\ WakeupPending)'
  BY NextControl, NextWakeup
<1> QED BY <1>1, <1>2, PTL DEF Spec

-----------------------------------------------------------------------------
(* The received messages and their events.                                  *)

\* The places of the RX events in the event queue.
RxPlaces(q) == {i \in 1..Len(q) : q[i] = "RX"}

\* An event queue holds finitely many of them.
LEMMA RxFinite ==
  ASSUME NEW q \in Seq(Events)
  PROVE  IsFiniteSet(RxPlaces(q)) /\ Cardinality(RxPlaces(q)) \in Nat
<1>1. Len(q) \in Nat OBVIOUS
<1>2. IsFiniteSet(1..Len(q)) BY <1>1, FS_Interval
<1>3. RxPlaces(q) \in SUBSET (1..Len(q)) BY DEF RxPlaces
<1> QED BY <1>2, <1>3, FS_Subset, FS_CardinalityType

\* Each event that is added or taken is counted once.
LEMMA RxAppend ==
  ASSUME NEW q \in Seq(Events), NEW e \in Events
  PROVE  Cardinality(RxPlaces(Append(q, e)))
           = Cardinality(RxPlaces(q)) + (IF e = "RX" THEN 1 ELSE 0)
<1>1. /\ Len(q) \in Nat /\ Len(Append(q, e)) = Len(q) + 1
      /\ \A i \in 1..Len(q) : Append(q, e)[i] = q[i]
      /\ Append(q, e)[Len(q) + 1] = e
  BY AppendSeq
<1>2. IsFiniteSet(RxPlaces(q)) /\ Cardinality(RxPlaces(q)) \in Nat BY RxFinite
<1>3. Len(q) + 1 \notin RxPlaces(q) BY <1>1 DEF RxPlaces
<1>4. CASE e = "RX"
  <2>1. RxPlaces(Append(q, e)) = RxPlaces(q) \cup {Len(q) + 1}
    BY <1>1, <1>4 DEF RxPlaces
  <2> QED BY <1>2, <1>3, <1>4, <2>1, FS_AddElement
<1>5. CASE e # "RX"
  <2>1. RxPlaces(Append(q, e)) = RxPlaces(q) BY <1>1, <1>5 DEF RxPlaces
  <2> QED BY <1>2, <1>5, <2>1
<1> QED BY <1>4, <1>5

LEMMA RxTail ==
  ASSUME NEW q \in Seq(Events), q # << >>
  PROVE  Cardinality(RxPlaces(q))
           = Cardinality(RxPlaces(Tail(q))) + (IF Head(q) = "RX" THEN 1 ELSE 0)
<1> DEFINE S == RxPlaces(q) \ {1}
           T == RxPlaces(Tail(q))
           f == [i \in T |-> i + 1]
<1>1. /\ Head(q) = q[1] /\ Tail(q) \in Seq(Events) /\ Len(Tail(q)) = Len(q) - 1
      /\ Len(q) \in Nat \ {0}
      /\ \A i \in 1..Len(Tail(q)) : Tail(q)[i] = q[i + 1]
  BY TailSeq
<1>2. IsFiniteSet(RxPlaces(q)) /\ Cardinality(RxPlaces(q)) \in Nat BY RxFinite
<1>3. IsFiniteSet(T) /\ Cardinality(T) \in Nat BY <1>1, RxFinite
<1>4. f \in Bijection(T, S)
  <2>1. f \in [T -> S] BY <1>1 DEF RxPlaces
  <2>2. ASSUME NEW i \in T, NEW j \in T, f[i] = f[j] PROVE i = j
    BY <1>1, <2>2 DEF RxPlaces
  <2>3. ASSUME NEW k \in S PROVE \E i \in T : f[i] = k
    <3>1. k - 1 \in T BY <1>1 DEF RxPlaces
    <3>2. f[k - 1] = k BY <1>1, <3>1 DEF RxPlaces
    <3> QED BY <3>1, <3>2
  <2> QED BY <2>1, <2>2, <2>3 DEF Bijection, Injection, Surjection, IsInjective
<1>5. Cardinality(S) = Cardinality(T)
  BY <1>3, <1>4, FS_Bijection DEF ExistsBijection
<1>6. Cardinality(S) = IF 1 \in RxPlaces(q) THEN Cardinality(RxPlaces(q)) - 1
                       ELSE Cardinality(RxPlaces(q))
  BY <1>2, FS_RemoveElement
<1>7. 1 \in RxPlaces(q) <=> Head(q) = "RX" BY <1>1 DEF RxPlaces
<1> HIDE DEF S, T
<1> QED BY <1>2, <1>3, <1>5, <1>6, <1>7 DEF T

\* A post adds one exactly when it is an RX and the queue has room.
LEMMA RxPost ==
  ASSUME NEW q \in Seq(Events), NEW e \in Events
  PROVE  Cardinality(RxPlaces(Post(q, e)))
           = Cardinality(RxPlaces(q)) + (IF ~Full(q) /\ e = "RX" THEN 1 ELSE 0)
<1>1. Cardinality(RxPlaces(q)) \in Nat BY RxFinite
<1>2. CASE Full(q) BY <1>1, <1>2 DEF Post
<1>3. CASE ~Full(q) BY <1>1, <1>3, RxAppend DEF Post
<1> QED BY <1>2, <1>3

\* RxAccounted, in terms of these places.
LEMMA RxCounted ==
  RxAccounted <=> (~lostRx => Len(recvq) <= Cardinality(RxPlaces(evq)))
BY DEF RxAccounted, RxPlaces

\* Each step that adds a message adds an RX, and each that takes an RX takes a message.
LEMMA NextRx == TypeOK /\ ControlOK /\ RxAccounted /\ [Next]_vars => RxAccounted'
<1> SUFFICES ASSUME TypeOK, ControlOK, RxAccounted, [Next]_vars, ~lostRx'
             PROVE  Len(recvq') <= Cardinality(RxPlaces(evq'))
  BY DEF RxAccounted, RxPlaces
<1> DEFINE n == Cardinality(RxPlaces(evq))
           nn == Cardinality(RxPlaces(evq'))
           Goal == Len(recvq') <= nn
<1>0. /\ recvq \in Seq(Messages) /\ Len(recvq) \in Nat /\ evq \in Seq(Events) /\ n \in Nat
      /\ "TX" \in Events /\ "TX_DONE" \in Events /\ "RX" \in Events
      /\ Len(recvq) <= n \/ lostRx
  BY RxFinite, RxCounted DEF TypeOK, Events
<1>a. ASSUME NEW e \in Events, Take(e) PROVE n = nn + (IF e = "RX" THEN 1 ELSE 0)
  BY <1>a, <1>0, RxTail DEF Take
<1>b. ASSUME NEW e \in {"TX", "TX_DONE"}, evq' = Post(evq, e) PROVE nn = n
  <2>1. e \in Events /\ e # "RX" BY DEF Events
  <2> QED BY <1>b, <2>1, <1>0, RxPost
<1>nn. nn \in Nat
  <2>1. TypeOK' BY NextControl
  <2> QED BY <2>1, RxFinite DEF TypeOK
<1>c. Len(Cleared) = 0 BY DEF Cleared
<1> HIDE DEF n, nn
<1>1. ASSUME lostRx' = lostRx, evq' = evq, recvq' = recvq PROVE Goal
  BY <1>1, <1>0 DEF n, nn
<1>2. ASSUME lostRx' = lostRx, nn = n, recvq' = recvq PROVE Goal
  BY <1>2, <1>0
<1>3. ASSUME recvq' = Cleared PROVE Goal
  BY <1>3, <1>c, <1>nn
<1>4. ASSUME NEW c \in Conns, NEW b \in Bufs, NEW k \in Lens, RecvCb(c, b, k) PROVE Goal
  <2>1. CASE evq' = evq /\ recvq' = recvq /\ lostRx' = lostRx BY <1>1, <2>1
  <2>2. CASE /\ recvq' = Push(recvq, c, b, k) /\ evq' = Post(evq, "RX")
             /\ lostRx' = (lostRx \/ Full(evq))
    <3>1. ~lostRx /\ ~Full(evq) BY <2>2
    <3>2. nn = n + 1 BY <1>0, <2>2, <3>1, RxPost DEF n, nn
    <3>3. Len(recvq') = Len(recvq) + 1
      BY <1>0, <2>2, AppendSeq DEF Push, Messages, Message
    <3> QED BY <1>0, <3>1, <3>2, <3>3
  <2> QED BY <1>4, <2>1, <2>2 DEF RecvCb
<1>5. ASSUME TaskRx PROVE Goal
  <2>1. n = nn + 1 /\ ~lostRx BY <1>0, <1>5, <1>a DEF TaskRx, ghosts
  <2>2. CASE Empty(recvq)
    <3>1. recvq' = << >> BY <1>5, <2>2 DEF TaskRx, Empty
    <3> QED BY <3>1, <1>3 DEF Cleared
  <2>3. CASE ~Empty(recvq)
    <3>1. recvq' = Tail(recvq) /\ recvq # << >> BY <1>5, <2>3 DEF TaskRx, Unshift, Empty
    <3>2. Len(recvq') = Len(recvq) - 1 BY <1>0, <3>1, TailSeq
    <3> QED BY <1>0, <1>nn, <2>1, <3>2
  <2> QED BY <2>2, <2>3
<1>6. ASSUME NEW c \in Conns, SentCb(c) PROVE Goal
  BY <1>b, <1>2, <1>6 DEF SentCb, ghosts
<1>7. ASSUME NEW c \in Conns, NEW b \in Bufs, NEW k \in Lens, PictureDone(c, b, k) PROVE Goal
  BY <1>b, <1>2, <1>7 DEF PictureDone, Enqueue, ghosts
<1>8. ASSUME NEW b \in Bufs, NEW k \in Lens, ParseReply(b, k) PROVE Goal
  BY <1>b, <1>2, <1>8 DEF ParseReply, Enqueue, ghosts
<1>9. ASSUME TaskRepost PROVE Goal
  BY <1>b, <1>2, <1>9 DEF TaskRepost, ghosts
<1>10. ASSUME TaskTx PROVE Goal
  BY <1>0, <1>a, <1>nn, <1>2, <1>10 DEF TaskTx, ghosts
<1>11. ASSUME TaskTxDone PROVE Goal
  BY <1>0, <1>a, <1>nn, <1>2, <1>11 DEF TaskTxDone, ghosts
<1>12. ASSUME ParseClose \/ ServerClose \/ ServerInit PROVE Goal
  BY <1>3, <1>12 DEF ParseClose, ServerClose, ServerInit
<1>13. ASSUME ParseQuiet \/ ParseDirect PROVE Goal
  BY <1>1, <1>13 DEF ParseQuiet, ParseDirect, ghosts
<1>14. ASSUME SendWhole \/ SendFirst \/ SendMore \/ SendLast \/ TaskFragEnd PROVE Goal
  BY <1>1, <1>14 DEF SendWhole, SendFirst, SendMore, SendLast, TaskFragEnd, ghosts
<1>15. ASSUME NEW c \in Conns, ConnectCb(c) \/ DisconnectCb(c) PROVE Goal
  BY <1>1, <1>15 DEF ConnectCb, DisconnectCb
<1>16. ASSUME UNCHANGED vars PROVE Goal
  BY <1>1, <1>16 DEF vars
<1>17. Goal
  BY <1>4, <1>5, <1>6, <1>7, <1>8, <1>9, <1>10, <1>11, <1>12, <1>13, <1>14, <1>15, <1>16
     DEF Next, Task, Parse, Callback, Interrupt
<1> QED BY <1>17 DEF nn

\* For any clients, messages and event-queue length, every message in recvq of server.c has
\* an RX event of its own, so long as no RX was refused: none is left behind until the
\* next client happens to send something.
THEOREM ServerAccountsRx == Spec => []RxAccounted
<1>1. Init => RxAccounted
  <2>1. Init => Len(recvq) = 0 /\ evq \in Seq(Events) BY EmptySeq DEF Init, Cleared
  <2> QED BY <2>1, RxFinite, RxCounted
<1> QED BY <1>1, NextRx, ServerTypeCorrect, PTL DEF Spec

-----------------------------------------------------------------------------
(* The refinement of TxChannel.                                             *)

\* A chunk put before others comes out first and leaves them.
LEMMA OneAndRest ==
  ASSUME NEW S, NEW x \in S, NEW q \in Seq(S)
  PROVE  /\ <<x>> \o q \in Seq(S)
         /\ <<x>> \o q # << >>
         /\ Head(<<x>> \o q) = x
         /\ Tail(<<x>> \o q) = q
  OBVIOUS

\* Nothing is put before or after a sequence.
LEMMA NoneAndRest ==
  ASSUME NEW S, NEW q \in Seq(S)
  PROVE  << >> \o q = q /\ q \o << >> = q
  OBVIOUS

\* What is appended to the second of two sequences is appended to both.
LEMMA ConcatAppend ==
  ASSUME NEW S, NEW p \in Seq(S), NEW q \in Seq(S), NEW x \in S
  PROVE  p \o Append(q, x) = Append(p \o q, x)
  OBVIOUS

\* Two sequences of the same length with the same elements are the same.
LEMMA SameSeq ==
  ASSUME NEW S, NEW p \in Seq(S), NEW q \in Seq(S), Len(p) = Len(q),
         \A i \in 1..Len(p) : p[i] = q[i]
  PROVE  p = q
  OBVIOUS

\* The elements of a sequence with one put before it.
LEMMA ConsSeq ==
  ASSUME NEW S, NEW x \in S, NEW q \in Seq(S)
  PROVE  /\ <<x>> \o q \in Seq(S)
         /\ Len(<<x>> \o q) = Len(q) + 1
         /\ (<<x>> \o q)[1] = x
         /\ \A i \in 1..Len(q) : (<<x>> \o q)[i + 1] = q[i]
<1>1. Len(<<x>>) = 1 /\ <<x>>[1] = x /\ <<x>> \in Seq(S) OBVIOUS
<1> QED BY <1>1

\* Each queued message is one chunk that is still to be sent.
LEMMA WaitingType ==
  ASSUME NEW q \in Seq(Messages)
  PROVE  /\ Waiting(q) \in Seq(Fragments)
         /\ Len(Waiting(q)) = Len(q)
         /\ \A i \in 1..Len(q) : Waiting(q)[i] = Chunk(q[i], 0, q[i].len)
         /\ Waiting(q) = << >> <=> q = << >>
<1>1. \A i \in 1..Len(q) : q[i] \in Messages OBVIOUS
<1>2. \A i \in 1..Len(q) : Chunk(q[i], 0, q[i].len) \in Fragments
  BY <1>1, ChunkType
<1>3. Len(q) \in Nat OBVIOUS
<1> QED BY <1>2, <1>3 DEF Waiting

\* A message pushed is one more chunk at the end,
LEMMA WaitingPush ==
  ASSUME NEW q \in Seq(Messages), NEW c \in Conns, NEW b \in Bufs, NEW n \in Lens
  PROVE  Waiting(Push(q, c, b, n))
           = Append(Waiting(q), [conn |-> c, buf |-> b, off |-> 0, len |-> n])
<1> DEFINE m == [conn |-> c, buf |-> b, len |-> n]
           w == [conn |-> c, buf |-> b, off |-> 0, len |-> n]
<1>1. m \in Messages /\ Chunk(m, 0, m.len) = w BY DEF Messages, Message, Chunk
<1>2. w \in Fragments BY <1>1, ChunkType, ServerAssumption
<1> HIDE DEF m, w
<1>3. Append(q, m) \in Seq(Messages) BY <1>1
<1>4. Waiting(Append(q, m)) = Append(Waiting(q), w)
  <2>1. /\ Len(Append(q, m)) = Len(q) + 1 /\ Len(q) \in Nat
        /\ \A i \in 1..Len(q) : Append(q, m)[i] = q[i]
        /\ Append(q, m)[Len(q) + 1] = m
    BY <1>1, AppendSeq
  <2>2. /\ Waiting(q) \in Seq(Fragments) /\ Len(Waiting(q)) = Len(q) BY WaitingType
  <2>3. /\ Append(Waiting(q), w) \in Seq(Fragments)
        /\ Len(Append(Waiting(q), w)) = Len(q) + 1
        /\ \A i \in 1..Len(q) : Append(Waiting(q), w)[i] = Waiting(q)[i]
        /\ Append(Waiting(q), w)[Len(q) + 1] = w
    BY <1>2, <2>2, AppendSeq
  <2>4. Waiting(Append(q, m)) \in Seq(Fragments)
        /\ Len(Waiting(Append(q, m))) = Len(q) + 1
    BY <1>3, <2>1, WaitingType
  <2>5. ASSUME NEW i \in 1..(Len(q) + 1)
        PROVE  Waiting(Append(q, m))[i] = Append(Waiting(q), w)[i]
    <3>1. Waiting(Append(q, m))[i] = Chunk(Append(q, m)[i], 0, Append(q, m)[i].len)
      BY <1>3, <2>1, WaitingType
    <3>2. CASE i \in 1..Len(q) BY <2>1, <2>3, <3>1, <3>2, WaitingType
    <3>3. CASE i = Len(q) + 1 BY <1>1, <2>1, <2>3, <3>1, <3>3
    <3>4. i \in 1..Len(q) \/ i = Len(q) + 1
      <4>1. Len(q) \in Nat BY <2>1
      <4> QED BY <4>1
    <3> QED BY <3>2, <3>3, <3>4
  <2> QED BY <2>3, <2>4, <2>5, SameSeq
<1> QED BY <1>4 DEF Push, m, w

\* and one taken was the first.
LEMMA WaitingUnshift ==
  ASSUME NEW q \in Seq(Messages), ~Empty(q)
  PROVE  Waiting(q) = <<Chunk(First(q), 0, First(q).len)>> \o Waiting(Unshift(q))
<1> DEFINE c == Chunk(First(q), 0, First(q).len)
<1>1. First(q) \in Messages /\ Unshift(q) \in Seq(Messages) BY UnshiftType
<1>2. c \in Fragments BY <1>1, ChunkType
<1>3. /\ Len(Tail(q)) = Len(q) - 1 /\ Len(q) \in Nat \ {0} /\ Head(q) = q[1]
      /\ \A i \in 1..Len(Tail(q)) : Tail(q)[i] = q[i + 1]
  BY TailSeq DEF Empty
<1>4. /\ Waiting(q) \in Seq(Fragments) /\ Len(Waiting(q)) = Len(q)
      /\ \A i \in 1..Len(q) : Waiting(q)[i] = Chunk(q[i], 0, q[i].len)
  BY WaitingType
<1>5. /\ Waiting(Tail(q)) \in Seq(Fragments) /\ Len(Waiting(Tail(q))) = Len(q) - 1
      /\ \A i \in 1..Len(Tail(q)) :
           Waiting(Tail(q))[i] = Chunk(q[i + 1], 0, q[i + 1].len)
  BY <1>1, <1>3, WaitingType DEF Unshift
<1>6. c = Waiting(q)[1] BY <1>3, <1>4 DEF First
<1> HIDE DEF c
<1>7. /\ <<c>> \o Waiting(Tail(q)) \in Seq(Fragments)
      /\ Len(<<c>> \o Waiting(Tail(q))) = Len(q)
      /\ (<<c>> \o Waiting(Tail(q)))[1] = c
      /\ \A i \in 1..Len(Tail(q)) : 
           (<<c>> \o Waiting(Tail(q)))[i + 1] = Waiting(Tail(q))[i]
  <2>1. /\ <<c>> \o Waiting(Tail(q)) \in Seq(Fragments)
        /\ Len(<<c>> \o Waiting(Tail(q))) = Len(Waiting(Tail(q))) + 1
        /\ (<<c>> \o Waiting(Tail(q)))[1] = c
        /\ \A i \in 1..Len(Waiting(Tail(q))) :
             (<<c>> \o Waiting(Tail(q)))[i + 1] = Waiting(Tail(q))[i]
    BY <1>2, <1>5, ConsSeq
  <2>2. Len(Tail(q)) = Len(q) - 1 /\ Len(q) \in Nat BY <1>3
  <2>3. Len(Waiting(Tail(q))) = Len(q) - 1 BY <1>5
  <2>4. Len(Waiting(Tail(q))) = Len(Tail(q)) /\ Len(Waiting(Tail(q))) + 1 = Len(q)
    BY <2>2, <2>3
  <2> QED BY <2>1, <2>4
<1>8. ASSUME NEW i \in 1..Len(q) PROVE Waiting(q)[i] = (<<c>> \o Waiting(Tail(q)))[i]
  <2>1. CASE i = 1 BY <1>6, <1>7, <2>1
  <2>2. CASE i # 1
    <3>1. i - 1 \in 1..Len(Tail(q)) /\ (i - 1) + 1 = i BY <1>3, <2>2
    <3> QED BY <1>4, <1>5, <1>7, <3>1
  <2> QED BY <2>1, <2>2
<1>9. Waiting(q) = <<c>> \o Waiting(Tail(q)) BY <1>4, <1>7, <1>8, SameSeq
<1> QED BY <1>9 DEF c, Unshift

\* At most one message is in hand or partly sent.
LEMMA LeftType ==
  ASSUME TypeOK, ControlOK
  PROVE  Left = << >> \/ \E x \in Fragments : Left = <<x>>
<1>1. CASE pc = "tx"
  <2>1. job \in Messages BY <1>1 DEF ControlOK
  <2>2. Chunk(job, 0, job.len) \in Fragments BY <2>1, ChunkType
  <2> QED BY <1>1, <2>2 DEF Left
<1>2. CASE pc # "tx" /\ more
  <2>1. cur \in Fragments BY <1>2 DEF ControlOK
  <2> QED BY <1>2, <2>1 DEF Left
<1>3. CASE pc # "tx" /\ ~more BY <1>3 DEF Left
<1> QED BY <1>1, <1>2, <1>3

\* The steps of the abstract channel that the steps of server.c are: none,
LEMMA TxQuiet ==
  ASSUME Left' = Left, sendq' = sendq, out' = None
  PROVE  Tx!Next
<1>1. Outstanding' = Outstanding BY DEF Outstanding, Waiting
<1> QED BY <1>1 DEF Tx!Next, Tx!Quiet

\* a message pushed to sendq,
LEMMA TxAccept ==
  ASSUME TypeOK, ControlOK, Left' = Left, out' = None,
         NEW c \in Conns, NEW b \in Bufs, NEW n \in Lens, sendq' = Push(sendq, c, b, n)
  PROVE  Tx!Next
<1> DEFINE w == [conn |-> c, buf |-> b, off |-> 0, len |-> n]
<1>1. w \in Tx!Whole BY DEF Tx!Whole
<1>2. w \in Fragments BY ServerAssumption DEF Fragments
<1>3. sendq \in Seq(Messages) BY DEF TypeOK
<1>4. Waiting(sendq') = Append(Waiting(sendq), w) BY <1>3, WaitingPush
<1>5. Waiting(sendq) \in Seq(Fragments) BY <1>3, WaitingType
<1>6. Left \in Seq(Fragments)
  <2>1. ASSUME NEW x \in Fragments, Left = <<x>> PROVE Left \in Seq(Fragments)
    BY <2>1
  <2>2. << >> \in Seq(Fragments) OBVIOUS
  <2> QED BY <2>1, <2>2, LeftType
<1> HIDE DEF w
<1>7. Left \o Append(Waiting(sendq), w) = Append(Left \o Waiting(sendq), w)
  BY <1>2, <1>5, <1>6, ConcatAppend
<1>8. Outstanding' = Left' \o Waiting(sendq') BY DEF Outstanding, Waiting
<1>9. Outstanding' = Append(Outstanding, w) BY <1>4, <1>7, <1>8 DEF Outstanding
<1> QED BY <1>1, <1>9 DEF Tx!Next, Tx!Accept

\* sendq cleared,
LEMMA TxDrop ==
  ASSUME TypeOK, ControlOK, Left' = Left, out' = None, sendq' = << >>
  PROVE  Tx!Next
<1>1. sendq \in Seq(Messages) BY DEF TypeOK
<1>2. Waiting(sendq) \in Seq(Fragments) BY <1>1, WaitingType
<1>3. Waiting(sendq') = << >>
  <2>1. 1..Len(<< >>) = {} OBVIOUS
  <2> QED BY <2>1 DEF Waiting
<1>4. Outstanding' = Left \o << >> BY <1>3 DEF Outstanding, Waiting
<1>5. CASE \E x \in Fragments : Left = <<x>>
  <2>1. PICK x \in Fragments : Left = <<x>> BY <1>5
  <2>2. Outstanding' = <<x>> BY <1>4, <2>1, NoneAndRest
  <2>3. Outstanding # << >> /\ Head(Outstanding) = x
    BY <1>2, <2>1, OneAndRest DEF Outstanding
  <2> QED BY <2>2, <2>3 DEF Tx!Next, Tx!Drop
<1>6. CASE Left = << >> /\ sendq = << >>
  BY <1>6, TxQuiet
<1>7. CASE Left = << >> /\ sendq # << >>
  <2>1. First(sendq) \in Messages /\ Unshift(sendq) \in Seq(Messages)
    BY <1>1, <1>7, UnshiftType DEF Empty
  <2>2. Chunk(First(sendq), 0, First(sendq).len) \in Fragments BY <2>1, ChunkType
  <2>3. Waiting(Unshift(sendq)) \in Seq(Fragments) BY <2>1, WaitingType
  <2>4. Outstanding = Waiting(sendq) BY <1>2, <1>7, NoneAndRest DEF Outstanding
  <2>5. Outstanding # << >> /\ Head(Outstanding) = Chunk(First(sendq), 0, First(sendq).len)
    <3>1. Waiting(sendq) = <<Chunk(First(sendq), 0, First(sendq).len)>>
                             \o Waiting(Unshift(sendq))
      BY <1>1, <1>7, WaitingUnshift DEF Empty
    <3> QED BY <2>2, <2>3, <2>4, <3>1, OneAndRest
  <2>6. Head(Outstanding).off = 0 BY <2>5 DEF Chunk
  <2>7. Outstanding' = << >> BY <1>4, <1>7, NoneAndRest
  <2> QED BY <2>5, <2>6, <2>7 DEF Tx!Next, Tx!Drop
<1> QED BY <1>5, <1>6, <1>7, LeftType

\* the last packet of the oldest message,
LEMMA TxEmitLast ==
  ASSUME TypeOK, NEW x \in Fragments, Left = <<x>>, x.len <= MTU,
         Left' = << >>, sendq' = sendq, out' = x
  PROVE  Tx!Next
<1>1. Waiting(sendq) \in Seq(Fragments) BY WaitingType DEF TypeOK
<1>2. Outstanding = <<x>> \o Waiting(sendq) BY DEF Outstanding
<1>3. Outstanding' = << >> \o Waiting(sendq) BY DEF Outstanding, Waiting
<1>4. /\ Outstanding # << >> /\ Head(Outstanding) = x
      /\ Tail(Outstanding) = Waiting(sendq)
  BY <1>1, <1>2, OneAndRest
<1>5. ~(x.len > MTU)
  BY ServerAssumption DEF Fragments
<1>6. [x EXCEPT !.len = x.len] = x BY DEF Fragments
<1>7. Tx!Emit BY <1>3, <1>4, <1>5, <1>6 DEF Tx!Emit
<1> QED BY <1>7 DEF Tx!Next

\* and a packet of it with more to follow.
LEMMA TxEmitMore ==
  ASSUME TypeOK, NEW x \in Fragments, Left = <<x>>, x.len > MTU,
         Left' = <<Chunk(x, x.off + MTU, x.len - MTU)>>, sendq' = sendq,
         out' = Chunk(x, x.off, MTU)
  PROVE  Tx!Next
<1>1. Waiting(sendq) \in Seq(Fragments) BY WaitingType DEF TypeOK
<1>2. Outstanding = <<x>> \o Waiting(sendq) BY DEF Outstanding
<1>3. Outstanding' = <<Chunk(x, x.off + MTU, x.len - MTU)>> \o Waiting(sendq)
  BY DEF Outstanding, Waiting
<1>4. /\ Outstanding # << >> /\ Head(Outstanding) = x
      /\ Tail(Outstanding) = Waiting(sendq)
  BY <1>1, <1>2, OneAndRest
<1>5. x.len # MTU
  BY ServerAssumption DEF Fragments
<1>6. [x EXCEPT !.len = MTU] = Chunk(x, x.off, MTU) BY DEF Fragments, Chunk
<1>7. [x EXCEPT !.off = @ + MTU, !.len = @ - MTU] = Chunk(x, x.off + MTU, x.len - MTU)
  <2> DEFINE y == [x EXCEPT !.off = @ + MTU, !.len = @ - MTU]
  <2>1. x.off + MTU \in Nat /\ x.len - MTU \in Nat
    BY ServerAssumption DEF Fragments
  <2>2. y \in Fragments BY <2>1 DEF Fragments
  <2>3. /\ y.conn = x.conn /\ y.buf = x.buf
        /\ y.off = x.off + MTU /\ y.len = x.len - MTU
    BY DEF Fragments
  <2> HIDE DEF y
  <2>4. y = [conn |-> y.conn, buf |-> y.buf, off |-> y.off, len |-> y.len]
    BY <2>2 DEF Fragments
  <2>5. y = Chunk(x, x.off + MTU, x.len - MTU) BY <2>3, <2>4 DEF Chunk
  <2> QED BY <2>5 DEF y
<1>8. Tx!Emit BY <1>3, <1>4, <1>5, <1>6, <1>7 DEF Tx!Emit
<1> QED BY <1>8 DEF Tx!Next

\* Every step of the server is one of these or changes nothing of them.
LEMMA NextTx == TypeOK /\ ControlOK /\ [Next]_vars => [Tx!Next]_<<Outstanding, out>>
<1> SUFFICES ASSUME TypeOK, ControlOK, [Next]_vars PROVE [Tx!Next]_<<Outstanding, out>>
  OBVIOUS
<1>0. /\ pc = "tx" => ~more
      /\ more => sending /\ cur \in Fragments
      /\ pc = "frag" => more
      /\ pc = "fragEnd" => ~more
      /\ pc \in {"parse", "tx"} => job \in Messages
  BY DEF ControlOK
<1>1. ASSUME NEW c \in Conns, ConnectCb(c) PROVE Tx!Next
  BY <1>1, TxQuiet DEF ConnectCb, Left
<1>2. ASSUME NEW c \in Conns, DisconnectCb(c) PROVE Tx!Next
  BY <1>2, TxQuiet DEF DisconnectCb, Left
<1>3. ASSUME NEW c \in Conns, SentCb(c) PROVE Tx!Next
  BY <1>3, TxQuiet DEF SentCb, Left
<1>4. ASSUME NEW c \in Conns, NEW b \in Bufs, NEW n \in Lens, RecvCb(c, b, n) PROVE Tx!Next
  BY <1>4, TxQuiet DEF RecvCb, Left
<1>5. ASSUME NEW c \in Conns, NEW b \in Bufs, NEW n \in Lens, PictureDone(c, b, n) PROVE Tx!Next
  <2>1. Left' = Left BY <1>5 DEF PictureDone, Left
  <2> QED BY <1>5, <2>1, TxAccept DEF PictureDone, Enqueue
<1>6. ASSUME TaskRx PROVE Tx!Next
  BY <1>6, TxQuiet DEF TaskRx, Take, Left
<1>7. ASSUME ParseQuiet PROVE Tx!Next
  BY <1>7, TxQuiet DEF ParseQuiet, Parsed, Left
<1>8. ASSUME NEW b \in Bufs, NEW n \in Lens, ParseReply(b, n) PROVE Tx!Next
  <2>1. Left' = Left BY <1>8 DEF ParseReply, Parsed, Left
  <2>2. job.conn \in Conns BY <1>0, <1>8 DEF ParseReply, Parsed, Messages, Message
  <2> QED BY <1>8, <2>1, <2>2, TxAccept DEF ParseReply, Parsed, Enqueue
<1>9. ASSUME ParseDirect PROVE Tx!Next
  BY <1>9, TxQuiet DEF ParseDirect, Parsed, Left
<1>10. ASSUME ParseClose PROVE Tx!Next
  <2>1. Left' = Left BY <1>10 DEF ParseClose, Parsed, Left
  <2> QED BY <1>10, <2>1, TxDrop DEF ParseClose, Parsed, Cleared
<1>11. ASSUME TaskTx PROVE Tx!Next
  <2>1. CASE sending \/ Empty(sendq)
    BY <1>11, <2>1, TxQuiet DEF TaskTx, Take, Left
  <2>2. CASE ~(sending \/ Empty(sendq))
    <3> DEFINE x == Chunk(First(sendq), 0, First(sendq).len)
    <3>1. /\ pc = "idle" /\ pc' = "tx" /\ job' = First(sendq)
          /\ sendq' = Unshift(sendq) /\ more' = more /\ out' = None
      BY <1>11, <2>2 DEF TaskTx, Take
    <3>2. sendq \in Seq(Messages) BY DEF TypeOK
    <3>3. ~more BY <1>0, <2>2
    <3>4. Left = << >> BY <3>1, <3>3 DEF Left
    <3>5. Left' = <<x>> BY <3>1 DEF Left, Chunk
    <3>6. Waiting(sendq) = <<x>> \o Waiting(Unshift(sendq))
      BY <2>2, <3>2, WaitingUnshift
    <3>7. Outstanding' = <<x>> \o Waiting(Unshift(sendq))
      BY <3>1, <3>5 DEF Outstanding, Waiting
    <3>8. Outstanding = Waiting(sendq)
      BY <3>2, <3>4, WaitingType, NoneAndRest DEF Outstanding
    <3> QED BY <3>1, <3>6, <3>7, <3>8 DEF Tx!Next, Tx!Quiet
  <2> QED BY <2>1, <2>2
<1>12. ASSUME SendWhole PROVE Tx!Next
  <2> DEFINE x == Chunk(job, 0, job.len)
  <2>1. x \in Fragments /\ x.len = job.len
    BY <1>0, <1>12, ChunkType, ServerAssumption DEF SendWhole, Chunk
  <2>2. Left = <<x>> /\ Left' = << >> BY <1>12 DEF SendWhole, Left
  <2>3. sendq' = sendq /\ out' = x /\ x.len <= MTU BY <1>12, <2>1 DEF SendWhole, Sent
  <2> HIDE DEF x
  <2> QED BY <2>1, <2>2, <2>3, TxEmitLast
<1>13. ASSUME SendFirst PROVE Tx!Next
  <2> DEFINE x == Chunk(job, 0, job.len)
  <2>1. x \in Fragments BY <1>0, <1>13, ChunkType, ServerAssumption DEF SendFirst
  <2>2. x.len = job.len /\ x.off = 0 BY DEF Chunk
  <2>3. /\ Chunk(x, x.off, MTU) = Chunk(job, 0, MTU)
        /\ Chunk(x, x.off + MTU, x.len - MTU) = Chunk(job, MTU, job.len - MTU)
    BY ServerAssumption DEF Chunk
  <2>4. Left = <<x>> /\ Left' = <<Chunk(job, MTU, job.len - MTU)>>
    BY <1>13 DEF SendFirst, Left
  <2>5. sendq' = sendq /\ out' = Chunk(job, 0, MTU) /\ x.len > MTU
    BY <1>13, <2>2 DEF SendFirst, Sent
  <2> HIDE DEF x
  <2> QED BY <2>1, <2>3, <2>4, <2>5, TxEmitMore
<1>14. ASSUME TaskTxDone PROVE Tx!Next
  BY <1>14, TxQuiet DEF TaskTxDone, Take, Left
<1>15. ASSUME SendMore PROVE Tx!Next
  <2>1. /\ pc = "frag" /\ pc' = "idle" /\ more' = more /\ more /\ sendq' = sendq
        /\ cur.len > MTU /\ cur' = Chunk(cur, cur.off + MTU, cur.len - MTU)
        /\ out' = Chunk(cur, cur.off, MTU)
    BY <1>0, <1>15 DEF SendMore, Sent
  <2>2. Left = <<cur>> /\ Left' = <<Chunk(cur, cur.off + MTU, cur.len - MTU)>>
    BY <2>1 DEF Left
  <2> QED BY <1>0, <2>1, <2>2, TxEmitMore
<1>16. ASSUME SendLast PROVE Tx!Next
  <2>1. /\ pc = "frag" /\ pc' = "fragEnd" /\ ~more' /\ more /\ sendq' = sendq
        /\ cur.len <= MTU /\ out' = Chunk(cur, cur.off, cur.len)
    BY <1>0, <1>16 DEF SendLast, Sent
  <2>2. Left = <<cur>> /\ Left' = << >> BY <2>1 DEF Left
  <2>3. Chunk(cur, cur.off, cur.len) = cur BY <1>0, <2>1 DEF Chunk, Fragments
  <2> QED BY <1>0, <2>1, <2>2, <2>3, TxEmitLast
<1>17. ASSUME TaskFragEnd PROVE Tx!Next
  BY <1>17, TxQuiet DEF TaskFragEnd, Left
<1>18. ASSUME TaskRepost PROVE Tx!Next
  BY <1>18, TxQuiet DEF TaskRepost, Left
<1>19. ASSUME ServerClose PROVE Tx!Next
  <2>1. Left' = Left BY <1>19 DEF ServerClose, Left
  <2> QED BY <1>19, <2>1, TxDrop DEF ServerClose, Cleared
<1>20. ASSUME ServerInit PROVE Tx!Next
  <2>1. Left' = Left BY <1>20 DEF ServerInit, Left
  <2> QED BY <1>20, <2>1, TxDrop DEF ServerInit, Cleared
<1>21. ASSUME UNCHANGED vars PROVE UNCHANGED <<Outstanding, out>>
  BY <1>21 DEF vars, Outstanding, Left, Waiting
<1> QED BY <1>1, <1>2, <1>3, <1>4, <1>5, <1>6, <1>7, <1>8, <1>9, <1>10, <1>11, <1>12, <1>13, <1>14, <1>15, <1>16, <1>17, <1>18, <1>19, <1>20, <1>21
     DEF Next, Task, Parse, Callback, Interrupt

\* For any connections, messages and packet size, the send path of server.c implements the
\* channel of TxChannel: whatever events are lost and whenever the server closes, packets
\* leave in the order of their messages and no message is interleaved with another.
THEOREM ServerSendsInOrder == Spec => SendsInOrder
<1>1. Init => Tx!Init
  <2>1. Init => Left = << >> /\ Waiting(sendq) = << >>
    <3>1. 1..Len(<< >>) = {} OBVIOUS
    <3> QED BY <3>1 DEF Init, Left, Waiting, Cleared
  <2>2. << >> \o << >> = << >> OBVIOUS
  <2> QED BY <2>1, <2>2 DEF Init, Tx!Init, Outstanding
<1> QED BY <1>1, NextTx, ServerTypeCorrect, PTL DEF Spec, SendsInOrder, Tx!Spec

=============================================================================
