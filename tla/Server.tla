------------------------------- MODULE Server -------------------------------
(***************************************************************************)
(* The TCP server of user/server.c.  Four contexts share its state:        *)
(*                                                                         *)
(*  - server_task, a task of the SDK that takes one event at a time from a  *)
(*    bounded event queue (evq) and is preempted by all the others;         *)
(*  - the callbacks of the TCP stack: a client connects, disconnects, sends *)
(*    data; a chunk handed to espconn_sent has been delivered;              *)
(*  - the GPIO interrupt, which completes a picture of the camera and       *)
(*    queues it with tcpserver_send;                                        *)
(*  - the Wi-Fi event handler and timers, which open and close the server.  *)
(*                                                                         *)
(* An action of a callback or of the interrupt is a whole handler: nothing  *)
(* server_task does can fall inside it.  server_task itself is split at the *)
(* places where it unlocks interrupts and goes on, and pc says where it is. *)
(***************************************************************************)
EXTENDS MessageQueue, FiniteSets

CONSTANTS Conns,       \* connections (struct espconn pointers)
          Bufs,        \* heap blocks
          Lens,        \* lengths a message may have
          MTU,         \* TCP_MAX_PACKET_SIZE
          QLen,        \* SERVER_TASK_QUEUE_LEN
          MaxUnacked,  \* chunks the TCP stack takes per connection
          DirectReplies, \* TRUE when the device type replies by espconn_sent
          None         \* no message, no fragment, no chunk

Messages  == Message(Conns, Bufs, Lens)
Fragments == [conn : Conns, buf : Bufs, off : Nat, len : Nat]

ASSUME ServerAssumption ==
  /\ MTU \in Nat \ {0}
  /\ Lens \subseteq Nat \ {0}
  /\ QLen \in Nat \ {0}
  /\ MaxUnacked \in Nat \ {0}
  /\ DirectReplies \in BOOLEAN
  /\ None \notin Messages \union Fragments

VARIABLES
  recvq, sendq,  \* the two message queues
  evq,           \* pending events of server_task
  sending,       \* the statics of server_task: a message is with the stack,
  more,          \*   more_fragments,
  cur,           \*   sending_conn, first_sending_chunk, the offset of
                 \*   current_sending_chunk, sending_len
  pc,            \* where server_task is
  job,           \* the message it has taken out of a queue
  heap,          \* allocated blocks
  listening,     \* espconn_accept has succeeded
  open,          \* connections that are up
  unacked,       \* sent callbacks the stack still owes, by connection
  out,           \* the chunk this step handed to espconn_sent, or None
  leaked,        \* blocks nothing refers to any more
  lost,          \* a wakeup of the send path has been lost
  lostRx         \* a wakeup of the receive path has been lost

net    == <<listening, open>>
ghosts == <<leaked, lostRx>>
vars   == <<recvq, sendq, evq, sending, more, cur, pc, job, heap, listening,
            open, unacked, out, leaked, lost, lostRx>>

Events    == {"RX", "TX", "TX_DONE"}
Places    == {"idle", "parse", "tx", "frag", "fragEnd", "repost"}

Init ==
  /\ recvq = Cleared /\ sendq = Cleared /\ evq = << >>
  /\ sending = FALSE /\ more = FALSE /\ cur = None
  /\ pc = "idle" /\ job = None
  /\ heap = {} /\ leaked = {}
  /\ listening = FALSE /\ open = {} /\ unacked = [c \in Conns |-> 0]
  /\ out = None /\ lost = FALSE /\ lostRx = FALSE

-----------------------------------------------------------------------------
(* The SDK, as this code uses it. *)

\* (A bug) The bound is ignored.
PostAnyway(q, e) == Append(q, e)

\* system_os_post: a full queue refuses the event; no caller looks at the result.
Full(q) == Len(q) >= QLen
Post(q, e) == IF Full(q) THEN q ELSE Append(q, e)

\* os_zalloc: some free block.  The failures are disjuncts of the callers.
Fresh == Bufs \ heap

\* espconn_sent, as server_task calls it: the stack takes the chunk and owes a
\* sent callback, or refuses it; a refusal is only printed.
Sent(chunk) ==
  /\ out' = chunk
  /\ \/ /\ chunk.conn \in open
        /\ unacked[chunk.conn] < MaxUnacked
        /\ unacked' = [unacked EXCEPT ![chunk.conn] = @ + 1]
        /\ lost' = lost
     \/ /\ unacked' = unacked
        /\ lost' = TRUE

-----------------------------------------------------------------------------
(* Callbacks of the TCP stack. *)

ConnectCb(c) ==
  /\ listening
  /\ c \notin open
  /\ open' = open \union {c}
  /\ out' = None
  /\ UNCHANGED <<recvq, sendq, evq, sending, more, cur, pc, job, heap,
                 listening, unacked, leaked, lost, lostRx>>

\* tcpserver_disconnect_cb and tcpserver_reconnect_cb only print: the sent
\* callbacks the connection still owed never come.
DisconnectCb(c) ==
  /\ c \in open
  /\ open' = open \ {c}
  /\ unacked' = [unacked EXCEPT ![c] = 0]
  /\ lost' = (lost \/ unacked[c] > 0)
  /\ out' = None
  /\ UNCHANGED <<recvq, sendq, evq, sending, more, cur, pc, job, heap,
                 listening, leaked, lostRx>>

\* (A bug) RX is posted only when the queue was empty.
RecvCbPostsOnce(c, b, n) ==
  /\ c \in open /\ b \in Fresh
  /\ heap' = heap \union {b}
  /\ recvq' = Push(recvq, c, b, n)
  /\ evq' = IF Empty(recvq) THEN Post(evq, "RX") ELSE evq
  /\ lostRx' = (lostRx \/ (Empty(recvq) /\ Full(evq)))
  /\ out' = None
  /\ UNCHANGED <<sendq, sending, more, cur, pc, job, listening, open, unacked, leaked,
                 lost>>

\* tcpserver_recv_cb: copy the data, queue it, wake server_task.  A failed
\* push returns without freeing the copy; a failed allocation changes nothing.
RecvCb(c, b, n) ==
  /\ c \in open
  /\ b \in Fresh
  /\ heap' = heap \union {b}
  /\ \/ /\ recvq' = Push(recvq, c, b, n)
        /\ evq' = Post(evq, "RX")
        /\ lostRx' = (lostRx \/ Full(evq))
        /\ leaked' = leaked
     \/ /\ leaked' = leaked \union {b}
        /\ UNCHANGED <<recvq, evq, lostRx>>
  /\ out' = None
  /\ UNCHANGED <<sendq, sending, more, cur, pc, job, listening, open, unacked, lost>>

\* tcpserver_sent_cb
SentCb(c) ==
  /\ unacked[c] > 0
  /\ unacked' = [unacked EXCEPT ![c] = @ - 1]
  /\ evq' = Post(evq, "TX_DONE")
  /\ lost' = (lost \/ Full(evq))
  /\ out' = None
  /\ UNCHANGED <<recvq, sendq, sending, more, cur, pc, job, heap, net, ghosts>>

-----------------------------------------------------------------------------
(* Producers of outgoing messages. *)

\* tcpserver_send of a freshly allocated block, when push succeeds.  When it
\* fails the caller frees the block, and nothing has changed.
Enqueue(c, b, n) ==
  /\ b \in Fresh
  /\ sendq' = Push(sendq, c, b, n)
  /\ evq' = Post(evq, "TX")
  /\ lost' = (lost \/ Full(evq))

\* The GPIO interrupt completes a picture for the connection that asked for it,
\* which may be gone.
PictureDone(c, b, n) ==
  /\ listening
  /\ Enqueue(c, b, n)
  /\ heap' = heap \union {b}
  /\ out' = None
  /\ UNCHANGED <<recvq, sending, more, cur, pc, job, net, unacked, ghosts>>

-----------------------------------------------------------------------------
(* server_task: one action per stretch between two places it can be preempted. *)

\* The event server_task takes next.
Take(e) ==
  /\ pc = "idle"
  /\ evq # << >>
  /\ Head(evq) = e
  /\ evq' = Tail(evq)

TaskRx ==
  /\ Take("RX")
  /\ IF Empty(recvq)
     THEN UNCHANGED <<recvq, job, pc>>
     ELSE /\ job' = First(recvq)
          /\ recvq' = Unshift(recvq)
          /\ pc' = "parse"
  /\ out' = None
  /\ UNCHANGED <<sendq, sending, more, cur, heap, net, unacked, lost, ghosts>>

\* tcpparser_process_data has returned: the received data is freed.
Parsed ==
  /\ pc = "parse"
  /\ pc' = "idle"
  /\ job' = None
  /\ out' = None

\* A command without a reply, or whose reply could not be queued.
ParseQuiet ==
  /\ Parsed
  /\ heap' = heap \ {job.buf}
  /\ UNCHANGED <<recvq, sendq, evq, sending, more, cur, net, unacked, lost, ghosts>>

\* A command answered with send_reply.
ParseReply(b, n) ==
  /\ Parsed
  /\ Enqueue(job.conn, b, n)
  /\ heap' = (heap \union {b}) \ {job.buf}
  /\ UNCHANGED <<recvq, sending, more, cur, net, unacked, ghosts>>

\* Temperature Get and Lighting Get answer with espconn_sent, past the queue.
ParseDirect ==
  /\ DirectReplies
  /\ Parsed
  /\ job.conn \in open
  /\ unacked[job.conn] < MaxUnacked
  /\ unacked' = [unacked EXCEPT ![job.conn] = @ + 1]
  /\ heap' = heap \ {job.buf}
  /\ UNCHANGED <<recvq, sendq, evq, sending, more, cur, net, lost, ghosts>>

\* Connect and Run AP close the server: both queues are cleared.
ParseClose ==
  /\ Parsed
  /\ heap' = heap \ (Blocks(sendq) \union Blocks(recvq) \union {job.buf})
  /\ sendq' = Cleared /\ recvq' = Cleared
  /\ UNCHANGED <<evq, sending, more, cur, net, unacked, lost, ghosts>>

TaskTx ==
  /\ Take("TX")
  /\ IF sending \/ Empty(sendq)
     THEN UNCHANGED <<sendq, job, pc, sending>>
     ELSE /\ job' = First(sendq)
          /\ sendq' = Unshift(sendq)
          /\ sending' = TRUE
          /\ pc' = "tx"
  /\ out' = None
  /\ UNCHANGED <<recvq, more, cur, heap, net, unacked, lost, ghosts>>

Chunk(m, off, n) == [conn |-> m.conn, buf |-> m.buf, off |-> off, len |-> n]

\* The message taken by TaskTx fits in one packet: send it and free it.
SendWhole ==
  /\ pc = "tx" /\ job.len <= MTU
  /\ more' = FALSE
  /\ Sent(Chunk(job, 0, job.len))
  /\ heap' = heap \ {job.buf}
  /\ job' = None /\ pc' = "idle"
  /\ UNCHANGED <<recvq, sendq, evq, sending, cur, net, ghosts>>

\* (A bug) The block is freed with its first packet.
SendFirstFrees ==
  /\ pc = "tx" /\ job.len > MTU
  /\ more' = TRUE
  /\ Sent(Chunk(job, 0, MTU))
  /\ cur' = Chunk(job, MTU, job.len - MTU)
  /\ heap' = heap \ {job.buf}
  /\ job' = None /\ pc' = "idle"
  /\ UNCHANGED <<recvq, sendq, evq, sending, net, ghosts>>

\* It does not fit: send the first packet, remember the rest.
SendFirst ==
  /\ pc = "tx" /\ job.len > MTU
  /\ more' = TRUE
  /\ Sent(Chunk(job, 0, MTU))
  /\ cur' = Chunk(job, MTU, job.len - MTU)
  /\ job' = None /\ pc' = "idle"
  /\ UNCHANGED <<recvq, sendq, evq, sending, heap, net, ghosts>>

\* (A bug) TX_DONE does not look for another message.
TaskTxDoneStops ==
  /\ Take("TX_DONE")
  /\ IF sending /\ more
     THEN pc' = "frag" /\ sending' = sending
     ELSE pc' = "idle" /\ sending' = FALSE
  /\ out' = None
  /\ UNCHANGED <<recvq, sendq, more, cur, job, heap, net, unacked, lost, ghosts>>

TaskTxDone ==
  /\ Take("TX_DONE")
  /\ IF sending /\ more
     THEN pc' = "frag" /\ sending' = sending
     ELSE /\ sending' = FALSE
          /\ pc' = IF Empty(sendq) THEN "idle" ELSE "repost"
  /\ out' = None
  /\ UNCHANGED <<recvq, sendq, more, cur, job, heap, net, unacked, lost, ghosts>>

\* (A bug) current_sending_chunk does not advance.
SendMoreAgain ==
  /\ pc = "frag" /\ cur.len > MTU
  /\ Sent(Chunk(cur, cur.off, MTU))
  /\ cur' = Chunk(cur, cur.off, cur.len - MTU)
  /\ pc' = "idle"
  /\ UNCHANGED <<recvq, sendq, evq, sending, more, job, heap, net, ghosts>>

SendMore ==
  /\ pc = "frag" /\ cur.len > MTU
  /\ Sent(Chunk(cur, cur.off, MTU))
  /\ cur' = Chunk(cur, cur.off + MTU, cur.len - MTU)
  /\ pc' = "idle"
  /\ UNCHANGED <<recvq, sendq, evq, sending, more, job, heap, net, ghosts>>

\* The last packet: the block is freed, and sending is reset without waiting
\* for the sent callback.
SendLast ==
  /\ pc = "frag" /\ cur.len <= MTU
  /\ more' = FALSE
  /\ Sent(Chunk(cur, cur.off, cur.len))
  /\ heap' = heap \ {cur.buf}
  /\ cur' = None /\ pc' = "fragEnd"
  /\ UNCHANGED <<recvq, sendq, evq, sending, job, net, ghosts>>

TaskFragEnd ==
  /\ pc = "fragEnd"
  /\ sending' = FALSE
  /\ pc' = "idle" /\ out' = None
  /\ UNCHANGED <<recvq, sendq, evq, more, cur, job, heap, net, unacked, lost, ghosts>>

TaskRepost ==
  /\ pc = "repost"
  /\ evq' = Post(evq, "TX")
  /\ lost' = (lost \/ Full(evq))
  /\ pc' = "idle" /\ out' = None
  /\ UNCHANGED <<recvq, sendq, sending, more, cur, job, heap, net, unacked, ghosts>>

-----------------------------------------------------------------------------
(* The Wi-Fi handlers and timers. *)

\* sta_server_close and ap_server_close, called outside server_task.
ServerClose ==
  /\ heap' = heap \ (Blocks(sendq) \union Blocks(recvq))
  /\ sendq' = Cleared /\ recvq' = Cleared
  /\ out' = None
  /\ UNCHANGED <<evq, sending, more, cur, pc, job, net, unacked, lost, ghosts>>

\* (A bug) Half of the statics are reset.
ServerInitResets ==
  /\ heap' = heap \ (Blocks(sendq) \union Blocks(recvq))
  /\ sendq' = Cleared /\ recvq' = Cleared
  /\ sending' = FALSE /\ listening' = TRUE /\ out' = None
  /\ UNCHANGED <<evq, lost, more, cur, pc, job, open, unacked, ghosts>>

\* server_init_tcp, once it has an address: the queues are cleared, the task is
\* registered again (which may forget the pending events), the callbacks are
\* set and the server listens, unless a registration fails.  The statics of
\* server_task keep their values.
ServerInit ==
  /\ heap' = heap \ (Blocks(sendq) \union Blocks(recvq))
  /\ sendq' = Cleared /\ recvq' = Cleared
  /\ \/ evq' = evq /\ lost' = lost
     \/ /\ evq' = << >>
        /\ lost' = (lost \/ \E i \in 1..Len(evq) : evq[i] = "TX_DONE")
  /\ listening' \in {listening, TRUE}
  /\ out' = None
  /\ UNCHANGED <<sending, more, cur, pc, job, open, unacked, ghosts>>

-----------------------------------------------------------------------------
Parse == \/ ParseQuiet \/ ParseDirect \/ ParseClose
         \/ \E b \in Bufs, n \in Lens : ParseReply(b, n)

Task == \/ TaskRx \/ Parse
        \/ TaskTx \/ SendWhole \/ SendFirst
        \/ TaskTxDone \/ SendMore \/ SendLast \/ TaskFragEnd \/ TaskRepost

Callback ==
  \/ \E c \in Conns : ConnectCb(c) \/ DisconnectCb(c) \/ SentCb(c)
  \/ \E c \in Conns, b \in Bufs, n \in Lens : RecvCb(c, b, n)

Interrupt == \E c \in Conns, b \in Bufs, n \in Lens : PictureDone(c, b, n)

Next == Task \/ Callback \/ Interrupt \/ ServerClose \/ ServerInit

Spec == Init /\ [][Next]_vars

\* The scheduler runs server_task whenever it has work, and the stack delivers
\* every sent callback it owes on a connection that stays up.
Fairness == /\ WF_vars(Task)
            /\ \A c \in Conns : WF_vars(SentCb(c))

FairSpec == Spec /\ Fairness

-----------------------------------------------------------------------------
(* Properties. *)

\* The shape of the state, with what pc says of the message in hand.
TypeOK ==
  /\ recvq \in Seq(Messages) /\ sendq \in Seq(Messages)
  /\ evq \in Seq(Events) /\ Len(evq) <= QLen
  /\ sending \in BOOLEAN /\ more \in BOOLEAN
  /\ cur \in Fragments \union {None}
  /\ pc \in Places
  /\ job \in Messages \union {None}
  /\ heap \subseteq Bufs /\ leaked \subseteq Bufs
  /\ listening \in BOOLEAN /\ open \subseteq Conns
  /\ unacked \in [Conns -> 0..MaxUnacked]
  /\ out \in Fragments \union {None}
  /\ lost \in BOOLEAN /\ lostRx \in BOOLEAN

\* The statics of server_task describe one message: fragments are outstanding
\* only while sending, a message is taken for sending only when no other is
\* partly sent, and the places of pc agree with the flags.
ControlOK ==
  /\ pc \in {"parse", "tx"} => job \in Messages
  /\ more => sending /\ cur \in Fragments
  /\ pc = "tx" => sending /\ ~more
  /\ pc = "frag" => sending /\ more
  /\ pc = "fragEnd" => sending /\ ~more

\* The blocks each owner is responsible for freeing.
InHand  == IF pc \in {"parse", "tx"} THEN {job.buf} ELSE {}
Partial == IF more THEN {cur.buf} ELSE {}
Distinct(q) == \A i, j \in 1..Len(q) : q[i].buf = q[j].buf => i = j

\* No block is freed while something still refers to it, freed twice, or
\* forgotten: an allocated block belongs to exactly one of the two queues, the
\* message in hand, the message that is partly sent, or the copies that
\* tcpserver_recv_cb leaks when its push fails.
OwnedOnce ==
  /\ heap = Blocks(recvq) \union Blocks(sendq) \union InHand \union Partial
              \union leaked
  /\ Distinct(recvq) /\ Distinct(sendq)
  /\ Blocks(recvq) \intersect Blocks(sendq) = {}
  /\ (Blocks(recvq) \union Blocks(sendq)) \intersect (InHand \union Partial) = {}
  /\ InHand \intersect Partial = {}
  /\ leaked \intersect (Blocks(recvq) \union Blocks(sendq) \union InHand
                          \union Partial) = {}

Pending(e) == \E i \in 1..Len(evq) : evq[i] = e
Awaited == \E c \in Conns : unacked[c] > 0

\* The send path never goes to sleep with work left: while no event, sent
\* callback or chunk has been lost, a message that is with the stack will be
\* followed by a TX_DONE, and a queued one by a TX.
WakeupPending ==
  ~lost =>
    /\ sending => pc \in {"tx", "frag"} \/ Pending("TX_DONE") \/ Awaited
    /\ ~sending /\ sendq # << >> =>
         pc = "repost" \/ Pending("TX") \/ Pending("TX_DONE") \/ Awaited

\* Every received message has its RX event: none is left in recvq until the
\* next client happens to send something.
RxAccounted ==
  ~lostRx => Len(recvq) <= Cardinality({i \in 1..Len(evq) : evq[i] = "RX"})

\* While no wakeup is lost, a queued message leaves the queue.
QueueDrains ==
  \A b \in Bufs : b \in Blocks(sendq) ~> b \notin Blocks(sendq) \/ lost

\* While no wakeup is lost, a received message is parsed or cleared.
ReceivedIsParsed ==
  \A b \in Bufs : b \in Blocks(recvq) ~> b \notin Blocks(recvq) \/ lostRx

\* What is left of the messages the server has accepted: of the one in hand or
\* partly sent, and of those in sendq.
Left == IF pc = "tx" THEN <<Chunk(job, 0, job.len)>>
        ELSE IF more THEN <<cur>> ELSE << >>
Waiting(q) == [i \in 1..Len(q) |-> Chunk(q[i], 0, q[i].len)]
Outstanding == Left \o Waiting(sendq)

\* What the server promises its clients: the messages it accepts are handed to
\* the stack in order, each as consecutive packets.
Tx == INSTANCE TxChannel WITH pending <- Outstanding

SendsInOrder == Tx!Spec

=============================================================================
