---------------------------- MODULE MessageQueue ----------------------------
(***************************************************************************)
(* The FIFO of user/message_queue.c: messages that wait to be parsed       *)
(* (recvq) or to be handed to the TCP stack (sendq).  A message is the      *)
(* connection it belongs to, the heap block that holds its bytes, and the   *)
(* number of bytes.  Every caller allocates the block on the heap, so       *)
(* the mem field of the C structure is always HEAP_MEM and is left out.     *)
(* A push that finds no memory for its list node leaves the queue as it is  *)
(* and returns -1: that outcome is a disjunct of the actions that push.     *)
(***************************************************************************)
EXTENDS Naturals, Sequences

Message(Conn, Buf, Len0) == [conn : Conn, buf : Buf, len : Len0]

Cleared == << >>                        \* what MessageQueue_clear leaves

Push(q, c, b, n) == Append(q, [conn |-> c, buf |-> b, len |-> n])

First(q) == Head(q)                     \* what MessageQueue_unshift returns
Unshift(q) == Tail(q)                   \* and what it leaves

Empty(q) == q = << >>

Blocks(q) == {q[i].buf : i \in 1..Len(q)}  \* the blocks that clear frees

=============================================================================
