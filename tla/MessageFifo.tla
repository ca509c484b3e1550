---------------------------- MODULE MessageFifo ----------------------------
(***************************************************************************)
(* What user/message_queue.c promises of a queue that an interrupt may push *)
(* to while the task clears it: messages come out once, in the order in      *)
(* which they were pushed, and the memory of the list is intact.  Once a     *)
(* message has been pushed during a clearing, that message may be lost, the  *)
(* next push may lose those before it, and nothing is promised of the memory.*)
(***************************************************************************)
EXTENDS Sequences

CONSTANTS Messages, None

VARIABLES
  fifo,      \* the messages in the queue
  clearing,  \* the task is in MessageQueue_clear
  result,    \* what the last call returned: a message, "pushed", "refused" or None
  raced,     \* a message was once pushed while the task cleared the queue
  intact     \* no memory is lost, and none was used after it had been freed

vars == <<fifo, clearing, result, raced, intact>>

Init == fifo = << >> /\ clearing = FALSE /\ result = None /\ raced = FALSE /\ intact = TRUE

Push(m) ==
  /\ result' = "pushed"
  /\ raced' = (raced \/ clearing)
  /\ fifo' \in {Append(fifo, m)} \union (IF clearing THEN {fifo} ELSE {})
                                 \union (IF raced THEN {<<m>>} ELSE {})
  /\ UNCHANGED clearing

Refuse == result' = "refused" /\ UNCHANGED <<fifo, clearing, raced>>

Unshift ==
  /\ ~clearing /\ fifo # << >>
  /\ result' = Head(fifo) /\ fifo' = Tail(fifo)
  /\ UNCHANGED <<clearing, raced>>

Clear == ~clearing /\ clearing' = TRUE /\ fifo' = << >> /\ result' = None /\ raced' = raced

Cleared == clearing /\ clearing' = FALSE /\ UNCHANGED <<fifo, result, raced>>

Next == /\ Unshift \/ Refuse \/ Clear \/ Cleared \/ \E m \in Messages : Push(m)
        /\ intact' \in IF raced' THEN BOOLEAN ELSE {TRUE}

Spec == Init /\ [][Next]_vars
=============================================================================
