----------------------------- MODULE QueueList -----------------------------
(***************************************************************************)
(* The linked list of user/message_queue.c under sendq, store by store.     *)
(*                                                                         *)
(* The callers of MessageQueue_push and MessageQueue_unshift lock the        *)
(* interrupts, those of MessageQueue_clear do not.  So the interrupt that     *)
(* receives the last byte of a picture may push it between any two steps of  *)
(* a clearing.  A block stands for a message with its data; the same block   *)
(* may be allocated again once it is free.  What the code does with `count'  *)
(* is left out: nothing reads it.  (message_queue.c takes STAILQ from the    *)
(* headers of the SDK.)                                                      *)
(***************************************************************************)
EXTENDS Naturals, Sequences, FiniteSets

CONSTANTS Blocks, NULL

ASSUME ListAssumption ==
  IsFiniteSet(Blocks) /\ NULL \notin Blocks \union {"pushed", "refused"}

VARIABLES
  next,   \* the next field of every block, also of those that are free
  first,  \* stqh_first
  last,   \* whose next field stqh_last points to; NULL when it points to stqh_first
  live,   \* the blocks that are allocated
  step,   \* where MessageQueue_clear is, or "none"
  msg,    \* its msg
  prev,   \* its prev
  ret,    \* what the last call returned
  late,   \* a message was once pushed during a clearing
  used    \* a block was read or written while it was free

listVars == <<next, first, last, live, step, msg, prev, ret, late, used>>

ListInit ==
  /\ next = [b \in Blocks |-> NULL] /\ first = NULL /\ last = NULL /\ live = {}
  /\ step = "none" /\ msg = NULL /\ prev = NULL
  /\ ret = NULL /\ late = FALSE /\ used = FALSE

Free(b) == live' = live \ {b}             \* os_free; of NULL it does nothing
Touch(b) == used' = (used \/ (b # NULL /\ b \notin live))

\* MessageQueue_push: os_zalloc, and STAILQ_INSERT_TAIL.
ListPush(b) ==
  /\ b \notin live
  /\ live' = live \union {b}
  /\ next' = [x \in Blocks |-> IF x = last THEN b ELSE IF x = b THEN NULL ELSE next[x]]
  /\ first' = IF last = NULL THEN b ELSE first
  /\ last' = b
  /\ Touch(last)
  /\ ret' = "pushed" /\ late' = (late \/ step # "none")
  /\ UNCHANGED <<step, msg, prev>>

ListRefuse == ret' = "refused" /\ UNCHANGED <<next, first, last, live, step, msg, prev, late, used>>

\* (A bug) The pointer to the end is left where it was.
ListUnshiftKeepsLast ==
  /\ step = "none" /\ first # NULL
  /\ ret' = first
  /\ first' = next[first] /\ last' = last
  /\ Touch(first) /\ Free(first)
  /\ UNCHANGED <<next, step, msg, prev, late>>

\* MessageQueue_unshift, with STAILQ_REMOVE_HEAD.
ListUnshift ==
  /\ step = "none" /\ first # NULL
  /\ ret' = first
  /\ first' = next[first]
  /\ last' = IF next[first] = NULL THEN NULL ELSE last
  /\ Touch(first) /\ Free(first)
  /\ UNCHANGED <<next, step, msg, prev, late>>

-----------------------------------------------------------------------------
(* MessageQueue_clear: each message is freed one round after its next field was read. *)

ClearBegin ==
  /\ step = "none"
  /\ msg' = first /\ prev' = NULL /\ step' = "free" /\ ret' = NULL
  /\ UNCHANGED <<next, first, last, live, late, used>>

ClearFree ==
  /\ step = "free" /\ msg # NULL
  /\ Free(prev) /\ prev' = msg
  /\ step' = "next"
  /\ UNCHANGED <<next, first, last, msg, ret, late, used>>

ClearNext ==
  /\ step = "next"
  /\ Touch(msg) /\ msg' = next[msg]
  /\ step' = "free"
  /\ UNCHANGED <<next, first, last, live, prev, ret, late>>

ClearLast ==
  /\ step = "free" /\ msg = NULL
  /\ Free(prev)
  /\ step' = "first"
  /\ UNCHANGED <<next, first, last, msg, prev, ret, late, used>>

\* STAILQ_INIT is two stores.
ResetFirst ==
  /\ step = "first"
  /\ first' = NULL /\ step' = "last"
  /\ UNCHANGED <<next, last, live, msg, prev, ret, late, used>>

ResetLast ==
  /\ step = "last"
  /\ last' = NULL /\ step' = "none"
  /\ UNCHANGED <<next, first, live, msg, prev, ret, late, used>>

ClearStep == ClearBegin \/ ClearFree \/ ClearNext \/ ClearLast \/ ResetFirst \/ ResetLast

ListNext == ListRefuse \/ ListUnshift \/ ClearStep \/ \E b \in Blocks : ListPush(b)

ListSpec == ListInit /\ [][ListNext]_listVars

-----------------------------------------------------------------------------
(* The abstract queue. *)

\* s is what is reached from first along next, up to NULL.
IsList(s) ==
  /\ first = IF s = << >> THEN NULL ELSE s[1]
  /\ \A i \in 1..Len(s) : next[s[i]] = IF i = Len(s) THEN NULL ELSE s[i + 1]

Lists == {s \in UNION {[1..k -> Blocks] : k \in 0..Cardinality(Blocks)} : IsList(s)}

\* The blocks in the list, in order; there may be none, but there are never two such.
Listed == IF Lists = {} THEN << >> ELSE CHOOSE s \in Lists : TRUE

\* A clearing takes the messages at once; from the store to first on, a message may be
\* pushed again.
Held == IF step \in {"none", "last"} THEN Listed ELSE << >>

Intact ==
  /\ ~used
  /\ step = "none" =>
       /\ live = {Listed[i] : i \in 1..Len(Listed)}
       /\ last = IF Listed = << >> THEN NULL ELSE Listed[Len(Listed)]

Fifo == INSTANCE MessageFifo
  WITH Messages <- Blocks, None <- NULL, fifo <- Held, clearing <- (step # "none"),
       result <- ret, raced <- late, intact <- Intact

\* The list is a queue: messages come out once and in order, each block is freed once,
\* after its last use, and a clearing frees them all.  Only a push that falls into a
\* clearing, which the callers of MessageQueue_clear do not lock out, may lose a
\* message or memory (server.c:450, 472).
ListImplementsFifo == Fifo!Spec

=============================================================================
