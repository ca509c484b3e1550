----------------------------- MODULE TxChannel -----------------------------
(***************************************************************************)
(* What user/server.c promises for outgoing messages, without its queue,   *)
(* its events and its flags: accepted messages leave in order, each as      *)
(* consecutive packets of at most MTU bytes, and a message whose first      *)
(* packet has left is sent to its end.  Closing the server drops messages   *)
(* that have not been started.                                              *)
(***************************************************************************)
EXTENDS Naturals, Sequences

CONSTANTS Conns, Bufs, Lens, MTU, None

VARIABLES pending,  \* what is left of each accepted message, oldest first
          out       \* the packet that leaves in this step, or None

Whole == {[conn |-> c, buf |-> b, off |-> 0, len |-> n] :
            c \in Conns, b \in Bufs, n \in Lens}

Init == pending = << >> /\ out = None

Accept ==
  /\ \E m \in Whole : pending' = Append(pending, m)
  /\ out' = None

\* The next packet of the oldest message.
Emit ==
  /\ pending # << >>
  /\ LET m == Head(pending)
         n == IF m.len > MTU THEN MTU ELSE m.len
     IN /\ out' = [m EXCEPT !.len = n]
        /\ pending' =
             (IF m.len = n THEN << >>
              ELSE <<[m EXCEPT !.off = @ + n, !.len = @ - n]>>) \o Tail(pending)

\* The server closes.  A message already taken from the queue survives, and
\* one that is partly sent always does.
Drop ==
  /\ pending # << >>
  /\ \/ pending' = <<Head(pending)>>
     \/ pending' = << >> /\ Head(pending).off = 0
  /\ out' = None

Quiet == UNCHANGED pending /\ out' = None

Next == Accept \/ Emit \/ Drop \/ Quiet

Spec == Init /\ [][Next]_<<pending, out>>

=============================================================================
