----------------------------- MODULE PacketFifo -----------------------------
(***************************************************************************)
(* What the MQTT client expects of its queue of outgoing packets: a FIFO    *)
(* that may refuse a packet, and that gives back whole packets only.        *)
(***************************************************************************)
EXTENDS Sequences

CONSTANTS Packets, None

VARIABLES pending,  \* the packets in the queue, oldest first
          got       \* the packet that this step took out, or None

Init == pending = << >> /\ got = None

Put ==
  /\ \E p \in Packets : pending' = Append(pending, p)
  /\ got' = None

Get ==
  /\ pending # << >>
  /\ got' = Head(pending)
  /\ pending' = Tail(pending)

\* A packet is refused, or there is none.
Quiet == pending' = pending /\ got' = None

Next == Put \/ Get \/ Quiet

Spec == Init /\ [][Next]_<<pending, got>>

=============================================================================
