---------------------------- MODULE SoftwareUart ----------------------------
(***************************************************************************)
(* The timing of user/software_uart.c.  A byte is received by an interrupt  *)
(* handler that waits from bit to bit, and sent by a loop that does, both   *)
(* by a clock that advances every 3.2 microseconds.  The camera at the other *)
(* end keeps the baud rate exactly and reads each bit in its middle.         *)
(*                                                                         *)
(* Times are exact, in units of which a tick of the clock has Tick and one  *)
(* of the camera's bits has Bit.  A wait ends at a tick; what is executed     *)
(* between two waits takes less than a tick.  A byte is a sequence of bits,  *)
(* the lowest first.  (Where a received byte is stored is up to Camera.)     *)
(***************************************************************************)
EXTENDS Naturals, Sequences

CONSTANTS
  Bauds,      \* the rates that the camera may have
  Bytes,      \* the bytes that are sent
  Latencies,  \* how long interrupts may be locked, in microseconds
  Phases(_)   \* how long after a tick a byte may begin, at a rate

\* The rates of the camera (camera.c:511) at which the clock tells its bits apart, of
\* which the firmware only uses 38400, and the locks that it bears at that rate.
ASSUME UartAssumption ==
  /\ Bauds \subseteq {9600, 19200, 38400} /\ Latencies \subseteq 0..13
  /\ \A b \in Bauds : Phases(b) \subseteq 0..(16 * b - 1)
  /\ \A b \in Bytes : b \in Seq({0, 1}) /\ Len(b) = 8

VARIABLES
  baud,    \* baud_rate
  uart,    \* "idle", or "handler" in bit_bang_read_byte
  line,    \* the byte that the camera is sending
  start,   \* how long after a tick its start bit began
  clock,   \* the tick of the last call of NOW()
  read,    \* the bits that the handler has read
  got      \* the last byte that was sent, by either side, and what was received

uartVars == <<baud, uart, line, start, clock, read, got>>

\* A microsecond, a period of NOW(), and one of the line: all integers in these units.
Microsecond == 5 * baud
Tick == 16 * baud
Bit  == 5 * 1000000

bit_delay == 1000000 \div baud   \* software_uart_config

TOTICKS(x) == (x * 5) \div 16

UartInit ==
  /\ baud \in Bauds
  /\ uart = "idle" /\ line = << >> /\ start = 0 /\ clock = 0 /\ read = << >> /\ got = << >>

\* The line in the n-th period of a byte: the start bit, the data, the stop bit.
Level(b, n) == IF n = 0 THEN 0 ELSE IF n <= 8 THEN b[n] ELSE 1

Ok(condition) == IF condition THEN "ok" ELSE "missed"

-----------------------------------------------------------------------------
(* Receiving. *)

\* The line falls, and bit_bang_read_byte is entered when interrupts are not locked.
StartBit ==
  /\ uart = "idle"
  /\ line' \in Bytes /\ start' \in Phases(baud)
  /\ \E latency \in Latencies :
       clock' = (start' + latency * Microsecond) \div Tick
  /\ uart' = "handler" /\ got' = << >>
  /\ UNCHANGED <<baud, read>>

\* (A bug) The handler waits for the beginning of the first bit, not for its middle.
FirstWaitEdge == TOTICKS(bit_delay)

FirstWait == TOTICKS(bit_delay + bit_delay \div 2)

ReadBit ==
  /\ uart = "handler" /\ Len(read) < 8
  /\ clock' = clock + (IF read = << >> THEN FirstWait ELSE TOTICKS(bit_delay))
  /\ read' = Append(read, Level(line, (clock' * Tick - start) \div Bit))
  /\ UNCHANGED <<baud, uart, line, start, got>>

\* The handler waits once more and clears the edges that the pin has seen, with that of
\* the next start bit if that comes first.
ReadDone ==
  /\ uart = "handler" /\ Len(read) = 8
  /\ LET end == (clock + TOTICKS(bit_delay)) * Tick
     IN got' = <<line, read, Ok(end < start + 10 * Bit)>>
  /\ uart' = "idle" /\ line' = << >> /\ start' = 0 /\ clock' = 0 /\ read' = << >>
  /\ UNCHANGED baud

-----------------------------------------------------------------------------
(* Sending. *)

\* bit_bang_send of one byte, which begins some time after a tick; the camera reads
\* its data and the stop bit.  (The interrupt of the pin is disabled meanwhile.)
SendByte ==
  /\ uart = "idle"
  /\ \E b \in Bytes, phase \in Phases(baud) :
       LET period == TOTICKS(bit_delay) * Tick
           Middle(k) == phase + k * Bit + Bit \div 2
       IN got' = <<b, [k \in 1..8 |-> Level(b, Middle(k) \div period)],
                   Ok(Middle(9) \div period = 9)>>
  /\ UNCHANGED <<baud, uart, line, start, clock, read>>

UartNext == StartBit \/ ReadBit \/ ReadDone \/ SendByte

UartSpec == UartInit /\ [][UartNext]_uartVars

\* The truncation of bit_delay and TOTICKS, which adds up from bit to bit, the tick in
\* which a byte begins, and a handler that is late never make a bit be read for another
\* one, nor the next start bit be missed (software_uart.h:8, software_uart.c:82-106).
BytesAsSent == got # << >> => got[1] = got[2] /\ got[3] = "ok"

=============================================================================
