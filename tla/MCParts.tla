------------------------------ MODULE MCParts ------------------------------
(***************************************************************************)
(* The four small parts for TLC: the list of sendq, the software UART, the  *)
(* simple drivers and locator mode.  They share no state; a behaviour is one *)
(* of one of them, the others stay as they began.                           *)
(***************************************************************************)
EXTENDS QueueList, SoftwareUart, Drivers, Locator

VARIABLE part

partVars == <<listVars, uartVars, driverVars, locatorVars, part>>

Init ==
  /\ part \in {"list", "uart", "drivers", "locator"}
  /\ ListInit /\ UartInit /\ DriverInit /\ LocatorInit

Next ==
  /\ UNCHANGED part
  /\ \/ part = "list" /\ ListNext /\ UNCHANGED <<uartVars, driverVars, locatorVars>>
     \/ part = "uart" /\ UartNext /\ UNCHANGED <<listVars, driverVars, locatorVars>>
     \/ part = "drivers" /\ DriverNext /\ UNCHANGED <<listVars, uartVars, locatorVars>>
     \/ part = "locator" /\ LocatorNext /\ UNCHANGED <<listVars, uartVars, driverVars>>

Spec == Init /\ [][Next]_partVars /\ LocatorFairness

-----------------------------------------------------------------------------
(* Values of the constants. *)

\* Bytes that are constant, that alternate, and that differ in their first or last bit.
MCBytes == {[i \in 1..8 |-> 0], [i \in 1..8 |-> 1], [i \in 1..8 |-> i % 2],
            [i \in 1..8 |-> (i + 1) % 2], [i \in 1..8 |-> IF i = 1 THEN 1 ELSE 0],
            [i \in 1..8 |-> IF i = 8 THEN 0 ELSE 1]}

\* Nine moments of a tick, which is 16 * baud long.
MCPhases(b) == {2 * b * i : i \in 0..7} \union {16 * b - 1}

\* 65.2 % and 35.1 degrees, 100 % and -10.1 degrees (with a sign bit), and others.
Frame(h, t) == [humidity |-> h, temperature |-> t]
MCFrames == {Frame(652, 351), Frame(1000, 32768 + 101), Frame(0, 0), Frame(341, 170),
             Frame(1, 32767)}
=============================================================================
