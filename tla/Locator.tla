------------------------------ MODULE Locator ------------------------------
(***************************************************************************)
(* Locator mode: wifi.c:165-215 with its commands in parser.c.  A phone      *)
(* that looks for a device makes it transmit with little power for ten       *)
(* seconds, by a UDP broadcast; a Power command says how little, and with     *)
(* how much otherwise.  Several phones may do so at any time: the UDP socket, *)
(* once it is open, is closed by a restart only.                             *)
(***************************************************************************)
EXTENDS Naturals

CONSTANT PowerArguments   \* the numbers, as atoi reads them, of Power commands

ASSUME LocatorAssumption == PowerArguments \subseteq Nat

VARIABLES
  udp,           \* server_init_udp has opened the socket
  inLocator,     \* IN_LOCATOR_MODE
  locatorTimer,  \* locator_timer is armed
  low, high,     \* LOW_POWER_VALUE, HIGH_POWER_VALUE
  power          \* what system_phy_set_max_tpw was called with, or Initial

Initial == 255   \* the power after a restart: not one that a command can set

locatorVars == <<udp, inLocator, locatorTimer, low, high, power>>

LocatorInit ==
  /\ udp = FALSE /\ inLocator = FALSE /\ locatorTimer = FALSE
  /\ low = 50 /\ high = 80 /\ power = Initial

\* The device gets an address: sta_server_init.
UdpOpen ==
  /\ udp' = TRUE
  /\ UNCHANGED <<inLocator, locatorTimer, low, high, power>>

\* (A bug) The timer is left as it was.
StartLocatorUntimed == inLocator' = TRUE /\ power' = low /\ UNCHANGED locatorTimer

\* start_locator_mode, stop_locator_mode
StartLocator == inLocator' = TRUE /\ power' = low /\ locatorTimer' = TRUE
StopLocator == inLocator' = FALSE /\ power' = high /\ locatorTimer' = FALSE

\* "Devices Low Power": the time does not begin again when it is running.
DevicesLowPower ==
  /\ udp
  /\ IF inLocator THEN UNCHANGED <<inLocator, locatorTimer, power>> ELSE StartLocator
  /\ UNCHANGED <<udp, low, high>>

\* "Hello ESP Devices?" looks for all devices, and ends the mode.
HelloEspDevices ==
  /\ udp
  /\ IF inLocator THEN StopLocator ELSE UNCHANGED <<inLocator, locatorTimer, power>>
  /\ UNCHANGED <<udp, low, high>>

LocatorTimeout == locatorTimer /\ StopLocator /\ UNCHANGED <<udp, low, high>>

\* The argument is cut to 8 bits before it is compared with 82.
PowerValue(n) == IF n % 256 >= 82 THEN 82 ELSE n % 256

\* The Power command, by TCP, of which the radio hears when the mode changes.
SetPower ==
  /\ \E h, l \in PowerArguments : high' = PowerValue(h) /\ low' = PowerValue(l)
  /\ UNCHANGED <<udp, inLocator, locatorTimer, power>>

\* The device restarts, whatever the reason.
LocatorRestart ==
  /\ udp' = FALSE /\ inLocator' = FALSE /\ locatorTimer' = FALSE
  /\ low' = 50 /\ high' = 80 /\ power' = Initial

LocatorNext == UdpOpen \/ DevicesLowPower \/ HelloEspDevices \/ LocatorTimeout \/ SetPower
               \/ LocatorRestart

\* The SDK calls the timer.
LocatorFairness == WF_locatorVars(LocatorTimeout)

\* A device does not stay at low power: whatever the phones ask for, and in whatever
\* order, the mode ends and leaves the radio at the high power then in force, or at
\* that of a restart (wifi.c:168-176, 185-196; parser.c:46-61).
LowPowerEnds == inLocator ~> ~inLocator /\ power \in {high, Initial}

=============================================================================
