---------------------------- MODULE PartsProofs ----------------------------
(***************************************************************************)
(* Proofs about three small parts, for every value of their constants: the  *)
(* drivers of the devices, the software UART of the camera, and the list of *)
(* the message queue, which implements MessageFifo.                         *)
(***************************************************************************)
EXTENDS SoftwareUart, Drivers, QueueList, FiniteSetTheorems, WellFoundedInduction, TLAPS

-----------------------------------------------------------------------------
(* The drivers: heater.c and lighting.c, with DeviceInit (device_config.c). *)

\* The light's dimming level, and the duty computed from it, are what was last asked for
\* (Lighting_dim).
LightAsAsked ==
  asked \in 0..255 => intensity = AtMost100(asked) /\ pwm = Duty(AtMost100(asked))

\* What DeviceInit, the setters of the heater and Lighting_dim keep: as long as nothing
\* has started the PWM, a heater's pin is at the level of the last command.
DriverInv ==
  /\ asked \in Intensities \union {None}
  /\ ready /\ type = "HEATER" /\ pwm = Off => pin = IF heater THEN "low" ELSE "high"
  /\ LightAsAsked

\* A level of 0..255 is passed through the uint8 of Lighting_dim unchanged.
LEMMA FitsByte == \A a \in 0..255 : a % 256 = a
  OBVIOUS

\* The duty computed from any level is a duty, never the value that stands for no PWM: even
\* at level 0 Lighting_dim leaves the PWM of the pin running.
LEMMA DutyIsOn == \A i \in 0..255 : Duty(AtMost100(i)) # Off
<1> SUFFICES ASSUME NEW i \in 0..255 PROVE Duty(AtMost100(i)) # Off OBVIOUS
<1> DEFINE k == AtMost100(i)
<1>1. k \in Nat BY DEF AtMost100
<1> HIDE DEF k
<1>2. Duty(k) \in Nat
  <2>1. (40000 + 105 * k) \div 100 \in Nat BY <1>1
  <2>2. (((40000 + 105 * k) \div 100) * 83) \div 45 \in Nat BY <2>1
  <2> QED BY <2>2 DEF Duty
<1> QED BY <1>2 DEF Off, k

\* What the initialisation of a type (DeviceInit) does to the light and the heater.
LEMMA InitOfLight ==
  ASSUME NEW t, InitOf(t), DriverInv
  PROVE  /\ asked' \in Intensities \union {None}
         /\ LightAsAsked'
         /\ t = "HEATER" => pin' = (IF heater' THEN "low" ELSE "high")
<1>1. CASE t = "HEATER" /\ HeaterInit
  BY <1>1 DEF HeaterInit, DriverInv, LightAsAsked, lightVars
<1>2. CASE t = "LIGHTING" /\ LightingInit
  BY <1>2 DEF LightingInit, LightAsAsked, None
<1>3. CASE t \in {"TEMPERATURE", "OTHER"} /\ UNCHANGED <<pin, heater, lightVars, sensorVars>>
  BY <1>3 DEF DriverInv, LightAsAsked, lightVars
<1> QED BY <1>1, <1>2, <1>3 DEF InitOf

\* Every call of a driver, and every restart, keeps DriverInv.
LEMMA NextDriver == DriverInv /\ [DriverNext]_driverVars => DriverInv'
<1> SUFFICES ASSUME DriverInv, [DriverNext]_driverVars PROVE DriverInv'
  OBVIOUS
<1>1. CASE SetType
  <2>1. CASE ready' = TRUE /\ InitOf(type')
    BY <2>1, InitOfLight DEF DriverInv
  <2>2. CASE ready' = FALSE /\ UNCHANGED <<pin, heater, lightVars, sensorVars>>
    BY <2>2 DEF DriverInv, LightAsAsked, lightVars
  <2> QED BY <1>1, <2>1, <2>2 DEF SetType
<1>2. CASE DeviceInit
  BY <1>2, InitOfLight DEF DeviceInit, DriverInv
<1>3. CASE HeaterTurnOn
  BY <1>3 DEF HeaterTurnOn, DriverInv, LightAsAsked, lightVars
<1>4. CASE HeaterTurnOff
  BY <1>4 DEF HeaterTurnOff, DriverInv, LightAsAsked, lightVars
<1>5. CASE LightingDim
  <2>1. asked' \in Intensities /\ type' = "LIGHTING" BY <1>5 DEF LightingDim
  <2>2. LightAsAsked'
    <3> SUFFICES ASSUME asked' \in 0..255
                 PROVE  intensity' = AtMost100(asked') /\ pwm' = Duty(AtMost100(asked'))
      BY DEF LightAsAsked
    <3>1. asked' % 256 = asked' BY FitsByte
    <3> QED BY <1>5, <3>1 DEF LightingDim, Intensity
  <2> QED BY <2>1, <2>2 DEF DriverInv
<1>6. CASE TemperatureGet
  BY <1>6 DEF TemperatureGet, DriverInv, LightAsAsked, lightVars
<1>7. CASE DriverRestart
  BY <1>7 DEF DriverRestart, DriverInv, LightAsAsked, None
<1>8. CASE UNCHANGED driverVars
  BY <1>8 DEF driverVars, DriverInv, LightAsAsked, lightVars
<1> QED BY <1>1, <1>2, <1>3, <1>4, <1>5, <1>6, <1>7, <1>8 DEF DriverNext

\* OutputAsAsked holds of the drivers: the pin of a heater is at the level last asked for,
\* and the light at the duty of the level last asked for (heater.c, lighting.c).
THEOREM DriverOutput == DriverSpec => []OutputAsAsked
<1>1. DriverInit => DriverInv BY DEF DriverInit, DriverInv, LightAsAsked, None
<1>2. DriverInv => OutputAsAsked
  <2> SUFFICES ASSUME DriverInv PROVE OutputAsAsked OBVIOUS
  <2>1. ready /\ type = "HEATER" /\ pwm = Off => Output = IF heater THEN "low" ELSE "high"
    BY DEF DriverInv, Output
  <2>2. ASSUME asked \in 0..255
        PROVE  intensity = AtMost100(asked) /\ Output = "pwm" /\ pwm = Duty(AtMost100(asked))
    <3>1. intensity = AtMost100(asked) /\ pwm = Duty(AtMost100(asked))
      BY <2>2 DEF DriverInv, LightAsAsked
    <3>2. pwm # Off BY <2>2, <3>1, DutyIsOn
    <3> QED BY <3>1, <3>2 DEF Output
  <2> QED BY <2>1, <2>2 DEF OutputAsAsked
<1> QED BY <1>1, <1>2, NextDriver, PTL DEF DriverSpec

-----------------------------------------------------------------------------
(* The software UART: software_uart.c. *)

\* The quotient of two natural numbers, by its bounds.
LEMMA Quotient ==
  ASSUME NEW m \in Nat \ {0}, NEW x \in Nat
  PROVE  x \div m \in Nat /\ (x \div m) * m <= x /\ x < (x \div m) * m + m
BY SMT

\* A quotient is k when it is at least k and less than k + 1.
LEMMA QuotientIs ==
  ASSUME NEW m \in Nat \ {0}, NEW x \in Int, NEW k \in Int, k * m <= x, x < (k + 1) * m
  PROVE  x \div m = k
BY SMT

\* At 9600 bauds, s after a tick of the counter and l microseconds late, the handler reads
\* bit k while it is on the line, and has returned before the stop bit ends.
LEMMA Sampled9600 ==
  ASSUME NEW s \in Int, 0 <= s, s < 153600, NEW l \in Int, 0 <= l, l <= 13,
         NEW k \in Int, 0 <= k, k <= 7
  PROVE  /\ (((s + l * 48000) \div 153600 + 48 + k * 32) * 153600 - s) \div 5000000 = k + 1
         /\ ((s + l * 48000) \div 153600 + 48 + 8 * 32) * 153600 < s + 50000000
<1> DEFINE c == (s + l * 48000) \div 153600
           d == c * 153600 - s
<1>1. c \in Nat /\ c * 153600 <= s + l * 48000 /\ s + l * 48000 < c * 153600 + 153600
  <2>1. s + l * 48000 \in Nat BY SMT
  <2> QED BY <2>1, Quotient, SMT
<1> HIDE DEF c
<1>2. d \in Int /\ d > -153600 /\ d <= 624000 BY <1>1, SMT
<1>3. (c + 48 + k * 32) * 153600 - s = d + 7372800 + k * 4915200 BY <1>1, SMT
<1>4. (c + 48 + 8 * 32) * 153600 < s + 50000000 BY <1>1, SMT
<1> HIDE DEF d
<1>5. /\ (k + 1) * 5000000 <= d + 7372800 + k * 4915200
      /\ d + 7372800 + k * 4915200 < (k + 2) * 5000000
  BY <1>2, SMT
<1>6. (d + 7372800 + k * 4915200) \div 5000000 = k + 1
  BY <1>2, <1>5, QuotientIs, SMT
<1> QED BY <1>3, <1>4, <1>6 DEF c

\* At 9600 bauds the receiver, which looks in the middle of a bit, sees the bit that
\* bit_bang_send has put on the line.
LEMMA Sent9600 ==
  ASSUME NEW s \in Int, 0 <= s, s < 153600, NEW k \in Int, 1 <= k, k <= 9
  PROVE  (s + k * 5000000 + 2500000) \div 4915200 = k
<1>1. k * 4915200 <= s + k * 5000000 + 2500000 /\ s + k * 5000000 + 2500000 < (k + 1) * 4915200
  BY SMT
<1> QED BY <1>1, QuotientIs, SMT

\* The same at 19200 bauds.
LEMMA Sampled19200 ==
  ASSUME NEW s \in Int, 0 <= s, s < 307200, NEW l \in Int, 0 <= l, l <= 13,
         NEW k \in Int, 0 <= k, k <= 7
  PROVE  /\ (((s + l * 96000) \div 307200 + 24 + k * 16) * 307200 - s) \div 5000000 = k + 1
         /\ ((s + l * 96000) \div 307200 + 24 + 8 * 16) * 307200 < s + 50000000
<1> DEFINE c == (s + l * 96000) \div 307200
           d == c * 307200 - s
<1>1. c \in Nat /\ c * 307200 <= s + l * 96000 /\ s + l * 96000 < c * 307200 + 307200
  <2>1. s + l * 96000 \in Nat BY SMT
  <2> QED BY <2>1, Quotient, SMT
<1> HIDE DEF c
<1>2. d \in Int /\ d > -307200 /\ d <= 1248000 BY <1>1, SMT
<1>3. (c + 24 + k * 16) * 307200 - s = d + 7372800 + k * 4915200 BY <1>1, SMT
<1>4. (c + 24 + 8 * 16) * 307200 < s + 50000000 BY <1>1, SMT
<1> HIDE DEF d
<1>5. /\ (k + 1) * 5000000 <= d + 7372800 + k * 4915200
      /\ d + 7372800 + k * 4915200 < (k + 2) * 5000000
  BY <1>2, SMT
<1>6. (d + 7372800 + k * 4915200) \div 5000000 = k + 1
  BY <1>2, <1>5, QuotientIs, SMT
<1> QED BY <1>3, <1>4, <1>6 DEF c

\* The same at 19200 bauds.
LEMMA Sent19200 ==
  ASSUME NEW s \in Int, 0 <= s, s < 307200, NEW k \in Int, 1 <= k, k <= 9
  PROVE  (s + k * 5000000 + 2500000) \div 4915200 = k
<1>1. k * 4915200 <= s + k * 5000000 + 2500000 /\ s + k * 5000000 + 2500000 < (k + 1) * 4915200
  BY SMT
<1> QED BY <1>1, QuotientIs, SMT

\* The same at 38400 bauds, the rate of the camera.
LEMMA Sampled38400 ==
  ASSUME NEW s \in Int, 0 <= s, s < 614400, NEW l \in Int, 0 <= l, l <= 13,
         NEW k \in Int, 0 <= k, k <= 7
  PROVE  /\ (((s + l * 192000) \div 614400 + 12 + k * 8) * 614400 - s) \div 5000000 = k + 1
         /\ ((s + l * 192000) \div 614400 + 12 + 8 * 8) * 614400 < s + 50000000
<1> DEFINE c == (s + l * 192000) \div 614400
           d == c * 614400 - s
<1>1. c \in Nat /\ c * 614400 <= s + l * 192000 /\ s + l * 192000 < c * 614400 + 614400
  <2>1. s + l * 192000 \in Nat BY SMT
  <2> QED BY <2>1, Quotient, SMT
<1> HIDE DEF c
<1>2. d \in Int /\ d > -614400 /\ d <= 2496000 BY <1>1, SMT
<1>3. (c + 12 + k * 8) * 614400 - s = d + 7372800 + k * 4915200 BY <1>1, SMT
<1>4. (c + 12 + 8 * 8) * 614400 < s + 50000000 BY <1>1, SMT
<1> HIDE DEF d
<1>5. /\ (k + 1) * 5000000 <= d + 7372800 + k * 4915200
      /\ d + 7372800 + k * 4915200 < (k + 2) * 5000000
  BY <1>2, SMT
<1>6. (d + 7372800 + k * 4915200) \div 5000000 = k + 1
  BY <1>2, <1>5, QuotientIs, SMT
<1> QED BY <1>3, <1>4, <1>6 DEF c

\* The same at 38400 bauds.
LEMMA Sent38400 ==
  ASSUME NEW s \in Int, 0 <= s, s < 614400, NEW k \in Int, 1 <= k, k <= 9
  PROVE  (s + k * 5000000 + 2500000) \div 4915200 = k
<1>1. k * 4915200 <= s + k * 5000000 + 2500000 /\ s + k * 5000000 + 2500000 < (k + 1) * 4915200
  BY SMT
<1> QED BY <1>1, QuotientIs, SMT

\* The tick at which the handler has read n bits, entered l microseconds late.
After(s, l, n) ==
  (s + l * Microsecond) \div Tick + (IF n = 0 THEN 0 ELSE FirstWait + (n - 1) * TOTICKS(bit_delay))

\* What TOTICKS and the integer divisions of the driver give at each rate.
LEMMA Rate ==
  ASSUME baud \in Bauds
  PROVE  \/ /\ baud = 9600 /\ Tick = 153600 /\ Microsecond = 48000
            /\ TOTICKS(bit_delay) = 32 /\ FirstWait = 48
         \/ /\ baud = 19200 /\ Tick = 307200 /\ Microsecond = 96000
            /\ TOTICKS(bit_delay) = 16 /\ FirstWait = 24
         \/ /\ baud = 38400 /\ Tick = 614400 /\ Microsecond = 192000
            /\ TOTICKS(bit_delay) = 8 /\ FirstWait = 12
<1>1. baud \in {9600, 19200, 38400} BY UartAssumption
<1>2. /\ 1000000 \div 9600 = 104 /\ (104 * 5) \div 16 = 32 /\ 104 \div 2 = 52 /\ (156 * 5) \div 16 = 48
      /\ 1000000 \div 19200 = 52 /\ (52 * 5) \div 16 = 16 /\ 52 \div 2 = 26 /\ (78 * 5) \div 16 = 24
      /\ 1000000 \div 38400 = 26 /\ (26 * 5) \div 16 = 8 /\ 26 \div 2 = 13 /\ (39 * 5) \div 16 = 12
  BY SMT
<1> QED BY <1>1, <1>2 DEF Tick, Microsecond, TOTICKS, FirstWait, bit_delay

\* No bits are a sequence of bits.
LEMMA EmptyOfBits == << >> \in Seq({0, 1}) /\ Len(<< >>) = 0
  OBVIOUS

\* Two bytes with the same bits are the same byte.
LEMMA SameBits ==
  ASSUME NEW p \in Seq({0, 1}), NEW q \in Seq({0, 1}), Len(p) = 8, Len(q) = 8,
         \A i \in 1..8 : q[i] = p[i]
  PROVE  p = q
  OBVIOUS

\* At every rate, phase of the counter and latency, the n-th bit the handler reads is the
\* n-th bit on the line, and the handler ends before the byte does.
LEMMA Sampled ==
  ASSUME baud \in Bauds, NEW s \in Phases(baud), NEW l \in Latencies, NEW n \in 1..8
  PROVE  /\ (After(s, l, n) * Tick - s) \div Bit = n
         /\ (After(s, l, 8) + TOTICKS(bit_delay)) * Tick < s + 10 * Bit
<1>1. /\ s \in Int /\ 0 <= s /\ s < 16 * baud
      /\ l \in Int /\ 0 <= l /\ l <= 13
      /\ n \in Int /\ n - 1 \in Int /\ 0 <= n - 1 /\ n - 1 <= 7 /\ n # 0
  BY UartAssumption, SMT
<1>2. Bit = 5000000 /\ 10 * Bit = 50000000 BY SMT DEF Bit
<1> DEFINE k == n - 1
<1>3. k \in Int /\ 0 <= k /\ k <= 7 /\ k + 1 = n BY <1>1, SMT
<1>4. 16 * baud = Tick BY SMT DEF Tick
<1>5. /\ After(s, l, n) = (s + l * Microsecond) \div Tick + (FirstWait + k * TOTICKS(bit_delay))
      /\ After(s, l, 8) = (s + l * Microsecond) \div Tick + (FirstWait + 7 * TOTICKS(bit_delay))
  BY <1>1, SMT DEF After
<1> HIDE DEF k
<1>6. CASE /\ Tick = 153600 /\ Microsecond = 48000
           /\ TOTICKS(bit_delay) = 32 /\ FirstWait = 48
  <2> DEFINE c == (s + l * 48000) \div 153600
  <2>1. c \in Nat
    <3>1. s + l * 48000 \in Nat BY <1>1, SMT
    <3> QED BY <3>1, Quotient, SMT
  <2>2. /\ ((c + 48 + k * 32) * 153600 - s) \div 5000000 = k + 1
        /\ (c + 48 + 8 * 32) * 153600 < s + 50000000
    BY <1>1, <1>3, <1>4, <1>6, Sampled9600, SMT
  <2>3. After(s, l, n) = c + (48 + k * 32) /\ After(s, l, 8) = c + (48 + 7 * 32)
    BY <1>5, <1>6, SMT
  <2> HIDE DEF c
  <2>4. After(s, l, n) = c + 48 + k * 32 /\ After(s, l, 8) + 32 = c + 48 + 8 * 32
    BY <1>3, <2>1, <2>3, SMT
  <2> QED BY <1>2, <1>3, <1>6, <2>2, <2>4, SMT
<1>7. CASE /\ Tick = 307200 /\ Microsecond = 96000
           /\ TOTICKS(bit_delay) = 16 /\ FirstWait = 24
  <2> DEFINE c == (s + l * 96000) \div 307200
  <2>1. c \in Nat
    <3>1. s + l * 96000 \in Nat BY <1>1, SMT
    <3> QED BY <3>1, Quotient, SMT
  <2>2. /\ ((c + 24 + k * 16) * 307200 - s) \div 5000000 = k + 1
        /\ (c + 24 + 8 * 16) * 307200 < s + 50000000
    BY <1>1, <1>3, <1>4, <1>7, Sampled19200, SMT
  <2>3. After(s, l, n) = c + (24 + k * 16) /\ After(s, l, 8) = c + (24 + 7 * 16)
    BY <1>5, <1>7, SMT
  <2> HIDE DEF c
  <2>4. After(s, l, n) = c + 24 + k * 16 /\ After(s, l, 8) + 16 = c + 24 + 8 * 16
    BY <1>3, <2>1, <2>3, SMT
  <2> QED BY <1>2, <1>3, <1>7, <2>2, <2>4, SMT
<1>8. CASE /\ Tick = 614400 /\ Microsecond = 192000
           /\ TOTICKS(bit_delay) = 8 /\ FirstWait = 12
  <2> DEFINE c == (s + l * 192000) \div 614400
  <2>1. c \in Nat
    <3>1. s + l * 192000 \in Nat BY <1>1, SMT
    <3> QED BY <3>1, Quotient, SMT
  <2>2. /\ ((c + 12 + k * 8) * 614400 - s) \div 5000000 = k + 1
        /\ (c + 12 + 8 * 8) * 614400 < s + 50000000
    BY <1>1, <1>3, <1>4, <1>8, Sampled38400, SMT
  <2>3. After(s, l, n) = c + (12 + k * 8) /\ After(s, l, 8) = c + (12 + 7 * 8)
    BY <1>5, <1>8, SMT
  <2> HIDE DEF c
  <2>4. After(s, l, n) = c + 12 + k * 8 /\ After(s, l, 8) + 8 = c + 12 + 8 * 8
    BY <1>3, <2>1, <2>3, SMT
  <2> QED BY <1>2, <1>3, <1>8, <2>2, <2>4, SMT
<1> QED BY <1>6, <1>7, <1>8, Rate, SMT

\* At every rate and phase of the counter, the receiver sees bit k of a byte in its turn.
LEMMA Sent ==
  ASSUME baud \in Bauds, NEW s \in Phases(baud), NEW k \in 1..9
  PROVE  (s + k * Bit + Bit \div 2) \div (TOTICKS(bit_delay) * Tick) = k
<1>1. /\ s \in Int /\ 0 <= s /\ s < Tick
      /\ k \in Int /\ 1 <= k /\ k <= 9
  BY UartAssumption, SMT DEF Tick
<1>2. Bit = 5000000 /\ Bit \div 2 = 2500000
  <2>1. 5000000 \div 2 = 2500000 BY SMT
  <2> QED BY <2>1, SMT DEF Bit
<1>3. CASE Tick = 153600 /\ TOTICKS(bit_delay) * Tick = 4915200
  BY <1>1, <1>2, <1>3, Sent9600, SMT
<1>4. CASE Tick = 307200 /\ TOTICKS(bit_delay) * Tick = 4915200
  BY <1>1, <1>2, <1>4, Sent19200, SMT
<1>5. CASE Tick = 614400 /\ TOTICKS(bit_delay) * Tick = 4915200
  BY <1>1, <1>2, <1>5, Sent38400, SMT
<1>6. 32 * 153600 = 4915200 /\ 16 * 307200 = 4915200 /\ 8 * 614400 = 4915200 BY SMT
<1> QED BY <1>3, <1>4, <1>5, <1>6, Rate, SMT

\* The handler is where its waits have brought it after the bits it has read, and has read
\* them right; this is inductive, BytesAsSent alone is not.
UartInv ==
  /\ baud \in Bauds
  /\ uart \in {"idle", "handler"}
  /\ uart = "idle" => read = << >>
  /\ uart = "handler" =>
       /\ line \in Bytes /\ start \in Phases(baud)
       /\ read \in Seq({0, 1}) /\ Len(read) <= 8
       /\ \A i \in 1..Len(read) : read[i] = line[i]
       /\ \E l \in Latencies : clock = After(start, l, Len(read))
  /\ BytesAsSent

\* Every step of the handler, and every byte sent, keeps UartInv.
LEMMA NextUart == UartInv /\ [UartNext]_uartVars => UartInv'
<1> SUFFICES ASSUME UartInv, [UartNext]_uartVars PROVE UartInv'
  OBVIOUS
<1>0. \A b \in Bytes : b \in Seq({0, 1}) /\ Len(b) = 8 BY UartAssumption
<1>1. CASE StartBit
  <2>1. /\ uart' = "handler" /\ line' \in Bytes /\ start' \in Phases(baud)
        /\ read' = << >> /\ got' = << >> /\ baud' = baud /\ baud \in Bauds
    BY <1>1 DEF StartBit, UartInv
  <2>2. PICK l \in Latencies : clock' = (start' + l * Microsecond) \div Tick
    BY <1>1 DEF StartBit
  <2>3. Len(<< >>) = 0 /\ << >> \in Seq({0, 1}) BY EmptyOfBits
  <2>4. clock' = After(start, l, Len(read))'
    <3>1. start' \in Nat /\ Tick' = Tick /\ Microsecond' = Microsecond /\ Len(read') = 0
      BY <2>1, <2>3, UartAssumption DEF Tick, Microsecond
    <3>2. (start' + l * Microsecond) \div Tick \in Nat
      <4>1. l \in Nat /\ baud \in Nat \ {0} BY <2>1, UartAssumption
      <4>2. Microsecond \in Nat /\ Tick \in Nat \ {0} BY <4>1 DEF Microsecond, Tick
      <4>3. l * Microsecond \in Nat BY <4>1, <4>2
      <4>4. start' + l * Microsecond \in Nat BY <3>1, <4>3
      <4> QED BY <4>2, <4>4, Quotient
    <3> QED BY <2>2, <3>1, <3>2 DEF After
  <2> QED BY <2>1, <2>3, <2>4 DEF UartInv, BytesAsSent
<1>2. CASE ReadBit
  <2> DEFINE n == Len(read) + 1
  <2>1. /\ uart = "handler" /\ uart' = uart /\ line' = line /\ start' = start /\ baud' = baud
        /\ got' = got /\ line \in Bytes /\ start \in Phases(baud) /\ baud \in Bauds
        /\ read \in Seq({0, 1}) /\ Len(read) < 8 /\ Len(read) \in Nat
        /\ \A i \in 1..Len(read) : read[i] = line[i]
        /\ clock' = clock + (IF read = << >> THEN FirstWait ELSE TOTICKS(bit_delay))
        /\ read' = Append(read, Level(line, (clock' * Tick - start) \div Bit))
    BY <1>2 DEF ReadBit, UartInv
  <2>2. PICK l \in Latencies : clock = After(start, l, Len(read)) BY <2>1 DEF UartInv
  <2>3. clock' = After(start, l, n)
    <3>1. /\ FirstWait \in Nat /\ TOTICKS(bit_delay) \in Nat BY <2>1, Rate
    <3>2. (start + l * Microsecond) \div Tick \in Nat
      <4>1. l \in Nat /\ start \in Nat /\ baud \in Nat \ {0} BY <2>1, UartAssumption
      <4>2. start + l * Microsecond \in Nat /\ Tick \in Nat \ {0}
        BY <4>1 DEF Microsecond, Tick
      <4> QED BY <4>2, Quotient
    <3>3. CASE read = << >>
      <4>1. Len(read) = 0 BY <3>3, EmptyOfBits
      <4> QED BY <2>1, <2>2, <3>1, <3>2, <3>3, <4>1 DEF After
    <3>4. CASE read # << >>
      <4>1. Len(read) # 0 BY <2>1, <3>4
      <4> DEFINE t == (start + l * Microsecond) \div Tick
      <4>2. clock = t + (FirstWait + (Len(read) - 1) * TOTICKS(bit_delay))
        BY <2>2, <4>1 DEF After
      <4>3. After(start, l, n) = t + (FirstWait + (n - 1) * TOTICKS(bit_delay))
        BY <2>1 DEF After
      <4>4. clock' = clock + TOTICKS(bit_delay) BY <2>1, <3>4
      <4> HIDE DEF t
      <4>5. t \in Nat BY <3>2 DEF t
      <4> DEFINE w == TOTICKS(bit_delay)
      <4>6. w \in Nat BY <3>1
      <4> HIDE DEF w
      <4>7. (n - 1) * w = (Len(read) - 1) * w + w
        <5>1. n - 1 = (Len(read) - 1) + 1 /\ Len(read) - 1 \in Nat BY <2>1, <4>1
        <5> QED BY <4>6, <5>1
      <4>8. (Len(read) - 1) * w \in Nat
        <5>1. Len(read) - 1 \in Nat BY <2>1, <4>1
        <5> QED BY <4>6, <5>1
      <4> QED BY <3>1, <4>2, <4>3, <4>4, <4>5, <4>6, <4>7, <4>8 DEF w
    <3> QED BY <3>3, <3>4
  <2>4. n \in 1..8 BY <2>1
  <2>5. (clock' * Tick - start) \div Bit = n BY <2>1, <2>3, <2>4, Sampled
  <2>6. Level(line, n) = line[n] BY <2>4 DEF Level
  <2>7. line[n] \in {0, 1} /\ Len(line) = 8 BY <1>0, <2>1, <2>4
  <2>8. read' = Append(read, line[n]) BY <2>1, <2>5, <2>6
  <2>9. /\ read' \in Seq({0, 1}) /\ Len(read') = n
        /\ \A i \in 1..Len(read) : read'[i] = read[i]
        /\ read'[n] = line[n]
    BY <2>1, <2>7, <2>8
  <2>10. \A i \in 1..Len(read') : read'[i] = line[i]
    <3> SUFFICES ASSUME NEW i \in 1..n PROVE read'[i] = line[i] BY <2>9
    <3>1. CASE i = n BY <2>9, <3>1
    <3>2. CASE i # n
      <4>1. i \in 1..Len(read) BY <2>1, <3>2
      <4> QED BY <2>1, <2>9, <4>1
    <3> QED BY <3>1, <3>2
  <2>11. /\ Tick' = Tick /\ Microsecond' = Microsecond
         /\ TOTICKS(bit_delay)' = TOTICKS(bit_delay) /\ FirstWait' = FirstWait
    BY <2>1, SMT DEF Tick, Microsecond, FirstWait, bit_delay
  <2>12. clock' = After(start, l, Len(read))'
    <3>1. After(start, l, n) = After(start, l, Len(read))'
      BY <2>1, <2>9, <2>11 DEF After
    <3> QED BY <2>3, <3>1
  <2>13. Len(read') <= 8 BY <2>4, <2>9
  <2> HIDE DEF n
  <2> QED BY <2>1, <2>9, <2>10, <2>12, <2>13 DEF UartInv, BytesAsSent
<1>3. CASE ReadDone
  <2>1. /\ uart = "handler" /\ Len(read) = 8 /\ baud' = baud /\ uart' = "idle" /\ read' = << >>
        /\ line \in Bytes /\ start \in Phases(baud) /\ read \in Seq({0, 1}) /\ baud \in Bauds
        /\ \A i \in 1..8 : read[i] = line[i]
        /\ got' = <<line, read, Ok((clock + TOTICKS(bit_delay)) * Tick < start + 10 * Bit)>>
    BY <1>3 DEF ReadDone, UartInv
  <2>2. PICK l \in Latencies : clock = After(start, l, 8) BY <2>1 DEF UartInv
  <2>3. (clock + TOTICKS(bit_delay)) * Tick < start + 10 * Bit
    <3>1. 8 \in 1..8 OBVIOUS
    <3> QED BY <2>1, <2>2, <3>1, Sampled
  <2>4. line = read
    <3>1. line \in Seq({0, 1}) /\ Len(line) = 8 BY <1>0, <2>1
    <3> QED BY <2>1, <3>1, SameBits
  <2>5. got' = <<read, read, "ok">> BY <2>1, <2>3, <2>4 DEF Ok
  <2> QED BY <2>1, <2>5 DEF UartInv, BytesAsSent
<1>4. CASE SendByte
  <2>1. uart = "idle" /\ UNCHANGED <<baud, uart, line, start, clock, read>> /\ baud \in Bauds
        /\ read = << >>
    BY <1>4 DEF SendByte, UartInv
  <2>2. PICK b \in Bytes, s \in Phases(baud) :
          got' = <<b, [k \in 1..8 |-> Level(b, (s + k * Bit + Bit \div 2)
                                                 \div (TOTICKS(bit_delay) * Tick))],
                   Ok((s + 9 * Bit + Bit \div 2) \div (TOTICKS(bit_delay) * Tick) = 9)>>
    BY <1>4 DEF SendByte
  <2>3. \A k \in 1..9 : (s + k * Bit + Bit \div 2) \div (TOTICKS(bit_delay) * Tick) = k
    BY <2>1, Sent
  <2>4. \A k \in 1..8 : Level(b, k) = b[k] BY DEF Level
  <2>5. [k \in 1..8 |-> Level(b, (s + k * Bit + Bit \div 2) \div (TOTICKS(bit_delay) * Tick))]
          = [k \in 1..8 |-> b[k]]
    BY <2>3, <2>4
  <2>6. [k \in 1..8 |-> b[k]] = b
    <3>1. b \in Seq({0, 1}) /\ Len(b) = 8 BY <1>0
    <3> QED BY <3>1
  <2>7. (s + 9 * Bit + Bit \div 2) \div (TOTICKS(bit_delay) * Tick) = 9 BY <2>3
  <2>8. got' = <<b, b, "ok">> BY <2>2, <2>5, <2>6, <2>7 DEF Ok
  <2> QED BY <2>1, <2>8 DEF UartInv, BytesAsSent
<1>5. CASE UNCHANGED uartVars
  BY <1>5, SMT DEF uartVars, UartInv, BytesAsSent, After, Tick, Microsecond, FirstWait, bit_delay
<1> QED BY <1>1, <1>2, <1>3, <1>4, <1>5 DEF UartNext

\* BytesAsSent holds of the software UART: every byte is read as it was sent, and sent as
\* it was asked for (software_uart.c), at each rate, whatever the phase of the counter, and with
\* interrupts locked up to 13 microseconds when the start bit falls.
THEOREM UartBytes == UartSpec => []BytesAsSent
<1>1. UartInit => UartInv BY DEF UartInit, UartInv, BytesAsSent
<1>2. UartInv => BytesAsSent BY DEF UartInv
<1> QED BY <1>1, <1>2, NextUart, PTL DEF UartSpec

-----------------------------------------------------------------------------
(* The sensor: temperature.c. *)

\* A set of natural numbers that is not empty has a least element.
LEMMA LeastNatural ==
  ASSUME NEW T, T \subseteq Nat, T # {}
  PROVE  \E x \in T : \A y \in T : x <= y
<1> DEFINE R == OpToRel(<, Nat)
<1>1. \A x, y \in Nat : x < y => <<x, y>> \in R BY DEF OpToRel
<1>2. IsWellFoundedOn(R, Nat) BY NatLessThanWellFounded
<1> HIDE DEF R
<1>3. PICK x \in T : \A y \in T : ~ (<<y, x>> \in R) BY <1>2, WFMin, Zenon
<1>4. ASSUME NEW y \in T PROVE x <= y
  <2>1. ~ (y < x) BY <1>1, <1>3, Zenon
  <2> QED BY <2>1
<1> QED BY <1>4

\* A set with 0 that no step up to n leaves has all numbers up to n.
LEMMA UpTo ==
  ASSUME NEW n \in Nat, NEW T, 0 \in T, \A k \in 1..n : k - 1 \in T => k \in T
  PROVE  \A k \in 0..n : k \in T
<1> DEFINE U == {k \in 0..n : k \notin T}
<1>1. U = {}
  <2> SUFFICES ASSUME U # {} PROVE FALSE OBVIOUS
  <2>1. U \subseteq Nat OBVIOUS
  <2>2. PICK x \in U : \A y \in U : x <= y
    <3> HIDE DEF U
    <3> QED BY <2>1, LeastNatural
  <2>3. x \in 1..n /\ x - 1 \in 0..n /\ ~ (x <= x - 1) BY <2>2
  <2>4. x - 1 \in T BY <2>2, <2>3
  <2> QED BY <2>2, <2>3, <2>4
<1> QED BY <1>1

\* n steps G within S, and f following them from a.
StepsOf(G, n, S) == G \in [1..n -> [S -> S]]
Follows(f, G, n, S, a) ==
  f \in [0..n -> S] /\ f[0] = a /\ \A k \in 1..n : f[k] = G[k][f[k - 1]]

\* Steps that stay in S can be followed from a member of S.
LEMMA Run ==
  ASSUME NEW n \in Nat, NEW S, NEW a \in S, NEW G, StepsOf(G, n, S)
  PROVE  \E f : Follows(f, G, n, S, a)
<1> USE DEF StepsOf, Follows
<1> DEFINE T == {m \in 0..n : \E f \in [0..m -> S] :
                   f[0] = a /\ \A k \in 1..m : f[k] = G[k][f[k - 1]]}
<1>1. 0 \in T
  <2> DEFINE f == [i \in 0..0 |-> a]
  <2>1. f \in [0..0 -> S] /\ f[0] = a BY SMT
  <2>2. \A k \in 1..0 : f[k] = G[k][f[k - 1]] BY SMT
  <2>3. 0 \in 0..n OBVIOUS
  <2> HIDE DEF f
  <2> QED BY <2>1, <2>2, <2>3
<1>2. ASSUME NEW m \in 1..n, m - 1 \in T PROVE m \in T
  <2>1. PICK f \in [0..(m - 1) -> S] :
          f[0] = a /\ \A k \in 1..(m - 1) : f[k] = G[k][f[k - 1]]
    BY <1>2
  <2> DEFINE g == [i \in 0..m |-> IF i = m THEN G[m][f[m - 1]] ELSE f[i]]
  <2>2. m - 1 \in 0..(m - 1) /\ f[m - 1] \in S OBVIOUS
  <2>3. G[m][f[m - 1]] \in S BY <2>2
  <2>4. \A i \in 0..m : i # m => i \in 0..(m - 1) OBVIOUS
  <2>5. \A i \in 0..m : g[i] \in S BY <2>3, <2>4
  <2>6. g \in [0..m -> S] BY <2>5
  <2>7. g[0] = a BY <2>1
  <2>8. ASSUME NEW k \in 1..m PROVE g[k] = G[k][g[k - 1]]
    <3>1. k \in 0..m /\ k - 1 \in 0..m /\ k - 1 # m OBVIOUS
    <3>2. g[k - 1] = f[k - 1] BY <3>1
    <3>3. CASE k = m BY <3>1, <3>2, <3>3
    <3>4. CASE k # m
      <4>1. k \in 1..(m - 1) BY <3>4
      <4>2. g[k] = f[k] BY <3>1, <3>4
      <4> QED BY <2>1, <3>2, <4>1, <4>2
    <3> QED BY <3>3, <3>4
  <2>9. m \in 0..n OBVIOUS
  <2> HIDE DEF g
  <2> QED BY <2>6, <2>7, <2>8, <2>9
<1>3. n \in T
  <2> HIDE DEF T
  <2>1. n \in 0..n OBVIOUS
  <2> QED BY <1>1, <1>2, <2>1, UpTo
<1> QED BY <1>3

\* A number is twice its half, and its last bit.
Half(x) == x \div 2
LastBit(x) == x % 2

LEMMA HalfAndBit ==
  ASSUME NEW x \in Nat
  PROVE  Half(x) \in Nat /\ LastBit(x) \in {0, 1} /\ x = 2 * Half(x) + LastBit(x)
<1>1. PICK q \in Nat : q = x \div 2 OBVIOUS
<1>2. PICK r \in {0, 1} : r = x % 2 OBVIOUS
<1>3. r \in Nat BY <1>2
<1>4. x = 2 * q + r BY <1>1, <1>2, <1>3, Z3
<1>5. Half(x) = q /\ LastBit(x) = r BY <1>1, <1>2 DEF Half, LastBit
<1> QED BY <1>4, <1>5

\* The halves of a number, as the sensor takes them (BitsOf).
LEMMA HalvesAre ==
  ASSUME NEW v \in Nat, NEW n \in Nat
  PROVE  /\ Halves(v, n) \in [0..n -> Nat] /\ Halves(v, n)[0] = v
         /\ \A k \in 1..n : Halves(v, n)[k] = Halves(v, n)[k - 1] \div 2
<1> DEFINE G == [k \in 1..n |-> [x \in Nat |-> x \div 2]]
<1>1. StepsOf(G, n, Nat)
  <2>1. \A x \in Nat : x \div 2 \in Nat OBVIOUS
  <2> QED BY <2>1 DEF StepsOf
<1>2. \A k \in 1..n : \A x \in Nat : G[k][x] = x \div 2 OBVIOUS
<1> HIDE DEF G
<1>3. PICK f : Follows(f, G, n, Nat, v) BY <1>1, Run
<1>4. f \in [0..n -> Nat] /\ f[0] = v /\ \A k \in 1..n : f[k] = f[k - 1] \div 2
  <2>1. f \in [0..n -> Nat] /\ f[0] = v /\ \A k \in 1..n : f[k] = G[k][f[k - 1]]
    BY <1>3 DEF Follows
  <2>2. \A k \in 1..n : f[k - 1] \in Nat BY <2>1
  <2> QED BY <1>2, <2>1, <2>2
<1>5. f = [k \in 0..n |-> IF k = 0 THEN v ELSE f[k - 1] \div 2]
  <2>1. ASSUME NEW k \in 0..n PROVE f[k] = IF k = 0 THEN v ELSE f[k - 1] \div 2
    <3>1. k = 0 \/ k \in 1..n OBVIOUS
    <3> QED BY <1>4, <3>1
  <2> QED BY <1>4, <2>1
<1>6. PICK h : h = Halves(v, n) OBVIOUS
<1>7. h = [k \in 0..n |-> IF k = 0 THEN v ELSE h[k - 1] \div 2]
  BY <1>5, <1>6 DEF Halves
<1>8. h[0] = v /\ \A k \in 1..n : h[k] = h[k - 1] \div 2
  <2>1. 0 \in 0..n /\ \A k \in 1..n : k \in 0..n /\ k # 0 OBVIOUS
  <2> QED BY <1>7, <2>1
<1> DEFINE T == {k \in 0..n : h[k] \in Nat}
<1>9. \A k \in 0..n : k \in T
  <2>1. 0 \in T BY <1>8
  <2>2. ASSUME NEW k \in 1..n, k - 1 \in T PROVE k \in T
    <3>1. h[k - 1] \in Nat BY <2>2
    <3>2. h[k - 1] \div 2 \in Nat BY <3>1
    <3> QED BY <1>8, <3>2
  <2> HIDE DEF T
  <2> QED BY <2>1, <2>2, UpTo
<1>10. h \in [0..n -> Nat] BY <1>7, <1>9
<1> QED BY <1>6, <1>8, <1>10

\* The i-th bit of a number is what the n - i + 1-th halving drops.
LEMMA BitsAre ==
  ASSUME NEW v \in Nat, NEW n \in Nat
  PROVE  /\ Halves(v, n) \in [0..n -> Nat] /\ Halves(v, n)[0] = v
         /\ BitsOf(v, n) \in [1..n -> {0, 1}]
         /\ \A i \in 1..n : Halves(v, n)[n - i] = 2 * Halves(v, n)[n - i + 1] + BitsOf(v, n)[i]
<1>1. PICK h : h = Halves(v, n) OBVIOUS
<1>2. PICK b : b = BitsOf(v, n) OBVIOUS
<1>3. h \in [0..n -> Nat] /\ h[0] = v /\ \A k \in 1..n : h[k] = Half(h[k - 1])
  BY <1>1, HalvesAre DEF Half
<1>4. b = [i \in 1..n |-> LastBit(h[n - i])] BY <1>1, <1>2 DEF BitsOf, LastBit
<1>5. ASSUME NEW i \in 1..n PROVE b[i] \in {0, 1} /\ h[n - i] = 2 * h[n - i + 1] + b[i]
  <2>1. n - i \in 0..n /\ n - i + 1 \in 1..n /\ (n - i + 1) - 1 = n - i OBVIOUS
  <2>2. h[n - i + 1] = Half(h[n - i]) BY <1>3, <2>1
  <2>3. b[i] = LastBit(h[n - i]) BY <1>4
  <2>4. h[n - i] \in Nat BY <1>3, <2>1
  <2> QED BY <2>2, <2>3, <2>4, HalfAndBit
<1>6. b \in [1..n -> {0, 1}] BY <1>4, <1>5
<1> QED BY <1>1, <1>2, <1>3, <1>5, <1>6

\* A number of 16 bits is halved to nothing in 16 steps, and one up to 1023 in ten.
LEMMA HalvedToNothing ==
  ASSUME NEW v \in Nat, NEW n \in Nat, n >= 16, NEW h, h = Halves(v, n)
  PROVE  /\ v < 65536 => h[16] = 0
         /\ v < 1024 => h[12] = 0 /\ h[13] = 0 /\ h[14] = 0 /\ h[15] = 0
<1>1. PICK b : b = BitsOf(v, n) OBVIOUS
<1>2. /\ h \in [0..n -> Nat] /\ h[0] = v /\ b \in [1..n -> {0, 1}]
      /\ \A i \in 1..n : h[n - i] = 2 * h[n - i + 1] + b[i]
  BY <1>1, BitsAre, Zenon
<1>3. ASSUME NEW k \in Nat, k < n PROVE h[k] \in Nat /\ h[k + 1] \in Nat /\ 2 * h[k + 1] <= h[k]
  <2>1. PICK i \in 1..n : n - i = k /\ n - i + 1 = k + 1
    <3>1. n - k \in 1..n /\ n - (n - k) = k /\ n - (n - k) + 1 = k + 1 BY <1>3
    <3> QED BY <3>1
  <2>2. h[k] = 2 * h[k + 1] + b[i] BY <1>2, <2>1
  <2>3. k \in 0..n /\ k + 1 \in 0..n BY <1>3
  <2>4. h[k] \in Nat /\ h[k + 1] \in Nat BY <1>2, <2>3
  <2>5. b[i] \in {0, 1} BY <1>2
  <2> QED BY <2>2, <2>4, <2>5
<1>4. ASSUME NEW k \in Nat, k + 4 <= n
      PROVE  h[k] \in Nat /\ h[k + 4] \in Nat /\ 16 * h[k + 4] <= h[k]
  <2>1. h[k] \in Nat /\ h[k + 1] \in Nat /\ 2 * h[k + 1] <= h[k] BY <1>3, <1>4
  <2>2. h[k + 2] \in Nat /\ 2 * h[k + 2] <= h[k + 1]
    <3>1. k + 1 \in Nat /\ k + 1 < n /\ (k + 1) + 1 = k + 2 BY <1>4
    <3> QED BY <1>3, <3>1
  <2>3. h[k + 3] \in Nat /\ 2 * h[k + 3] <= h[k + 2]
    <3>1. k + 2 \in Nat /\ k + 2 < n /\ (k + 2) + 1 = k + 3 BY <1>4
    <3> QED BY <1>3, <3>1
  <2>4. h[k + 4] \in Nat /\ 2 * h[k + 4] <= h[k + 3]
    <3>1. k + 3 \in Nat /\ k + 3 < n /\ (k + 3) + 1 = k + 4 BY <1>4
    <3> QED BY <1>3, <3>1
  <2> QED BY <2>1, <2>2, <2>3, <2>4
<1>5. h[4] \in Nat /\ 16 * h[4] <= v BY <1>2, <1>4
<1>6. h[8] \in Nat /\ 16 * h[8] <= h[4] BY <1>4
<1>7. h[12] \in Nat /\ 16 * h[12] <= h[8] BY <1>4
<1>8. h[16] \in Nat /\ 16 * h[16] <= h[12] BY <1>4
<1>9. v < 65536 => h[16] = 0 BY <1>5, <1>6, <1>7, <1>8
<1>10. v < 1024 => h[12] = 0 BY <1>5, <1>6, <1>7
<1>11. /\ h[13] \in Nat /\ 2 * h[13] <= h[12]
       /\ h[14] \in Nat /\ 2 * h[14] <= h[13]
       /\ h[15] \in Nat /\ 2 * h[15] <= h[14]
  BY <1>3
<1>12. h[12] = 0 => h[13] = 0 /\ h[14] = 0 /\ h[15] = 0 BY <1>11
<1> QED BY <1>9, <1>10, <1>12

\* What set_dht puts together is the number whose bits were sent.
LEMMA ValueOfBits ==
  ASSUME NEW v \in Nat, NEW n \in Nat, NEW h, h = Halves(v, n), NEW b, b = BitsOf(v, n)
  PROVE  h[n] = 0 => ValueOf(b) = v
<1>1. /\ h \in [0..n -> Nat] /\ h[0] = v /\ b \in [1..n -> {0, 1}]
      /\ \A i \in 1..n : h[n - i] = 2 * h[n - i + 1] + b[i]
  BY BitsAre, Zenon
<1> HAVE h[n] = 0
<1> DEFINE w == [i \in 0..n |-> h[n - i]]
<1>5. w[0] = 0 /\ w[n] = v
  <2>1. 0 \in 0..n /\ n \in 0..n /\ n - 0 = n /\ n - n = 0 OBVIOUS
  <2> QED BY <1>1, <2>1
<1>6. ASSUME NEW i \in 1..n PROVE w[i] = 2 * w[i - 1] + b[i]
  <2>1. i \in 0..n /\ i - 1 \in 0..n /\ n - (i - 1) = n - i + 1 OBVIOUS
  <2>2. w[i] = h[n - i] /\ w[i - 1] = h[n - i + 1] BY <2>1
  <2> HIDE DEF w
  <2> QED BY <1>1, <2>2
<1>7. \A i \in 0..n : i = 0 \/ i \in 1..n OBVIOUS
<1>8. w = [i \in 0..n |-> w[i]] OBVIOUS
<1> DEFINE Is(u) == u = [i \in 0..n |-> IF i = 0 THEN 0 ELSE 2 * u[i - 1] + b[i]]
<1>9. Is(w)
  <2> HIDE DEF w
  <2>1. \A i \in 0..n : w[i] = IF i = 0 THEN 0 ELSE 2 * w[i - 1] + b[i] BY <1>5, <1>6, <1>7
  <2> QED BY <1>8, <2>1
<1>10. PICK u : u = CHOOSE f : Is(f) OBVIOUS
<1>11. Is(u)
  <2> HIDE DEF Is, w
  <2> QED BY <1>9, <1>10
<1>12. ValueOf(b) = u[n]
  <2>1. Len(b) = n BY <1>1
  <2> QED BY <1>10, <2>1 DEF ValueOf
<1> HIDE DEF w
<1>13. u[0] = 0 /\ \A i \in 1..n : u[i] = 2 * u[i - 1] + b[i]
  <2>1. 0 \in 0..n /\ \A i \in 1..n : i \in 0..n /\ i # 0 OBVIOUS
  <2> QED BY <1>11, <2>1
<1> DEFINE T == {i \in 0..n : u[i] = w[i]}
<1>14. \A i \in 0..n : i \in T
  <2>1. 0 \in T BY <1>5, <1>13
  <2>2. ASSUME NEW i \in 1..n, i - 1 \in T PROVE i \in T
    <3>1. u[i - 1] = w[i - 1] BY <2>2
    <3> QED BY <1>6, <1>13, <3>1
  <2> HIDE DEF T
  <2> QED BY <2>1, <2>2, UpTo
<1>15. n \in T
  <2> HIDE DEF T
  <2> QED BY <1>14
<1> QED BY <1>5, <1>12, <1>15

\* A sampling loop whose rounds take 1.5 to 3.6 microseconds has more than 18 samples of
\* a pulse of 70 microseconds, and at most 18 of one of 26 (get_data_bits).
LEMMA PulseSamples ==
  ASSUME NEW s \in Nat, 15 <= s, s <= 36, NEW t \in Nat, NEW p \in Nat, p <= t
  PROVE  /\ p >= 700 => Samples(t, s) - Samples(t - p, s) > 18
         /\ p <= 260 => ~ (Samples(t, s) - Samples(t - p, s) > 18)
         /\ t <= 59970 => Samples(t, s) <= 3998
<1>1. t + s - 1 \in Nat /\ (t - p) + s - 1 \in Nat /\ s \in Nat \ {0} OBVIOUS
<1>2. PICK a \in Nat : a = Samples(t, s) /\ a * s <= t + s - 1 /\ t + s - 1 < a * s + s
  BY <1>1, Quotient DEF Samples
<1>3. PICK b \in Nat : /\ b = Samples(t - p, s)
                       /\ b * s <= (t - p) + s - 1 /\ (t - p) + s - 1 < b * s + s
  BY <1>1, Quotient DEF Samples
<1>4. PICK x \in Nat : x = a * s OBVIOUS
<1>5. PICK y \in Nat : y = b * s OBVIOUS
<1>6. x <= t + s - 1 /\ t <= x /\ y <= (t - p) + s - 1 /\ t - p <= y BY <1>2, <1>3, <1>4, <1>5
<1>7. a - b \in Int /\ (a - b) * s = x - y BY <1>4, <1>5
<1>8. ASSUME p >= 700 PROVE a - b > 18
  <2> SUFFICES ASSUME a - b <= 18 PROVE FALSE BY <1>7
  <2>1. (a - b) * s <= 18 * s BY <1>7
  <2>2. x - y >= p - (s - 1) BY <1>6
  <2> QED BY <1>7, <1>8, <2>1, <2>2
<1>9. ASSUME p <= 260 PROVE ~ (a - b > 18)
  <2> SUFFICES ASSUME a - b >= 19 PROVE FALSE BY <1>7
  <2>1. 19 * s <= (a - b) * s BY <1>7
  <2>2. x - y <= p + s - 1 BY <1>6
  <2> QED BY <1>7, <1>9, <2>1, <2>2
<1>10. ASSUME t <= 59970 PROVE a <= 3998
  <2> SUFFICES ASSUME a >= 3999 PROVE FALSE OBVIOUS
  <2>1. a * s >= 3999 * s OBVIOUS
  <2> QED BY <1>4, <1>6, <1>10, <2>1
<1> QED BY <1>2, <1>3, <1>8, <1>9, <1>10

\* A sequence is a function.
LEMMA AsFunction ==
  ASSUME NEW S, NEW q \in Seq(S)
  PROVE  Len(q) \in Nat /\ q \in [1..Len(q) -> S]
OBVIOUS

\* A function of the first n numbers is a sequence.
LEMMA AsSequence ==
  ASSUME NEW S, NEW n \in Nat, NEW q \in [1..n -> S]
  PROVE  q \in Seq(S) /\ Len(q) = n
OBVIOUS

\* One sequence after the other.
IsJoined(r, p, q, S) ==
  /\ r \in Seq(S) /\ Len(r) = Len(p) + Len(q)
  /\ \A i \in 1..Len(p) : r[i] = p[i]
  /\ \A i \in 1..Len(q) : r[i + Len(p)] = q[i]

LEMMA Joined ==
  ASSUME NEW S, NEW p \in Seq(S), NEW q \in Seq(S)
  PROVE  IsJoined(p \o q, p, q, S)
BY DEF IsJoined

\* The pulses of the sensor: the first two may be longer than those of the bits.
AnyPulse == [low : Nat, high : Nat]

Bounded(p, i) ==
  /\ p.low + p.high <= IF i <= 2 THEN 1600 ELSE 1200
  /\ p.high <= 260 \/ p.high >= 700

Pulses(l) ==
  /\ l \in Seq(AnyPulse) /\ Len(l) <= 42
  /\ \A i \in 1..Len(l) : Bounded(l[i], i)

\* The time of a round of the sampling loop for which the threshold tells the bits apart.
Separates(s) == s \in Nat /\ 15 <= s /\ s <= 36

\* get_data_bits has a 1 where a long pulse was, and a 0 elsewhere.
LEMMA DecodedBit ==
  ASSUME NEW s, Separates(s), NEW l, Pulses(l), NEW i \in 1..READ_BUFFER_SIZE
  PROVE  DecodedBits(l, s)[i] = IF i <= Len(l) /\ l[i].high >= 700 THEN 1 ELSE 0
<1>1. PICK n \in Nat : n = Len(l) /\ n <= 42 /\ l \in [1..n -> AnyPulse]
  BY AsFunction DEF Pulses
<1> DEFINE G == [k \in 1..n |-> [x \in Nat |-> x + l[k].low + l[k].high]]
<1>2. \A k \in 1..n : l[k].low \in Nat /\ l[k].high \in Nat BY <1>1 DEF AnyPulse
<1>3. StepsOf(G, n, Nat)
  <2>1. \A k \in 1..n : \A x \in Nat : x + l[k].low + l[k].high \in Nat BY <1>2
  <2> QED BY <2>1 DEF StepsOf
<1>4. \A k \in 1..n : \A x \in Nat : G[k][x] = x + l[k].low + l[k].high OBVIOUS
<1> HIDE DEF G
<1>5. PICK f : Follows(f, G, n, Nat, 0) BY <1>3, Run
<1> DEFINE Ends(e) == e = [k \in 0..n |-> IF k = 0 THEN 0 ELSE e[k - 1] + l[k].low + l[k].high]
<1>6. Ends(f)
  <2>1. f \in [0..n -> Nat] /\ f[0] = 0 /\ \A k \in 1..n : f[k] = G[k][f[k - 1]]
    BY <1>5 DEF Follows
  <2>2. ASSUME NEW k \in 0..n PROVE f[k] = IF k = 0 THEN 0 ELSE f[k - 1] + l[k].low + l[k].high
    <3>1. CASE k = 0 BY <2>1, <3>1
    <3>2. CASE k # 0
      <4>1. k \in 1..n /\ k - 1 \in 0..n BY <3>2
      <4>2. f[k - 1] \in Nat BY <2>1, <4>1
      <4> QED BY <1>4, <2>1, <3>2, <4>1, <4>2
    <3> QED BY <3>1, <3>2
  <2> QED BY <2>1, <2>2
<1>7. PICK end : end = CHOOSE e : Ends(e) OBVIOUS
<1>8. Ends(end)
  <2> HIDE DEF Ends
  <2> QED BY <1>6, <1>7
<1> DEFINE High == Samples(end[i], s) - Samples(end[i] - l[i].high, s)
           Seen == i <= n /\ Samples(end[i], s) <= MAX_READ_TIME - 2
<1>9. DecodedBits(l, s)[i] = IF Seen /\ High > DATA_BIT_HIGH_THRESHOLD THEN 1 ELSE 0
  BY <1>1, <1>7 DEF DecodedBits
<1>10. end[0] = 0 /\ \A k \in 1..n : end[k] = end[k - 1] + l[k].low + l[k].high
  <2>1. 0 \in 0..n /\ \A k \in 1..n : k \in 0..n /\ k # 0 OBVIOUS
  <2> QED BY <1>8, <2>1
<1> HIDE DEF Ends
<1> DEFINE T == {k \in 0..n : end[k] \in Nat /\ end[k] <= 1200 * k + (IF k = 0 THEN 0 ELSE IF k = 1 THEN 400 ELSE 800)}
<1>11. \A k \in 0..n : k \in T
  <2>1. 0 \in T BY <1>10
  <2>2. ASSUME NEW k \in 1..n, k - 1 \in T PROVE k \in T
    <3>1. end[k] = end[k - 1] + l[k].low + l[k].high BY <1>10
    <3>2. l[k].low + l[k].high <= IF k <= 2 THEN 1600 ELSE 1200 BY <1>1 DEF Pulses, Bounded
    <3>3. PICK x \in Nat : x = end[k - 1]
            /\ x <= 1200 * (k - 1) + (IF k - 1 = 0 THEN 0 ELSE IF k - 1 = 1 THEN 400 ELSE 800)
      BY <2>2
    <3>4. PICK u \in Nat : u = l[k].low BY <1>2
    <3>5. PICK w \in Nat : w = l[k].high BY <1>2
    <3>6. end[k] = x + u + w /\ u + w <= IF k <= 2 THEN 1600 ELSE 1200
      BY <3>1, <3>2, <3>3, <3>4, <3>5
    <3>7. k \in 0..n OBVIOUS
    <3>8. end[k] \in Nat BY <3>6
    <3>9. end[k] <= 1200 * k + (IF k = 0 THEN 0 ELSE IF k = 1 THEN 400 ELSE 800)
      <4>1. CASE k = 1 BY <3>3, <3>6, <4>1
      <4>2. CASE k = 2 BY <3>3, <3>6, <4>2
      <4>3. CASE k > 2 BY <3>3, <3>6, <4>3
      <4> QED BY <4>1, <4>2, <4>3
    <3> QED BY <3>7, <3>8, <3>9
  <2> HIDE DEF T
  <2> QED BY <2>1, <2>2, UpTo
<1>12. CASE i <= n
  <2>1. i \in 1..n /\ i \in 0..n /\ i - 1 \in 0..n BY <1>12 DEF READ_BUFFER_SIZE
  <2>2. end[i] \in Nat /\ end[i] <= 1200 * i + 800 BY <1>11, <2>1
  <2>3. end[i - 1] \in Nat BY <1>11, <2>1
  <2>4. PICK t \in Nat : t = end[i] /\ t <= 1200 * i + 800 BY <2>2
  <2>5. PICK p \in Nat : p = l[i].high BY <1>2, <2>1
  <2>6. p <= t
    <3>1. end[i] = end[i - 1] + l[i].low + l[i].high /\ l[i].low \in Nat BY <1>2, <1>10, <2>1
    <3> QED BY <2>3, <2>4, <2>5, <3>1
  <2>7. t <= 59970 BY <1>1, <2>1, <2>4
  <2>8. p <= 260 \/ p >= 700 BY <1>1, <2>1, <2>5 DEF Pulses, Bounded
  <2>9. /\ p >= 700 => Samples(t, s) - Samples(t - p, s) > 18
        /\ p <= 260 => ~ (Samples(t, s) - Samples(t - p, s) > 18)
        /\ Samples(t, s) <= 3998
    BY <2>6, <2>7, PulseSamples DEF Separates
  <2>10. Seen BY <1>12, <2>4, <2>9 DEF MAX_READ_TIME
  <2>11. High > DATA_BIT_HIGH_THRESHOLD <=> p >= 700
    BY <2>4, <2>5, <2>8, <2>9 DEF DATA_BIT_HIGH_THRESHOLD
  <2> HIDE DEF Seen, High
  <2> QED BY <1>1, <1>9, <1>12, <2>5, <2>10, <2>11
<1>13. CASE ~ (i <= n)
  <2>1. ~ Seen BY <1>13
  <2> HIDE DEF Seen, High
  <2> QED BY <1>1, <1>9, <1>13, <2>1
<1> QED BY <1>12, <1>13

\* The same for the sequence.
Decodes(d, l, m) ==
  /\ d \in [1..m -> {0, 1}]
  /\ \A i \in 1..m : d[i] = 1 <=> i <= Len(l) /\ l[i].high >= 700

LEMMA Decoded ==
  ASSUME NEW s, Separates(s), NEW l, Pulses(l), NEW m, m = READ_BUFFER_SIZE
  PROVE  Decodes(DecodedBits(l, s), l, m)
<1>1. PICK d : d = DecodedBits(l, s) OBVIOUS
<1>2. d = [i \in 1..m |-> d[i]] BY <1>1 DEF DecodedBits
<1>3. \A i \in 1..m : d[i] = IF i <= Len(l) /\ l[i].high >= 700 THEN 1 ELSE 0
  BY <1>1, DecodedBit
<1>4. ASSUME NEW i \in 1..m
      PROVE  d[i] \in {0, 1} /\ (d[i] = 1 <=> i <= Len(l) /\ l[i].high >= 700)
  BY <1>3
<1>5. d \in [1..m -> {0, 1}] BY <1>2, <1>4
<1> QED BY <1>1, <1>4, <1>5 DEF Decodes

\* The 40 bits of a frame: its humidity, its temperature and the sum.
IsFrame(c, h, t, n) ==
  /\ Len(c) = 40 /\ \A i \in Nat : 1 <= i /\ i <= 40 => c[i] \in {0, 1}
  /\ \A i \in 1..n : c[i] = h[i] /\ c[i + n] = t[i]

LEMMA DataBitsAre ==
  ASSUME NEW f, f.humidity \in Nat, f.temperature \in Nat, NEW n \in Nat, n = 16
  PROVE  IsFrame(DataBits(f), BitsOf(f.humidity, n), BitsOf(f.temperature, n), n)
<1> DEFINE sum == (f.humidity \div 256) + f.humidity + (f.temperature \div 256) + f.temperature
<1>2. sum % 256 \in Nat
  <2>1. f.humidity \div 256 \in Nat /\ f.temperature \div 256 \in Nat OBVIOUS
  <2>2. sum \in Nat BY <2>1
  <2> QED BY <2>2
<1> HIDE DEF sum
<1>3. PICK B : B = {0, 1} OBVIOUS
<1>4. PICK h : h = BitsOf(f.humidity, n) /\ h \in Seq(B) /\ Len(h) = n
  <2>1. BitsOf(f.humidity, n) \in [1..n -> B] BY <1>3, BitsAre
  <2> QED BY <2>1, AsSequence
<1>5. PICK t : t = BitsOf(f.temperature, n) /\ t \in Seq(B) /\ Len(t) = n
  <2>1. BitsOf(f.temperature, n) \in [1..n -> B] BY <1>3, BitsAre
  <2> QED BY <2>1, AsSequence
<1>6. PICK c : c = BitsOf(sum % 256, 8) /\ c \in Seq(B) /\ Len(c) = 8
  <2>1. PICK m \in Nat : m = 8 OBVIOUS
  <2>2. BitsOf(sum % 256, m) \in [1..m -> B] BY <1>2, <1>3, BitsAre
  <2>3. PICK c : c = BitsOf(sum % 256, m) OBVIOUS
  <2>4. c \in Seq(B) /\ Len(c) = m BY <2>2, <2>3, AsSequence
  <2> QED BY <2>1, <2>3, <2>4
<1>7. DataBits(f) = (h \o t) \o c
  <2>1. DataBits(f) = BitsOf(f.humidity, 16) \o BitsOf(f.temperature, 16) \o BitsOf(sum % 256, 8)
    BY DEF DataBits, sum
  <2> QED BY <1>4, <1>5, <1>6, <2>1
<1>8. PICK a : a = h \o t OBVIOUS
<1>9. PICK d : d = a \o c OBVIOUS
<1>13. /\ a \in Seq(B) /\ Len(a) = n + n
       /\ \A i \in 1..n : a[i] = h[i] /\ a[i + n] = t[i]
  <2>1. IsJoined(a, h, t, B) BY <1>4, <1>5, <1>8, Joined
  <2> QED BY <1>4, <1>5, <2>1 DEF IsJoined
<1>14. /\ d \in Seq(B) /\ Len(d) = (n + n) + 8
       /\ \A i \in 1..(n + n) : d[i] = a[i]
  <2>1. IsJoined(d, a, c, B) BY <1>6, <1>9, <1>13, Joined
  <2> QED BY <1>6, <1>13, <2>1 DEF IsJoined
<1>10. \A i \in 1..n : d[i] = h[i] /\ d[i + n] = t[i]
  <2>1. \A i \in 1..n : i \in 1..(n + n) /\ i + n \in 1..(n + n) OBVIOUS
  <2> QED BY <1>13, <1>14, <2>1
<1>11. DataBits(f) = d BY <1>7, <1>8, <1>9
<1>12. Len(d) = 40 BY <1>14
<1>15. ASSUME NEW i \in Nat, 1 <= i, i <= 40 PROVE d[i] \in {0, 1}
  <2>1. d \in [1..Len(d) -> B] BY <1>14, AsFunction
  <2>2. i \in 1..Len(d) BY <1>12, <1>15
  <2> QED BY <1>3, <2>1, <2>2
<1>16. IsFrame(d, h, t, n) BY <1>10, <1>12, <1>15 DEF IsFrame
<1> QED BY <1>4, <1>5, <1>11, <1>16

\* The line of a frame, whether or not the sensor is slow.
IsLine(l, c, k) ==
  /\ Pulses(l) /\ Len(l) = 40 + k /\ l[k].high = 800
  /\ \A i \in Nat : 1 <= i /\ i <= 40 => (l[i + k].high >= 700 <=> c[i] = 1)

LEMMA LineIs ==
  ASSUME NEW f, NEW slow \in BOOLEAN, NEW k, k = IF slow THEN 2 ELSE 1
  PROVE  IsLine(Line(f, slow), DataBits(f), k)
<1>1. PICK n \in Nat : n = 40 OBVIOUS
<1>2. PICK d : d = DataBits(f) OBVIOUS
<1>4. \A x, y \in Nat : /\ Pulse(x, y) \in AnyPulse
                        /\ Pulse(x, y).low = x /\ Pulse(x, y).high = y
  BY DEF Pulse, AnyPulse
<1> HIDE DEF Pulse
<1> DEFINE a == IF slow THEN <<Pulse(0, 200), Pulse(800, 800)>> ELSE <<Pulse(400, 800)>>
<1>3. a = IF slow THEN <<Pulse(0, 200), Pulse(800, 800)>> ELSE <<Pulse(400, 800)>>
  OBVIOUS
<1> HIDE DEF a
<1>5. /\ a \in Seq(AnyPulse) /\ Len(a) = k /\ k \in {1, 2}
      /\ \A i \in 1..k : a[i].low + a[i].high <= 1600 /\ (a[i].high <= 260 \/ a[i].high >= 700)
      /\ a[k].high = 800
  <2>1. CASE slow
    <3>1. PICK x \in AnyPulse : x = Pulse(0, 200) /\ x.low = 0 /\ x.high = 200 BY <1>4
    <3>2. PICK y \in AnyPulse : y = Pulse(800, 800) /\ y.low = 800 /\ y.high = 800 BY <1>4
    <3>3. k = 2 /\ a = <<x, y>> BY <1>3, <2>1, <3>1, <3>2
    <3>4. a \in Seq(AnyPulse) /\ Len(a) = 2 /\ a[1] = x /\ a[2] = y BY <3>3
    <3>5. \A i \in 1..k : i = 1 \/ i = 2 BY <3>3
    <3> QED BY <3>1, <3>2, <3>3, <3>4, <3>5
  <2>2. CASE ~ slow
    <3>1. PICK x \in AnyPulse : x = Pulse(400, 800) /\ x.low = 400 /\ x.high = 800 BY <1>4
    <3>2. k = 1 /\ a = <<x>> BY <1>3, <2>2, <3>1
    <3>3. a \in Seq(AnyPulse) /\ Len(a) = 1 /\ a[1] = x BY <3>2
    <3>4. \A i \in 1..k : i = 1 BY <3>2
    <3> QED BY <3>1, <3>2, <3>3, <3>4
  <2> QED BY <2>1, <2>2
<1>14. PICK b : b = [i \in 1..n |-> Pulse(500, IF d[i] = 1 THEN 700 ELSE 260)] OBVIOUS
<1>6. /\ b \in Seq(AnyPulse) /\ Len(b) = n
      /\ \A i \in 1..n : /\ b[i].low = 500 /\ (b[i].high = 700 \/ b[i].high = 260)
                         /\ b[i].high = 700 <=> d[i] = 1
  <2>1. ASSUME NEW i \in 1..n
        PROVE  /\ b[i] \in AnyPulse /\ b[i].low = 500 /\ (b[i].high = 700 \/ b[i].high = 260)
               /\ b[i].high = 700 <=> d[i] = 1
    <3>1. PICK h \in Nat : h = IF d[i] = 1 THEN 700 ELSE 260 OBVIOUS
    <3>2. b[i] = Pulse(500, h) BY <1>14, <3>1
    <3>3. b[i] \in AnyPulse /\ b[i].low = 500 /\ b[i].high = h BY <1>4, <3>2
    <3> QED BY <3>1, <3>3
  <2>2. b \in [1..n -> AnyPulse] BY <1>14, <2>1
  <2>3. b \in Seq(AnyPulse) /\ Len(b) = n BY <2>2, AsSequence
  <2> QED BY <2>1, <2>3
<1>15. PICK l : l = a \o b OBVIOUS
<1>7. /\ l \in Seq(AnyPulse) /\ Len(l) = k + n
      /\ \A i \in 1..k : l[i] = a[i]
      /\ \A i \in 1..n : l[i + k] = b[i]
  <2>1. a \in Seq(AnyPulse) /\ Len(a) = k /\ b \in Seq(AnyPulse) /\ Len(b) = n BY <1>5, <1>6
  <2>2. IsJoined(l, a, b, AnyPulse) BY <1>15, <2>1, Joined
  <2> QED BY <2>1, <2>2 DEF IsJoined
<1>8. ASSUME NEW i \in 1..(k + n)
      PROVE  Bounded(l[i], i)
  <2>1. CASE i \in 1..k
    <3>1. l[i].low + l[i].high <= 1600 /\ (l[i].high <= 260 \/ l[i].high >= 700)
      BY <1>5, <1>7, <2>1
    <3>2. i <= 2 BY <1>5, <2>1
    <3> QED BY <3>1, <3>2 DEF Bounded
  <2>2. CASE i \notin 1..k
    <3>1. PICK j \in 1..n : j + k = i
      <4>1. i - k \in 1..n /\ (i - k) + k = i BY <1>5, <2>2
      <4> QED BY <4>1
    <3>2. l[i] = b[j] BY <1>7, <3>1
    <3>3. b[j].low = 500 /\ (b[j].high = 700 \/ b[j].high = 260) BY <1>6
    <3> QED BY <3>2, <3>3 DEF Bounded
  <2> QED BY <2>1, <2>2
<1>9. Len(l) = 40 + k BY <1>1, <1>5, <1>7
<1>10. Pulses(l)
  <2>1. Len(l) <= 42 BY <1>5, <1>9
  <2>2. l \in Seq(AnyPulse) BY <1>7
  <2>3. \A i \in 1..Len(l) : Bounded(l[i], i) BY <1>7, <1>8
  <2> QED BY <2>1, <2>2, <2>3 DEF Pulses
<1>11. \A i \in 1..n : l[i + k].high >= 700 <=> d[i] = 1
  <2> SUFFICES ASSUME NEW i \in 1..n PROVE l[i + k].high >= 700 <=> d[i] = 1 OBVIOUS
  <2>1. l[i + k] = b[i] BY <1>7
  <2>2. (b[i].high = 700 \/ b[i].high = 260) /\ (b[i].high = 700 <=> d[i] = 1) BY <1>6
  <2> QED BY <2>1, <2>2
<1>16. \A i \in Nat : 1 <= i /\ i <= 40 => (l[i + k].high >= 700 <=> d[i] = 1) BY <1>1, <1>11
<1>12. l[k].high = 800 BY <1>5, <1>7
<1>13. Line(f, slow) = l
  <2>1. Line(f, slow) =
          (IF slow THEN <<Pulse(0, 200), Pulse(800, 800)>> ELSE <<Pulse(400, 800)>>)
          \o [i \in 1..n |-> Pulse(500, IF d[i] = 1 THEN 700 ELSE 260)]
    BY <1>1, <1>2 DEF Line
  <2> QED BY <1>3, <1>14, <1>15, <2>1
<1>17. IsLine(l, d, k) BY <1>9, <1>10, <1>12, <1>16 DEF IsLine
<1> QED BY <1>2, <1>13, <1>17

\* A part of a sequence.
IsPart(r, q, a, k, S) ==
  r \in Seq(S) /\ Len(r) = k /\ \A i \in 1..k : r[i] = q[a + i - 1]

LEMMA PartOf ==
  ASSUME NEW S, NEW q \in Seq(S), NEW a \in Nat \ {0}, NEW b \in Nat, a <= b, b <= Len(q),
         NEW k, k = b - a + 1
  PROVE  IsPart(SubSeq(q, a, b), q, a, k, S)
BY DEF IsPart

\* Sequences with the same elements.
LEMMA SameElements ==
  ASSUME NEW S, NEW p \in Seq(S), NEW q \in Seq(S), Len(p) = Len(q),
         \A i \in 1..Len(p) : p[i] = q[i]
  PROVE  p = q
OBVIOUS

\* The bits of a number of a frame, and the pulses that are decoded.
Lengths(n, m) == n = 16 /\ m = 42

\* The first four bits of a humidity up to 100 % are 0.
LEMMA HumidityBits ==
  ASSUME NEW v \in Nat, NEW n \in Nat, Lengths(n, 42), NEW b, b = BitsOf(v, n)
  PROVE  v <= 1000 => b[1] = 0 /\ b[2] = 0 /\ b[3] = 0 /\ b[4] = 0
<1>1. PICK h : h = Halves(v, n) OBVIOUS
<1>2. /\ h \in [0..n -> Nat] /\ h[0] = v /\ b \in [1..n -> {0, 1}]
      /\ \A i \in 1..n : h[n - i] = 2 * h[n - i + 1] + b[i]
  BY <1>1, BitsAre
<1>9. n = 16 BY DEF Lengths
<1>3. v < 65536 /\ v < 1024 => h[16] = 0 /\ h[12] = 0 /\ h[13] = 0 /\ h[14] = 0 /\ h[15] = 0
  BY <1>1, <1>9, HalvedToNothing
<1>10. \A i \in Nat : 1 <= i /\ i <= n => i \in 1..n OBVIOUS
<1>11. 1 \in 1..n /\ 2 \in 1..n /\ 3 \in 1..n /\ 4 \in 1..n BY <1>9, <1>10
<1>12. /\ n - 1 = 15 /\ n - 1 + 1 = 16 /\ n - 2 = 14 /\ n - 2 + 1 = 15
       /\ n - 3 = 13 /\ n - 3 + 1 = 14 /\ n - 4 = 12 /\ n - 4 + 1 = 13 BY <1>9
<1>4. h[15] = 2 * h[16] + b[1] BY <1>2, <1>11, <1>12
<1>5. h[14] = 2 * h[15] + b[2] BY <1>2, <1>11, <1>12
<1>6. h[13] = 2 * h[14] + b[3] BY <1>2, <1>11, <1>12
<1>7. h[12] = 2 * h[13] + b[4] BY <1>2, <1>11, <1>12
<1>8. b[1] \in {0, 1} /\ b[2] \in {0, 1} /\ b[3] \in {0, 1} /\ b[4] \in {0, 1} BY <1>2, <1>11
<1> QED BY <1>3, <1>4, <1>5, <1>6, <1>7, <1>8

\* The five bits of checksum do not add up when the first is 1 and the others are 0.
LEMMA ShiftIsRefused ==
  ASSUME NEW d, d[2] = 1, d[3] = 0, d[4] = 0, d[5] = 0, d[6] = 0
  PROVE  ~ Checksum(d)
BY DEF Checksum

\* The bits that set_dht takes for the humidity and for the temperature.
Reads(d, h, t) == d[2] = 0 /\ <<0>> \o SubSeq(d, 3, 17) = h /\ SubSeq(d, 18, 33) = t

\* What is decoded from the line of bits h of a humidity and t of a temperature: a checksum that
\* holds shows that the sensor was not slow (k = 1), and then each bit is in its place.
LEMMA LineRead ==
  ASSUME NEW n \in Nat, NEW k \in {1, 2}, NEW l, NEW c,
         NEW h \in [1..n -> {0, 1}], NEW t \in [1..n -> {0, 1}],
         NEW m \in Nat, Lengths(n, m), NEW d,
         IsLine(l, c, k), IsFrame(c, h, t, n), Decodes(d, l, m), Checksum(d),
         h[1] = 0, h[2] = 0, h[3] = 0, h[4] = 0
  PROVE  Reads(d, h, t)
<1>1. /\ Len(l) = 40 + k /\ l[k].high = 800
      /\ \A i \in Nat : 1 <= i /\ i <= 40 => (l[i + k].high >= 700 <=> c[i] = 1)
  BY DEF IsLine
<1>2. /\ \A i \in Nat : 1 <= i /\ i <= 40 => c[i] \in {0, 1}
      /\ \A i \in 1..n : c[i] = h[i] /\ c[i + n] = t[i]
  BY DEF IsFrame
<1>3. d \in [1..m -> {0, 1}] /\ \A i \in 1..m : d[i] = 1 <=> i <= Len(l) /\ l[i].high >= 700
  BY DEF Decodes
<1>4. d[k] = 1
  <2>1. k \in 1..m /\ k <= Len(l)
    <3>1. k <= Len(l) BY <1>1
    <3>2. 1 <= k /\ k <= m BY DEF Lengths
    <3> QED BY <3>1, <3>2
  <2>2. l[k].high >= 700 BY <1>1
  <2> QED BY <1>3, <2>1, <2>2
<1>5. ASSUME NEW i \in Nat, 1 <= i, i <= 40 PROVE d[i + k] = c[i]
  <2>1. i + k \in 1..m /\ i + k <= Len(l) BY <1>1, <1>5 DEF Lengths
  <2>2. d[i + k] = 1 <=> l[i + k].high >= 700 BY <1>3, <2>1
  <2>3. d[i + k] \in {0, 1} BY <1>3, <2>1
  <2>4. c[i] \in {0, 1} BY <1>2, <1>5
  <2>5. l[i + k].high >= 700 <=> c[i] = 1 BY <1>1, <1>5
  <2> QED BY <2>2, <2>3, <2>4, <2>5
<1>6. c[1] = 0 /\ c[2] = 0 /\ c[3] = 0 /\ c[4] = 0
  <2>1. 1 \in 1..n /\ 2 \in 1..n /\ 3 \in 1..n /\ 4 \in 1..n BY DEF Lengths
  <2> QED BY <1>2, <2>1
<1>7. k = 1
  <2> SUFFICES ASSUME k = 2 PROVE FALSE OBVIOUS
  <2>1. d[2] = 1 BY <1>4
  <2>2. d[1 + k] = c[1] /\ d[2 + k] = c[2] /\ d[3 + k] = c[3] /\ d[4 + k] = c[4] BY <1>5
  <2>3. 1 + k = 3 /\ 2 + k = 4 /\ 3 + k = 5 /\ 4 + k = 6 OBVIOUS
  <2>4. d[3] = 0 /\ d[4] = 0 /\ d[5] = 0 /\ d[6] = 0 BY <1>6, <2>2, <2>3
  <2> QED BY <2>1, <2>4, ShiftIsRefused
<1>8. ASSUME NEW i \in Nat, 1 <= i, i <= 40 PROVE d[i + 1] = c[i] BY <1>5, <1>7, <1>8
<1> DEFINE B == {0, 1}
<1>9. d \in Seq(B) /\ Len(d) = m BY <1>3, AsSequence
<1>10. d[2] = 0
  <2>1. d[1 + 1] = c[1] BY <1>8
  <2> QED BY <1>6, <2>1
<1>11. h \in [1..n -> B] /\ t \in [1..n -> B] /\ 0 \in B OBVIOUS
<1> HIDE DEF B
<1>12. <<0>> \o SubSeq(d, 3, 17) = h
  <2>1. PICK z : z = <<0>> OBVIOUS
  <2>2. z \in Seq(B) /\ Len(z) = 1 /\ z[1] = 0 BY <1>11, <2>1
  <2>3. PICK r : r = SubSeq(d, 3, 17) OBVIOUS
  <2>4. r \in Seq(B) /\ Len(r) = n - 1 /\ \A i \in 1..(n - 1) : r[i] = d[3 + i - 1]
    <3>1. 3 \in Nat \ {0} /\ 17 \in Nat /\ 3 <= 17 /\ 17 <= Len(d) /\ n - 1 = 17 - 3 + 1
      BY <1>9 DEF Lengths
    <3>2. IsPart(r, d, 3, n - 1, B) BY <1>9, <2>3, <3>1, PartOf
    <3> QED BY <3>2 DEF IsPart
  <2>5. PICK q : q = z \o r OBVIOUS
  <2>6. q \in Seq(B) /\ Len(q) = n /\ q[1] = z[1] /\ \A i \in 1..(n - 1) : q[i + 1] = r[i]
    <3>1. IsJoined(q, z, r, B) BY <2>2, <2>4, <2>5, Joined
    <3> QED BY <2>2, <2>4, <3>1 DEF IsJoined
  <2>7. ASSUME NEW i \in 1..n PROVE q[i] = h[i]
    <3>1. CASE i = 1 BY <2>2, <2>6, <3>1
    <3>2. CASE i # 1
      <4>1. PICK j \in 1..(n - 1) : j + 1 = i
        <5>1. i - 1 \in 1..(n - 1) /\ (i - 1) + 1 = i BY <3>2
        <5> QED BY <5>1
      <4>2. q[i] = r[j] /\ r[j] = d[3 + j - 1] BY <2>4, <2>6, <4>1
      <4>3. 3 + j - 1 = i + 1 /\ 1 <= i /\ i <= 40 BY <4>1 DEF Lengths
      <4>4. d[i + 1] = c[i] BY <1>8, <4>3
      <4>5. c[i] = h[i] BY <1>2
      <4> QED BY <4>2, <4>3, <4>4, <4>5
    <3> QED BY <3>1, <3>2
  <2>8. h \in Seq(B) /\ Len(h) = n BY <1>11, AsSequence
  <2>9. q = h BY <2>6, <2>7, <2>8, SameElements
  <2> QED BY <2>1, <2>3, <2>5, <2>9
<1>13. SubSeq(d, 18, 33) = t
  <2>1. PICK r : r = SubSeq(d, 18, 33) OBVIOUS
  <2>2. r \in Seq(B) /\ Len(r) = n /\ \A i \in 1..n : r[i] = d[18 + i - 1]
    <3>1. 18 \in Nat \ {0} /\ 33 \in Nat /\ 18 <= 33 /\ 33 <= Len(d) /\ n = 33 - 18 + 1
      BY <1>9 DEF Lengths
    <3>2. IsPart(r, d, 18, n, B) BY <1>9, <2>1, <3>1, PartOf
    <3> QED BY <3>2 DEF IsPart
  <2>3. ASSUME NEW i \in 1..n PROVE r[i] = t[i]
    <3>1. 18 + i - 1 = (i + n) + 1 /\ i + n \in Nat /\ 1 <= i + n /\ i + n <= 40
      BY DEF Lengths
    <3>2. d[(i + n) + 1] = c[i + n] BY <1>8, <3>1
    <3> QED BY <1>2, <2>2, <3>1, <3>2
  <2>4. t \in Seq(B) /\ Len(t) = n BY <1>11, AsSequence
  <2>5. r = t BY <2>2, <2>3, <2>4, SameElements
  <2> QED BY <2>1, <2>5
<1> QED BY <1>10, <1>12, <1>13 DEF Reads

\* What the sensor measures: at most 100 % of humidity, and 16 bits of temperature.
Measured(f) ==
  /\ f.humidity \in Nat /\ f.humidity <= 1000
  /\ f.temperature \in Nat /\ f.temperature < 65536

\* A frame that the checksum lets through is reported as what was measured, without a sign.
LEMMA FrameRead ==
  ASSUME NEW f, Measured(f), NEW slow \in BOOLEAN, NEW s, Separates(s),
         NEW d, d = DecodedBits(Line(f, slow), s), Checksum(d)
  PROVE  /\ d[2] = 0 /\ ValueOf(<<0>> \o SubSeq(d, 3, 17)) = f.humidity
         /\ ValueOf(SubSeq(d, 18, 33)) = f.temperature
<1>1. PICK n \in Nat : n = 16 OBVIOUS
<1>2. PICK k \in {1, 2} : k = IF slow THEN 2 ELSE 1 OBVIOUS
<1>3. PICK h : h = BitsOf(f.humidity, n) OBVIOUS
<1>4. PICK t : t = BitsOf(f.temperature, n) OBVIOUS
<1>5. f.humidity \in Nat /\ f.temperature \in Nat BY DEF Measured
<1>6. PICK m \in Nat : m = READ_BUFFER_SIZE /\ m = 42 BY DEF READ_BUFFER_SIZE
<1>7. IsLine(Line(f, slow), DataBits(f), k) BY <1>2, LineIs
<1>8. IsFrame(DataBits(f), h, t, n) BY <1>1, <1>3, <1>4, <1>5, DataBitsAre
<1>9. h \in [1..n -> {0, 1}] /\ t \in [1..n -> {0, 1}] BY <1>3, <1>4, <1>5, BitsAre
<1>10. Decodes(d, Line(f, slow), m)
  <2>1. Pulses(Line(f, slow)) BY <1>7 DEF IsLine
  <2> QED BY <1>6, <2>1, Decoded
<1>11. h[1] = 0 /\ h[2] = 0 /\ h[3] = 0 /\ h[4] = 0
  <2>1. f.humidity <= 1000 BY DEF Measured
  <2>2. Lengths(n, 42) BY <1>1 DEF Lengths
  <2> QED BY <1>3, <1>5, <2>1, <2>2, HumidityBits
<1>15. Lengths(n, m) BY <1>1, <1>6 DEF Lengths
<1>16. PICK l : l = Line(f, slow) OBVIOUS
<1>17. PICK c : c = DataBits(f) OBVIOUS
<1>12. Reads(d, h, t)
  <2>1. IsLine(l, c, k) /\ IsFrame(c, h, t, n) /\ Decodes(d, l, m)
    BY <1>7, <1>8, <1>10, <1>16, <1>17
  <2> QED BY <2>1, <1>9, <1>11, <1>15, LineRead
<1>13. ValueOf(h) = f.humidity
  <2>1. PICK g : g = Halves(f.humidity, n) OBVIOUS
  <2>2. g[n] = 0 BY <1>1, <2>1, HalvedToNothing DEF Measured
  <2> QED BY <1>3, <1>5, <2>1, <2>2, ValueOfBits
<1>14. ValueOf(t) = f.temperature
  <2>1. PICK g : g = Halves(f.temperature, n) OBVIOUS
  <2>2. g[n] = 0 BY <1>1, <2>1, HalvedToNothing DEF Measured
  <2> QED BY <1>4, <1>5, <2>1, <2>2, ValueOfBits
<1> QED BY <1>12, <1>13, <1>14 DEF Reads

\* What sprintf takes for a number.
LEMMA DigitsAre ==
  ASSUME NEW n \in Nat, n < 100000
  PROVE  /\ Digits(n) \in 1..5
         /\ n < 1000 => Digits(n) <= 3
         /\ n < 10000 => Digits(n) <= 4
<1> DEFINE P(k) == n < Tens[k] /\ (k = 1 \/ n >= Tens[k - 1])
<1>1. /\ Tens[1] = 10 /\ Tens[2] = 100 /\ Tens[3] = 1000 /\ Tens[4] = 10000 /\ Tens[5] = 100000
  BY DEF Tens
<1>2. \E k \in 1..5 : P(k)
  <2>1. CASE n < 10 BY <1>1, <2>1
  <2>2. CASE n >= 10 /\ n < 100 BY <1>1, <2>2
  <2>3. CASE n >= 100 /\ n < 1000 BY <1>1, <2>3
  <2>4. CASE n >= 1000 /\ n < 10000 BY <1>1, <2>4
  <2>5. CASE n >= 10000 BY <1>1, <2>5
  <2> QED BY <2>1, <2>2, <2>3, <2>4, <2>5
<1>3. PICK k : k = Digits(n) OBVIOUS
<1>4. k \in 1..5 /\ P(k)
  <2> HIDE DEF P
  <2>1. Digits(n) = CHOOSE j \in 1..5 : P(j) BY DEF Digits, P
  <2> QED BY <1>2, <1>3, <2>1
<1>5. k = 1 \/ k = 2 \/ k = 3 \/ k = 4 \/ k = 5 BY <1>4
<1>6. k = 4 => n >= 1000 BY <1>1, <1>4
<1>7. k = 5 => n >= 10000 BY <1>1, <1>4
<1> QED BY <1>3, <1>4, <1>5, <1>6, <1>7

\* What may be sent is what the sensor measures.
LEMMA FramesAreMeasured ==
  ASSUME NEW f \in Frames
  PROVE  Measured(f)
BY DriverAssumption DEF Measured

\* The text of a reading without a sign fits, but for 100.0 % and a temperature of five digits.
Fits(d, f) ==
  \/ ReplySize(d) <= REPLY_BUFFER_SIZE
  \/ f.humidity = 1000 /\ f.temperature >= 10000

Shows(d, f) ==
  /\ d.humidity = f.humidity /\ d.temperature = f.temperature /\ ~ d.negative
  /\ Fits(d, f)

LEMMA FrameFits ==
  ASSUME NEW f, Measured(f), NEW d,
         d.humidity = f.humidity, d.temperature = f.temperature, ~ d.negative
  PROVE  Fits(d, f)
<1>1. PICK h \in Nat : h = f.humidity /\ h <= 1000 BY DEF Measured
<1>2. PICK t \in Nat : t = f.temperature /\ t < 65536 BY DEF Measured
<1>3. PICK x : x = Digits(h) OBVIOUS
<1>4. PICK y : y = Digits(t) OBVIOUS
<1>5. x \in 1..5 /\ (h < 1000 => x <= 3) /\ x <= 4
  <2>1. h < 10000 /\ h < 100000 BY <1>1
  <2> QED BY <1>3, <2>1, DigitsAre
<1>6. y \in 1..5 /\ (t < 10000 => y <= 4)
  <2>1. t < 100000 BY <1>2
  <2> QED BY <1>4, <2>1, DigitsAre
<1>7. ReplySize(d) = x + 1 + 0 + y + 1 BY <1>1, <1>2, <1>3, <1>4 DEF ReplySize
<1>8. x + 1 + 0 + y + 1 <= 10 \/ (h = 1000 /\ t >= 10000) BY <1>1, <1>2, <1>5, <1>6
<1> QED BY <1>1, <1>2, <1>7, <1>8 DEF Fits, REPLY_BUFFER_SIZE

\* The sign stays off while the PWM disturbs no reading; nothing else sets it.
SensorInv ==
  /\ reading # NoFrame /\ ~ disturbed => Shows(dht, reading)
  /\ ~ disturbed => ~ dht.negative

\* A reading that nothing disturbs.
LEMMA CaptureRead ==
  ASSUME Periods \subseteq {s \in Nat : Separates(s)}, ~ dht.negative,
         NEW c \in Captures, Checksum(c.bits)
  PROVE  Shows(Reported(c.bits), c.frame)
<1>1. PICK f \in Frames, slow \in BOOLEAN, s \in Periods :
        c = [frame |-> f, bits |-> DecodedBits(Line(f, slow), s)]
  BY DEF Captures, Captured
<1>2. PICK d : d = DecodedBits(Line(f, slow), s) OBVIOUS
<1>3. c.frame = f /\ c.bits = d BY <1>1, <1>2
<1>4. Measured(f) BY FramesAreMeasured
<1>5. /\ d[2] = 0 /\ ValueOf(<<0>> \o SubSeq(d, 3, 17)) = f.humidity
      /\ ValueOf(SubSeq(d, 18, 33)) = f.temperature
  <2>1. Separates(s) OBVIOUS
  <2>2. Checksum(d) BY <1>3
  <2> QED BY <1>2, <1>4, <2>1, <2>2, FrameRead
<1>6. PICK r : r = Reported(d) OBVIOUS
<1>7. r.humidity = f.humidity /\ r.temperature = f.temperature /\ ~ r.negative
  <2>1. PICK x : x = ValueOf(<<0>> \o SubSeq(d, 3, 17)) OBVIOUS
  <2>2. PICK y : y = ValueOf(SubSeq(d, 18, 33)) OBVIOUS
  <2>3. PICK z \in BOOLEAN : z = (dht.negative \/ d[2] = 1) OBVIOUS
  <2>4. r = [humidity |-> x, temperature |-> y, negative |-> z]
    BY <1>6, <2>1, <2>2, <2>3 DEF Reported
  <2>5. ~ z
    <3>1. ~ (d[2] = 1) BY <1>5
    <3> QED BY <2>3, <3>1
  <2>6. x = f.humidity /\ y = f.temperature BY <1>5, <2>1, <2>2
  <2> QED BY <2>4, <2>5, <2>6
<1>8. Fits(r, f) BY <1>4, <1>7, FrameFits
<1> QED BY <1>3, <1>6, <1>7, <1>8 DEF Shows

LEMMA SensorStep ==
  ASSUME Periods \subseteq {s \in Nat : Separates(s)}, SensorInv, [DriverNext]_driverVars
  PROVE  SensorInv'
<1>1. ASSUME UNCHANGED sensorVars PROVE SensorInv'
  BY <1>1 DEF SensorInv, sensorVars, Shows, Fits, ReplySize
<1>2. CASE SetType
  BY <1>1, <1>2 DEF SetType, InitOf, HeaterInit, LightingInit
<1>3. CASE DeviceInit
  BY <1>1, <1>3 DEF DeviceInit, InitOf, HeaterInit, LightingInit
<1>4. CASE HeaterTurnOn BY <1>1, <1>4 DEF HeaterTurnOn
<1>5. CASE HeaterTurnOff BY <1>1, <1>5 DEF HeaterTurnOff
<1>6. CASE LightingDim BY <1>1, <1>6 DEF LightingDim
<1>7. CASE TemperatureGet
  <2>1. CASE disturbed' BY <2>1 DEF SensorInv
  <2>2. CASE ~ disturbed'
    <3>1. ~ disturbed /\ pwm = Off BY <1>7, <2>2 DEF TemperatureGet
    <3>2. ~ dht.negative BY <3>1 DEF SensorInv
    <3>3. PICK c \in Captures :
            IF Checksum(c.bits)
            THEN dht' = Reported(c.bits) /\ reading' = c.frame
            ELSE dht' = dht /\ reading' = NoFrame
      BY <1>7, <3>1 DEF TemperatureGet
    <3>4. CASE Checksum(c.bits)
      <4>1. Shows(dht', reading') BY <3>2, <3>3, <3>4, CaptureRead
      <4> QED BY <4>1 DEF SensorInv, Shows, Fits, ReplySize
    <3>5. CASE ~ Checksum(c.bits) BY <3>2, <3>3, <3>5 DEF SensorInv
    <3> QED BY <3>4, <3>5
  <2> QED BY <2>1, <2>2
<1>8. CASE DriverRestart
  BY <1>8 DEF DriverRestart, SensorInv, ZeroDht
<1>9. CASE UNCHANGED driverVars BY <1>1, <1>9 DEF driverVars
<1> QED BY <1>2, <1>3, <1>4, <1>5, <1>6, <1>7, <1>8, <1>9 DEF DriverNext

\* ReadingIsFrame: at the speeds of the sampling loop for which the threshold of 18 samples tells
\* a short pulse from a long one, what is reported is what the sensor sent (temperature.c:40-182).
THEOREM DriverReading ==
  ASSUME Periods \subseteq 15..36
  PROVE  DriverSpec => []ReadingIsFrame
<1>1. Periods \subseteq {s \in Nat : Separates(s)} BY DEF Separates
<1>2. DriverInit => SensorInv BY DEF DriverInit, SensorInv, ZeroDht
<1>3. SensorInv /\ [DriverNext]_driverVars => SensorInv' BY <1>1, SensorStep
<1>4. SensorInv => ReadingIsFrame BY DEF SensorInv, ReadingIsFrame, Shows, Fits
<1> QED BY <1>2, <1>3, <1>4, PTL DEF DriverSpec

-----------------------------------------------------------------------------
(* The list of the message queue: message_queue.c.                          *)
(*                                                                         *)
(* What Listed means for a step is proved by showing what it could be: a    *)
(* sequence along next that is the only one, as two would differ first at    *)
(* some place, and the block before that place has one successor.           *)

\* The blocks of s, and of s from its j-th on, and the block that s ends with.
Elems(s) == {s[i] : i \in 1..Len(s)}
Rest(s, j) == {s[i] : i \in {k \in 1..Len(s) : k >= j}}
Ends(s) == IF s = << >> THEN NULL ELSE s[Len(s)]

\* No block is in s twice.
Once(s) == \A i, j \in 1..Len(s) : s[i] = s[j] => i = j

\* What is reached from first on is a list of blocks that ends (STAILQ_FIRST, STAILQ_NEXT).
Proper == Listed \in Seq(Blocks) /\ IsList(Listed) /\ Once(Listed)

\* The pointers point to blocks; none was used while free unless a push was late.
ListTypes ==
  /\ live \subseteq Blocks
  /\ next \in [Blocks -> Blocks \union {NULL}]
  /\ first \in Blocks \union {NULL} /\ msg \in Blocks \union {NULL}
  /\ step \in {"none", "free", "next", "first", "last"}
  /\ late \in BOOLEAN
  /\ used \in BOOLEAN
  /\ ~late => ~used
  /\ step = "next" => msg # NULL
  /\ step # "none" => ret \in {NULL, "pushed", "refused"}

\* Outside a clearing there is a list of live blocks.  When no push was ever late they are
\* all the live blocks there are, and the pointer is to their end; otherwise it may be to
\* the head, which is how the next push loses those before it.
AtRest ==
  /\ Proper /\ Elems(Listed) \subseteq live
  /\ last # Ends(Listed) => late /\ last = NULL
  /\ ~late => live = Elems(Listed)

\* Before the second store of STAILQ_INIT the list may be empty with any end, or have
\* been begun anew.
BeforeLast ==
  /\ Proper /\ Elems(Listed) \subseteq live
  /\ Listed = << >> \/ last = Ends(Listed)
  /\ ~late => live = {} /\ Listed = << >>

\* In the loop msg is at the j-th message of the list that was there, and those before
\* prev are free.
AtFree(j) ==
  /\ msg = IF j <= Len(Listed) THEN Listed[j] ELSE NULL
  /\ prev = IF j = 1 THEN NULL ELSE Listed[j - 1]
  /\ Rest(Listed, j - 1) \subseteq live
  /\ ~late => live = Rest(Listed, j - 1)

AtNext(j) ==
  /\ j <= Len(Listed) /\ msg = Listed[j] /\ prev = Listed[j]
  /\ Rest(Listed, j) \subseteq live
  /\ ~late => live = Rest(Listed, j)

\* Once a message was pushed into the clearing, nothing is known of the loop.
Alone == ~late \/ ret = NULL

\* What every step of message_queue.c keeps.  It is inductive: it says where a clearing
\* is in the list, and what a late push may have left behind.
ListInv ==
  /\ ListTypes
  /\ step = "none" => AtRest
  /\ step = "free" /\ Alone => Proper /\ \E j \in 1..(Len(Listed) + 1) : AtFree(j)
  /\ step = "next" /\ Alone => Proper /\ \E j \in 1..(Len(Listed) + 1) : AtNext(j)
  /\ step = "first" /\ ~late => live = {}
  /\ step = "last" => BeforeLast

-----------------------------------------------------------------------------
(* Lists. *)

\* Two lists from first on are the same: otherwise their first difference would follow
\* one block.
LEMMA SameList ==
  ASSUME NEW s \in Seq(Blocks), NEW t \in Seq(Blocks), IsList(s), IsList(t)
  PROVE  s = t
<1>1. Len(s) \in Nat /\ Len(t) \in Nat OBVIOUS
<1> DEFINE D == {k \in Nat : k \in 1..Len(s) /\ k \in 1..Len(t) /\ s[k] # t[k]}
<1>2. D = {}
  <2> SUFFICES ASSUME D # {} PROVE FALSE OBVIOUS
  <2>1. PICK k \in D : \A i \in D : k <= i
    <3>1. D \subseteq Nat OBVIOUS
    <3> HIDE DEF D
    <3> QED BY <3>1, LeastNatural
  <2>2. k \in 1..Len(s) /\ k \in 1..Len(t) /\ s[k] # t[k] OBVIOUS
  <2>3. CASE k = 1
    <3>1. s # << >> /\ t # << >> BY <2>2
    <3> QED BY <2>2, <2>3, <3>1 DEF IsList
  <2>4. CASE k # 1
    <3>1. /\ k - 1 \in Nat /\ k - 1 \in 1..Len(s) /\ k - 1 \in 1..Len(t)
          /\ k - 1 # Len(s) /\ k - 1 # Len(t) /\ (k - 1) + 1 = k
      BY <1>1, <2>2, <2>4
    <3>2. k - 1 \notin D BY <2>1, <2>2
    <3>3. s[k - 1] = t[k - 1] BY <3>1, <3>2
    <3>4. next[s[k - 1]] = s[k] /\ next[t[k - 1]] = t[k] BY <3>1 DEF IsList
    <3> QED BY <2>2, <3>3, <3>4
  <2> QED BY <2>3, <2>4
<1>3. \A k \in Nat : k \in 1..Len(s) /\ k \in 1..Len(t) => s[k] = t[k]
  BY <1>2
<1> HIDE DEF D
<1>4. ASSUME NEW u \in Seq(Blocks), NEW v \in Seq(Blocks), IsList(u), IsList(v),
             Len(u) \in Nat, Len(v) \in Nat,
             \A k \in Nat : k \in 1..Len(u) /\ k \in 1..Len(v) => u[k] = v[k]
      PROVE  ~ (Len(u) < Len(v))
  <2> SUFFICES ASSUME Len(u) < Len(v) PROVE FALSE OBVIOUS
  <2> DEFINE n == Len(u)
  <2>1. n + 1 \in 1..Len(v) BY <1>4
  <2>2. v[n + 1] \in Blocks /\ v[n + 1] # NULL BY <2>1, ListAssumption
  <2>3. CASE n = 0
    <3>1. u = << >> /\ v # << >> BY <2>1, <2>3
    <3> QED BY <1>4, <2>2, <3>1 DEF IsList
  <2>4. CASE n # 0
    <3>1. n \in 1..Len(u) /\ n \in 1..Len(v) /\ n # Len(v) BY <1>4, <2>4
    <3>2. u[n] = v[n] BY <1>4, <3>1
    <3>3. next[u[n]] = NULL /\ next[v[n]] = v[n + 1] BY <1>4, <3>1 DEF IsList
    <3> QED BY <2>2, <3>2, <3>3
  <2> QED BY <2>3, <2>4
<1>5. ~ (Len(s) < Len(t)) BY <1>1, <1>3, <1>4
<1>6. ~ (Len(t) < Len(s))
  <2>1. \A k \in Nat : k \in 1..Len(t) /\ k \in 1..Len(s) => t[k] = s[k] BY <1>3
  <2> QED BY <1>1, <1>4, <2>1
<1>7. Len(s) = Len(t) BY <1>1, <1>5, <1>6
<1> QED BY <1>3, <1>7

\* A list without repetition is the one that Listed chooses: it is no longer than there
\* are blocks, and there is no other.
LEMMA ListedIs == \A s \in Seq(Blocks) : IsList(s) /\ Once(s) => Listed = s /\ Proper
<1> SUFFICES ASSUME NEW s \in Seq(Blocks), IsList(s), Once(s) PROVE Listed = s /\ Proper
  OBVIOUS
<1>1. Len(s) \in Nat /\ s \in [1..Len(s) -> Blocks] OBVIOUS
<1>2. Len(s) \in 0..Cardinality(Blocks)
  <2>1. IsFiniteSet(1..Len(s)) /\ Cardinality(1..Len(s)) = Len(s)
    BY <1>1, FS_Interval
  <2>2. IsInjective(s)
    BY <1>1 DEF Once, IsInjective
  <2>3. s \in Injection(1..Len(s), Blocks) BY <1>1, <2>2 DEF Injection
  <2>4. Cardinality(1..Len(s)) <= Cardinality(Blocks)
    BY <2>1, <2>3, ListAssumption, FS_Injection
  <2>5. Cardinality(Blocks) \in Nat BY ListAssumption, FS_CardinalityType
  <2> QED BY <1>1, <2>1, <2>4, <2>5
<1>3. s \in Lists BY <1>1, <1>2 DEF Lists
<1>4. Listed \in Lists BY <1>3 DEF Listed
<1>5. Listed \in Seq(Blocks) /\ IsList(Listed)
  <2>1. PICK k \in 0..Cardinality(Blocks) : Listed \in [1..k -> Blocks] BY <1>4 DEF Lists
  <2>2. k \in Nat
    <3>1. Cardinality(Blocks) \in Nat BY ListAssumption, FS_CardinalityType
    <3> QED BY <3>1
  <2>3. Listed \in Seq(Blocks) BY <2>1, <2>2
  <2> QED BY <1>4, <2>3 DEF Lists
<1>6. Listed = s BY <1>5, SameList
<1> QED BY <1>5, <1>6 DEF Proper

\* The same after a step.
LEMMA ListedIsNext == (\A s \in Seq(Blocks) : IsList(s) /\ Once(s) => Listed = s /\ Proper)'
  BY ListedIs, PTL

\* The list stays what it is as long as first and the next fields do.
LEMMA ListedStays ==
  ASSUME Proper, UNCHANGED <<next, first>>
  PROVE  Proper' /\ Listed' = Listed
<1> DEFINE s == Listed
<1>1. s \in Seq(Blocks) /\ IsList(s) /\ Once(s) BY DEF Proper
<1> HIDE DEF s
<1>2. PICK t \in Seq(Blocks) : t = s BY <1>1
<1>3. IsList(t) /\ Once(t) BY <1>1, <1>2
<1>4. IsList(t)' BY <1>3 DEF IsList
<1>5. Once(t)' BY <1>3 DEF Once
<1>6. Listed' = t /\ Proper' BY <1>4, <1>5, ListedIsNext
<1> QED BY <1>2, <1>6 DEF s

\* A block at the end of a list without it.
LEMMA AppendOnce ==
  ASSUME NEW s \in Seq(Blocks), Once(s), NEW b \in Blocks, b \notin Elems(s)
  PROVE  /\ Append(s, b) \in Seq(Blocks) /\ Once(Append(s, b))
         /\ Elems(Append(s, b)) = Elems(s) \union {b}
         /\ Append(s, b) # << >> /\ Ends(Append(s, b)) = b
<1> DEFINE a == Append(s, b)
<1>1. /\ a \in Seq(Blocks) /\ Len(s) \in Nat /\ Len(a) = Len(s) + 1
      /\ \A i \in 1..Len(s) : a[i] = s[i]
      /\ a[Len(s) + 1] = b
  OBVIOUS
<1> HIDE DEF a
<1>2. \A i \in 1..Len(a) : i \in 1..Len(s) \/ i = Len(s) + 1 BY <1>1
<1>3. \A i \in 1..Len(s) : s[i] # b BY DEF Elems
<1>4. Once(a) BY <1>1, <1>2, <1>3 DEF Once
<1>5. Elems(a) = Elems(s) \union {b} BY <1>1, <1>2 DEF Elems
<1>6. a # << >> /\ Ends(a) = b
  <2>1. a # << >> BY <1>1
  <2> QED BY <1>1, <2>1 DEF Ends
<1> QED BY <1>1, <1>4, <1>5, <1>6 DEF a

\* A list without its head.
LEMMA TailOnce ==
  ASSUME NEW s \in Seq(Blocks), s # << >>, Once(s)
  PROVE  /\ Tail(s) \in Seq(Blocks) /\ Once(Tail(s))
         /\ Elems(Tail(s)) = Elems(s) \ {s[1]}
         /\ Ends(Tail(s)) = IF Len(s) = 1 THEN NULL ELSE Ends(s)
<1> DEFINE a == Tail(s)
<1>1. /\ a \in Seq(Blocks) /\ Len(s) \in Nat \ {0} /\ Len(a) = Len(s) - 1
      /\ \A i \in 1..Len(a) : a[i] = s[i + 1] /\ i + 1 \in 1..Len(s)
      /\ \A i \in 1..Len(s) : i # 1 => i - 1 \in 1..Len(a) /\ (i - 1) + 1 = i
      /\ 1 \in 1..Len(s)
  OBVIOUS
<1> HIDE DEF a
<1>2. Once(a) BY <1>1 DEF Once
<1>3. Elems(a) = Elems(s) \ {s[1]}
  <2>1. \A i \in 1..Len(a) : a[i] \in Elems(s) /\ a[i] # s[1]
    BY <1>1 DEF Elems, Once
  <2>2. \A i \in 1..Len(s) : s[i] # s[1] => s[i] = a[i - 1] /\ i - 1 \in 1..Len(a)
    BY <1>1
  <2> QED BY <2>1, <2>2 DEF Elems
<1>4. Ends(a) = IF Len(s) = 1 THEN NULL ELSE Ends(s)
  <2>1. CASE Len(s) = 1
    <3>1. a = << >> BY <1>1, <2>1
    <3> QED BY <2>1, <3>1 DEF Ends
  <2>2. CASE Len(s) # 1
    <3>1. a # << >> /\ Len(a) \in 1..Len(a) /\ Len(a) + 1 = Len(s) BY <1>1, <2>2
    <3> QED BY <1>1, <2>2, <3>1 DEF Ends
  <2> QED BY <2>1, <2>2
<1> QED BY <1>1, <1>2, <1>3, <1>4 DEF a

\* MessageQueue_push at the end of the list: the message comes after all the others.
LEMMA PushLast ==
  ASSUME NEW b \in Blocks, ListPush(b), ListTypes, Proper, b \notin Elems(Listed),
         last = Ends(Listed)
  PROVE  Proper' /\ Listed' = Append(Listed, b)
<1>1. PICK s \in Seq(Blocks) : s = Listed BY DEF Proper
<1>2. IsList(s) /\ Once(s) /\ b \notin Elems(s) /\ last = Ends(s) BY <1>1 DEF Proper
<1> DEFINE a == Append(s, b)
<1>3. a \in Seq(Blocks) /\ Once(a) BY <1>2, AppendOnce
<1>4. /\ Len(s) \in Nat /\ Len(a) = Len(s) + 1
      /\ \A i \in 1..Len(s) : a[i] = s[i] /\ s[i] \in Blocks /\ i \in 1..Len(a) /\ i # Len(a)
      /\ a[Len(s) + 1] = b /\ a # << >>
  OBVIOUS
<1> HIDE DEF a
<1>5. \A i \in 1..Len(a) : i \in 1..Len(s) \/ i = Len(a) BY <1>4
<1>6. /\ \A x \in Blocks : next'[x] = IF x = last THEN b ELSE IF x = b THEN NULL ELSE next[x]
      /\ first' = IF last = NULL THEN b ELSE first
  BY DEF ListPush
<1>7. \A i \in 1..Len(s) : s[i] # b BY <1>2 DEF Elems
<1>8. CASE s = << >>
  <2>1. last = NULL /\ Len(s) = 0 BY <1>2, <1>8 DEF Ends
  <2>2. next'[b] = NULL /\ first' = b /\ a[1] = b /\ Len(a) = 1
    BY <1>4, <1>6, <2>1, ListAssumption
  <2>3. \A i \in 1..Len(a) : i = Len(a) /\ a[i] = b BY <2>2
  <2>4. IsList(a)' BY <1>4, <2>2, <2>3 DEF IsList
  <2> QED BY <1>1, <1>3, <2>4, ListedIsNext DEF a
<1>9. CASE s # << >>
  <2>1. last = s[Len(s)] /\ Len(s) \in 1..Len(s) /\ 1 \in 1..Len(s) BY <1>2, <1>4, <1>9 DEF Ends
  <2>2. last # NULL /\ last # b BY <1>4, <1>7, <2>1, ListAssumption
  <2>3. first' = a[1]
    <3>1. first = s[1] BY <1>2, <1>9 DEF IsList
    <3> QED BY <1>4, <1>6, <2>1, <2>2, <3>1
  <2>4. ASSUME NEW i \in 1..Len(a)
        PROVE  next'[a[i]] = IF i = Len(a) THEN NULL ELSE a[i + 1]
    <3>1. CASE i = Len(a)
      <4>1. a[i] = b BY <1>4, <3>1
      <4> QED BY <1>6, <2>2, <3>1, <4>1
    <3>2. CASE i \in 1..Len(s) /\ i = Len(s)
      <4>1. a[i] = last /\ a[i] \in Blocks /\ i # Len(a) /\ a[i + 1] = b BY <1>4, <2>1, <3>2
      <4> QED BY <1>6, <4>1
    <3>3. CASE i \in 1..Len(s) /\ i # Len(s)
      <4>1. i + 1 \in 1..Len(s) /\ i # Len(a) BY <1>4, <3>3
      <4>2. a[i] = s[i] /\ a[i + 1] = s[i + 1] /\ s[i] \in Blocks BY <1>4, <3>3, <4>1
      <4>3. s[i] # last /\ s[i] # b BY <1>2, <1>7, <2>1, <3>3 DEF Once
      <4>4. next[s[i]] = s[i + 1] BY <1>2, <3>3 DEF IsList
      <4> QED BY <1>6, <4>1, <4>2, <4>3, <4>4
    <3> QED BY <1>5, <3>1, <3>2, <3>3
  <2>5. IsList(a)' BY <1>4, <2>3, <2>4 DEF IsList
  <2> QED BY <1>1, <1>3, <2>5, ListedIsNext DEF a
<1> QED BY <1>8, <1>9

\* MessageQueue_push at the head: the list is this message alone.
LEMMA PushFirst ==
  ASSUME NEW b \in Blocks, ListPush(b), last = NULL
  PROVE  Proper' /\ Listed' = <<b>>
<1>1. first' = b /\ next'[b] = NULL BY ListAssumption DEF ListPush
<1>2. <<b>> \in Seq(Blocks) /\ Len(<<b>>) = 1 /\ <<b>>[1] = b /\ <<b>> # << >> OBVIOUS
<1>3. Once(<<b>>) BY <1>2 DEF Once
<1>4. IsList(<<b>>)'
  <2>1. \A i \in 1..Len(<<b>>) : i = 1 BY <1>2
  <2> QED BY <1>1, <1>2, <2>1 DEF IsList
<1> QED BY <1>2, <1>3, <1>4, ListedIsNext

\* No list from NULL on.
LEMMA NoList == /\ first = NULL => Proper /\ Listed = << >>
                /\ first # NULL /\ Proper => Listed # << >>
<1>1. << >> \in Seq(Blocks) /\ Once(<< >>)
  <2>1. \A i \in 1..Len(<< >>) : FALSE OBVIOUS
  <2> QED BY <2>1 DEF Once
<1>2. ASSUME first = NULL PROVE IsList(<< >>)
  <2>1. \A i \in 1..Len(<< >>) : FALSE OBVIOUS
  <2> QED BY <1>2, <2>1 DEF IsList
<1>3. ASSUME first # NULL, Proper PROVE Listed # << >>
  <2>1. first = IF Listed = << >> THEN NULL ELSE Listed[1] BY <1>3 DEF Proper, IsList
  <2> QED BY <1>3, <2>1
<1> QED BY <1>1, <1>2, <1>3, ListedIs

\* The same after a step.
LEMMA NoListNext == (first = NULL => Proper /\ Listed = << >>)'
<1>1. first = NULL => Proper /\ Listed = << >> BY NoList
<1> QED BY <1>1, PTL

\* As long as no push was late the memory is intact.
LEMMA IntactUnlessLate == ListInv => Intact \in IF late THEN BOOLEAN ELSE {TRUE}
<1> SUFFICES ASSUME ListInv PROVE Intact \in IF late THEN BOOLEAN ELSE {TRUE}
  OBVIOUS
<1>1. CASE late BY <1>1 DEF Intact
<1>2. CASE ~late
  <2>1. ~used BY <1>2 DEF ListInv, ListTypes
  <2>2. step = "none" => live = Elems(Listed) /\ last = Ends(Listed)
    BY <1>2 DEF ListInv, AtRest
  <2>3. Intact BY <2>1, <2>2 DEF Intact, Elems, Ends
  <2> QED BY <1>2, <2>3
<1> QED BY <1>1, <1>2

\* The same after a step.
LEMMA IntactUnlessLateNext == ListInv' => Intact' \in IF late' THEN BOOLEAN ELSE {TRUE}
<1>1. (ListInv => Intact \in IF late THEN BOOLEAN ELSE {TRUE})' BY IntactUnlessLate, PTL
<1> QED BY <1>1

-----------------------------------------------------------------------------
(* The steps. *)

\* The abstract queue makes a step, or none.
FifoNext == [Fifo!Next]_(Fifo!vars)

\* A push, at any time.
LEMMA NextPush ==
  ASSUME NEW b \in Blocks, ListInv, ListPush(b)
  PROVE  ListInv' /\ FifoNext
<1>1. /\ b \notin live /\ live' = live \union {b} /\ last' = b /\ ret' = "pushed"
      /\ late' = (late \/ step # "none") /\ step' = step
      /\ msg' = msg
  BY DEF ListPush
<1>2. ListTypes BY DEF ListInv
<1>3. next' \in [Blocks -> Blocks \union {NULL}] /\ first' \in Blocks \union {NULL}
  BY <1>2 DEF ListPush, ListTypes
<1>4. used' \in BOOLEAN /\ (last \in live \union {NULL} => used' = used)
  BY <1>2 DEF ListPush, Touch, ListTypes
<1>5. CASE step = "none"
  <2>1. AtRest BY <1>5 DEF ListInv
  <2>2. Proper /\ Elems(Listed) \subseteq live /\ b \notin Elems(Listed) BY <1>1, <2>1 DEF AtRest
  <2>3. PICK s \in Seq(Blocks) : s = Listed BY <2>2 DEF Proper
  <2>4. Once(s) BY <2>2, <2>3 DEF Proper
  <2>5. Ends(s) \in Elems(s) \union {NULL}
    <3>1. s # << >> => Len(s) \in 1..Len(s) OBVIOUS
    <3> QED BY <3>1 DEF Ends, Elems
  <2>6. last \in live \union {NULL} BY <2>1, <2>2, <2>3, <2>5 DEF AtRest
  <2>7. ListTypes' BY <1>1, <1>2, <1>3, <1>4, <1>5, <2>6 DEF ListTypes
  <2>8. /\ Proper' /\ Elems(Listed') \subseteq live' /\ last' = Ends(Listed')
        /\ Listed' \in {Append(Listed, b)} \union (IF late THEN {<<b>>} ELSE {})
        /\ ~late' => live' = Elems(Listed')
    <3>1. CASE last = Ends(Listed)
      <4>1. Proper' /\ Listed' = Append(s, b) BY <1>2, <2>2, <2>3, <3>1, PushLast
      <4>2. Elems(Listed') = Elems(s) \union {b} /\ Ends(Listed') = b
        BY <2>2, <2>3, <2>4, <4>1, AppendOnce
      <4> QED BY <1>1, <1>5, <2>1, <2>2, <2>3, <4>1, <4>2 DEF AtRest
    <3>2. CASE last # Ends(Listed)
      <4>1. last = NULL /\ late BY <2>1, <3>2 DEF AtRest
      <4>2. Proper' /\ Listed' = <<b>> BY <4>1, PushFirst
      <4>3. Elems(<<b>>) = {b} /\ Ends(<<b>>) = b
        <5>1. Len(<<b>>) = 1 /\ <<b>>[1] = b /\ <<b>> # << >> OBVIOUS
        <5> QED BY <5>1 DEF Elems, Ends
      <4> QED BY <1>1, <4>1, <4>2, <4>3
    <3> QED BY <3>1, <3>2
  <2>9. ListInv' BY <1>1, <1>5, <2>7, <2>8 DEF ListInv, AtRest
  <2>10. Held = Listed /\ Held' = Listed' BY <1>1, <1>5 DEF Held
  <2>11. Fifo!Push(b) BY <1>1, <1>5, <2>8, <2>10 DEF Fifo!Push
  <2> QED BY <2>9, <2>11, IntactUnlessLateNext DEF FifoNext, Fifo!Next
<1>6. CASE step \in {"free", "next", "first"}
  <2>1. ListTypes' BY <1>1, <1>2, <1>3, <1>4, <1>6 DEF ListTypes
  <2>2. late' /\ ret' # NULL BY <1>1, <1>6, ListAssumption
  <2>3. ListInv' BY <1>1, <1>6, <2>1, <2>2 DEF ListInv, Alone
  <2>4. Held = << >> /\ Held' = << >> BY <1>1, <1>6 DEF Held
  <2>5. Fifo!Push(b) BY <1>1, <1>6, <2>4 DEF Fifo!Push
  <2> QED BY <2>3, <2>5, IntactUnlessLateNext DEF FifoNext, Fifo!Next
<1>7. CASE step = "last"
  <2>1. BeforeLast BY <1>7 DEF ListInv
  <2>2. Proper /\ Elems(Listed) \subseteq live /\ b \notin Elems(Listed) BY <1>1, <2>1 DEF BeforeLast
  <2>3. PICK s \in Seq(Blocks) : s = Listed BY <2>2 DEF Proper
  <2>4. Once(s) BY <2>2, <2>3 DEF Proper
  <2>5. ListTypes' BY <1>1, <1>2, <1>3, <1>4, <1>7 DEF ListTypes
  <2>6. /\ Proper' /\ Elems(Listed') \subseteq live'
        /\ Listed' = << >> \/ last' = Ends(Listed')
        /\ Listed' \in {Append(Listed, b), Listed}
    <3>1. CASE last = Ends(Listed)
      <4>1. Proper' /\ Listed' = Append(s, b) BY <1>2, <2>2, <2>3, <3>1, PushLast
      <4>2. Elems(Listed') = Elems(s) \union {b} /\ Ends(Listed') = b
        BY <2>2, <2>3, <2>4, <4>1, AppendOnce
      <4> QED BY <1>1, <2>2, <2>3, <4>1, <4>2
    <3>2. CASE last # Ends(Listed)
      <4>1. Listed = << >> BY <2>1, <3>2 DEF BeforeLast
      <4>2. last # NULL BY <3>2, <4>1 DEF Ends
      <4>3. first = NULL BY <2>2, <4>1, NoList
      <4>4. first' = NULL BY <4>2, <4>3 DEF ListPush
      <4>5. Proper' /\ Listed' = << >> BY <4>4, NoListNext
      <4>6. Elems(<< >>) = {}
        <5>1. \A i \in 1..Len(<< >>) : FALSE OBVIOUS
        <5> QED BY <5>1 DEF Elems
      <4> QED BY <4>1, <4>5, <4>6
    <3> QED BY <3>1, <3>2
  <2>7. late' BY <1>1, <1>7
  <2>8. ListInv' BY <1>1, <1>7, <2>5, <2>6, <2>7 DEF ListInv, BeforeLast
  <2>9. Held = Listed /\ Held' = Listed' BY <1>1, <1>7 DEF Held
  <2>10. Fifo!Push(b) BY <1>1, <1>7, <2>6, <2>9 DEF Fifo!Push
  <2> QED BY <2>8, <2>10, IntactUnlessLateNext DEF FifoNext, Fifo!Next
<1> QED BY <1>2, <1>5, <1>6, <1>7 DEF ListTypes

\* The empty list has no blocks, and ends at the head.
LEMMA EmptyList == Elems(<< >>) = {} /\ Ends(<< >>) = NULL
<1>1. \A i \in 1..Len(<< >>) : FALSE OBVIOUS
<1> QED BY <1>1 DEF Elems, Ends

\* Steps that change neither the list nor the place in it.
LEMMA Elsewhere ==
  ASSUME ListInv, UNCHANGED <<next, first, last, live, step, msg, prev, late, used>>,
         ret' \in {ret, "refused"}
  PROVE  ListInv'
<1>1. ListTypes' BY DEF ListInv, ListTypes
<1>2. Proper => Proper' /\ Listed' = Listed BY ListedStays
<1>3. Alone' => Alone BY ListAssumption DEF Alone
<1>4. step = "none" => AtRest' BY <1>2 DEF ListInv, AtRest
<1>5. step = "last" => BeforeLast' BY <1>2 DEF ListInv, BeforeLast
<1>6. ASSUME Proper, NEW j
      PROVE  (AtFree(j) => AtFree(j)') /\ (AtNext(j) => AtNext(j)')
  BY <1>2, <1>6 DEF AtFree, AtNext
<1>7. ASSUME step = "free", Alone'
      PROVE  Proper' /\ (\E j \in 1..(Len(Listed) + 1) : AtFree(j))'
  <2>1. Proper /\ \E j \in 1..(Len(Listed) + 1) : AtFree(j) BY <1>3, <1>7 DEF ListInv
  <2> QED BY <1>2, <1>6, <2>1
<1>8. ASSUME step = "next", Alone'
      PROVE  Proper' /\ (\E j \in 1..(Len(Listed) + 1) : AtNext(j))'
  <2>1. Proper /\ \E j \in 1..(Len(Listed) + 1) : AtNext(j) BY <1>3, <1>8 DEF ListInv
  <2> QED BY <1>2, <1>6, <2>1
<1>9. step = "first" /\ ~late => live = {} BY DEF ListInv
<1> QED BY <1>1, <1>4, <1>5, <1>7, <1>8, <1>9 DEF ListInv

\* Then what is held is the same.
LEMMA HeldStays ==
  ASSUME ListInv, UNCHANGED <<next, first, step>>
  PROVE  Held' = Held
<1>1. CASE step \in {"none", "last"}
  <2>1. Proper BY <1>1 DEF ListInv, AtRest, BeforeLast
  <2>2. Listed' = Listed BY <2>1, ListedStays
  <2> QED BY <2>2 DEF Held
<1>2. CASE step \notin {"none", "last"}
  BY <1>2 DEF Held
<1> QED BY <1>1, <1>2

\* Nothing happens.
LEMMA NextStutter == ListInv /\ UNCHANGED listVars => ListInv' /\ FifoNext
<1> SUFFICES ASSUME ListInv, UNCHANGED listVars PROVE ListInv' /\ FifoNext
  OBVIOUS
<1>1. UNCHANGED <<next, first, last, live, step, msg, prev, ret, late, used>> BY DEF listVars
<1>2. ListInv' BY <1>1, Elsewhere
<1>3. Held' = Held BY <1>1, HeldStays
<1>4. Intact' = Intact
  <2>1. step = "none" => Listed' = Listed
    <3>1. step = "none" => Proper BY DEF ListInv, AtRest
    <3> QED BY <1>1, <3>1, ListedStays
  <2> QED BY <1>1, <2>1 DEF Intact
<1> QED BY <1>1, <1>2, <1>3, <1>4 DEF FifoNext, Fifo!vars

\* A push without memory.
LEMMA NextRefuse == ListInv /\ ListRefuse => ListInv' /\ FifoNext
<1> SUFFICES ASSUME ListInv, ListRefuse PROVE ListInv' /\ FifoNext
  OBVIOUS
<1>1. ret' = "refused" /\ UNCHANGED <<next, first, last, live, step, msg, prev, late, used>>
  BY DEF ListRefuse
<1>2. ListInv' BY <1>1, Elsewhere
<1>3. Held' = Held BY <1>1, HeldStays
<1>4. Fifo!Refuse BY <1>1, <1>3 DEF Fifo!Refuse
<1> QED BY <1>2, <1>4, IntactUnlessLateNext DEF FifoNext, Fifo!Next

\* MessageQueue_unshift takes the oldest message.
LEMMA NextUnshift == ListInv /\ ListUnshift => ListInv' /\ FifoNext
<1> SUFFICES ASSUME ListInv, ListUnshift PROVE ListInv' /\ FifoNext
  OBVIOUS
<1>1. /\ step = "none" /\ first # NULL /\ ret' = first /\ first' = next[first]
      /\ last' = (IF next[first] = NULL THEN NULL ELSE last)
      /\ live' = live \ {first}
      /\ UNCHANGED <<next, step, msg, prev, late>>
  BY DEF ListUnshift, Free
<1>2. ListTypes /\ AtRest BY <1>1 DEF ListInv
<1>3. PICK s \in Seq(Blocks) : s = Listed BY <1>2 DEF AtRest, Proper
<1>4. IsList(s) /\ Once(s) /\ s # << >> BY <1>1, <1>2, <1>3, NoList DEF AtRest, Proper
<1> DEFINE a == Tail(s)
<1>5. /\ a \in Seq(Blocks) /\ Once(a) /\ Elems(a) = Elems(s) \ {s[1]}
      /\ Ends(a) = IF Len(s) = 1 THEN NULL ELSE Ends(s)
  BY <1>4, TailOnce
<1>6. /\ Len(s) \in Nat \ {0} /\ Len(a) = Len(s) - 1 /\ 1 \in 1..Len(s)
      /\ \A i \in 1..Len(a) : a[i] = s[i + 1] /\ i + 1 \in 1..Len(s)
      /\ Head(s) = s[1] /\ s[1] \in Blocks
  BY <1>4
<1> HIDE DEF a
<1>7. first = s[1] BY <1>4 DEF IsList
<1>8. next[first] = IF Len(s) = 1 THEN NULL ELSE s[2]
  <2>1. next[s[1]] = IF 1 = Len(s) THEN NULL ELSE s[1 + 1] BY <1>4, <1>6 DEF IsList
  <2> QED BY <1>7, <2>1
<1>9. Len(s) # 1 => s[2] \in Blocks /\ s[2] # NULL
  <2>1. Len(s) # 1 => 2 \in 1..Len(s) BY <1>6
  <2> QED BY <2>1, ListAssumption
<1>10. IsList(a)'
  <2>1. first' = IF a = << >> THEN NULL ELSE a[1]
    <3>1. CASE Len(s) = 1
      <4>1. a = << >> BY <1>5, <1>6, <3>1
      <4> QED BY <1>1, <1>8, <3>1, <4>1
    <3>2. CASE Len(s) # 1
      <4>1. a # << >> /\ a[1] = s[2] BY <1>5, <1>6, <3>2
      <4> QED BY <1>1, <1>8, <3>2, <4>1
    <3> QED BY <3>1, <3>2
  <2>2. ASSUME NEW i \in 1..Len(a)
        PROVE  next[a[i]] = IF i = Len(a) THEN NULL ELSE a[i + 1]
    <3>1. next[s[i + 1]] = IF i + 1 = Len(s) THEN NULL ELSE s[(i + 1) + 1]
      BY <1>4, <1>6 DEF IsList
    <3>2. CASE i = Len(a)
      <4>1. i + 1 = Len(s) BY <1>6, <3>2
      <4> QED BY <1>6, <3>1, <3>2, <4>1
    <3>3. CASE i # Len(a)
      <4>1. i + 1 # Len(s) /\ i + 1 \in 1..Len(a) BY <1>6, <3>3
      <4> QED BY <1>6, <3>1, <3>3, <4>1
    <3> QED BY <3>2, <3>3
  <2> QED BY <1>1, <2>1, <2>2 DEF IsList
<1>11. Proper' /\ Listed' = a BY <1>5, <1>10, ListedIsNext
<1>12. used' = used
  <2>1. first \in live
    <3>1. s[1] \in Elems(s) BY <1>6 DEF Elems
    <3> QED BY <1>2, <1>3, <1>7, <3>1 DEF AtRest
  <2> QED BY <1>2, <2>1 DEF ListUnshift, Touch, ListTypes
<1>13. ListTypes'
  <2>1. first' \in Blocks \union {NULL} BY <1>1, <1>8, <1>9
  <2> QED BY <1>1, <1>2, <1>12, <2>1 DEF ListTypes
<1>14. AtRest'
  <2>1. Elems(a) \subseteq live' /\ (~late => live' = Elems(a))
    BY <1>1, <1>2, <1>3, <1>5, <1>7 DEF AtRest
  <2>2. last' # Ends(a) => late /\ last' = NULL
    BY <1>1, <1>2, <1>3, <1>5, <1>8, <1>9 DEF AtRest
  <2> QED BY <1>1, <1>11, <2>1, <2>2 DEF AtRest
<1>15. ListInv' BY <1>1, <1>13, <1>14 DEF ListInv
<1>16. Held = s /\ Held' = Tail(s) BY <1>1, <1>3, <1>11 DEF Held, a
<1>17. Fifo!Unshift BY <1>1, <1>4, <1>6, <1>7, <1>16 DEF Fifo!Unshift
<1> QED BY <1>15, <1>17, IntactUnlessLateNext DEF FifoNext, Fifo!Next

\* Without the j-th block, what is left from there on is what comes after it.
LEMMA RestNext ==
  ASSUME NEW s \in Seq(Blocks), Once(s), NEW j \in 1..(Len(s) + 1)
  PROVE  Rest(s, j) = Rest(s, j - 1) \ {IF j = 1 THEN NULL ELSE s[j - 1]}
<1>1. Len(s) \in Nat /\ j \in Nat /\ j - 1 \in Nat OBVIOUS
<1>2. \A k \in 1..Len(s) : k \in Nat /\ s[k] \in Blocks /\ s[k] # NULL BY ListAssumption
<1>3. CASE j = 1
  <2>1. {k \in 1..Len(s) : k >= j} = {k \in 1..Len(s) : k >= j - 1} BY <1>3
  <2>2. Rest(s, j) = Rest(s, j - 1) BY <2>1 DEF Rest
  <2>3. NULL \notin Rest(s, j) BY <1>2 DEF Rest
  <2> QED BY <1>3, <2>2, <2>3
<1>4. CASE j # 1
  <2>1. j - 1 \in 1..Len(s) BY <1>1, <1>4
  <2>2. \A k \in 1..Len(s) : k >= j <=> k >= j - 1 /\ k # j - 1 BY <1>1
  <2>3. \A k \in 1..Len(s) : k # j - 1 <=> s[k] # s[j - 1] BY <2>1 DEF Once
  <2> QED BY <1>4, <2>2, <2>3 DEF Rest
<1> QED BY <1>3, <1>4

\* Steps of a clearing that only move on in the list: the queue is empty already.
LEMMA Within ==
  ASSUME step \notin {"none", "last"}, step' \notin {"none", "last"},
         UNCHANGED <<ret, late, used>>
  PROVE  FifoNext
BY DEF FifoNext, Fifo!vars, Held, Intact

\* MessageQueue_clear begins with the head of the list.
LEMMA NextClearBegin == ListInv /\ ClearBegin => ListInv' /\ FifoNext
<1> SUFFICES ASSUME ListInv, ClearBegin PROVE ListInv' /\ FifoNext
  OBVIOUS
<1>1. /\ step = "none" /\ msg' = first /\ prev' = NULL /\ step' = "free" /\ ret' = NULL
      /\ UNCHANGED <<next, first, last, live, late, used>>
  BY DEF ClearBegin
<1>2. ListTypes /\ AtRest BY <1>1 DEF ListInv
<1>3. ListTypes' BY <1>1, <1>2 DEF ListTypes
<1>4. Proper' /\ Listed' = Listed /\ Proper BY <1>1, <1>2, ListedStays DEF AtRest
<1>5. PICK s \in Seq(Blocks) : s = Listed BY <1>4 DEF Proper
<1>6. Rest(s, 1 - 1) = Elems(s)
  <2>1. {k \in 1..Len(s) : k >= 1 - 1} = 1..Len(s) OBVIOUS
  <2> QED BY <2>1 DEF Rest, Elems
<1>7. first = IF 1 <= Len(s) THEN s[1] ELSE NULL
  <2>1. s = << >> <=> ~ (1 <= Len(s)) OBVIOUS
  <2> QED BY <1>4, <1>5, <2>1 DEF Proper, IsList
<1>8. AtFree(1)' BY <1>1, <1>2, <1>4, <1>5, <1>6, <1>7 DEF AtFree, AtRest
<1>9. 1 \in 1..(Len(Listed') + 1) BY <1>4, <1>5
<1>10. (\E j \in 1..(Len(Listed) + 1) : AtFree(j))' BY <1>8, <1>9
<1>11. ListInv' BY <1>1, <1>3, <1>4, <1>10 DEF ListInv
<1>12. Held' = << >> BY <1>1 DEF Held
<1>13. Fifo!Clear BY <1>1, <1>12 DEF Fifo!Clear
<1> QED BY <1>11, <1>13, IntactUnlessLateNext DEF FifoNext, Fifo!Next

\* The loop frees the message before msg.
LEMMA NextClearFree == ListInv /\ ClearFree => ListInv' /\ FifoNext
<1> SUFFICES ASSUME ListInv, ClearFree PROVE ListInv' /\ FifoNext
  OBVIOUS
<1>1. /\ step = "free" /\ msg # NULL /\ live' = live \ {prev} /\ prev' = msg /\ step' = "next"
      /\ UNCHANGED <<next, first, last, msg, ret, late, used>>
  BY DEF ClearFree, Free
<1>2. ListTypes' BY <1>1 DEF ListInv, ListTypes
<1>3. ASSUME Alone PROVE Proper' /\ (\E j \in 1..(Len(Listed) + 1) : AtNext(j))'
  <2>1. Proper /\ \E j \in 1..(Len(Listed) + 1) : AtFree(j) BY <1>1, <1>3 DEF ListInv
  <2>2. Proper' /\ Listed' = Listed BY <1>1, <2>1, ListedStays
  <2>3. PICK s \in Seq(Blocks) : s = Listed BY <2>1 DEF Proper
  <2>4. PICK j \in 1..(Len(s) + 1) : AtFree(j) BY <2>1, <2>3
  <2>5. /\ msg = (IF j <= Len(s) THEN s[j] ELSE NULL)
        /\ prev = (IF j = 1 THEN NULL ELSE s[j - 1])
        /\ Rest(s, j - 1) \subseteq live /\ (~late => live = Rest(s, j - 1))
    BY <2>3, <2>4 DEF AtFree
  <2>6. Once(s) BY <2>1, <2>3 DEF Proper
  <2>7. Rest(s, j) = Rest(s, j - 1) \ {prev} BY <2>5, <2>6, RestNext
  <2>8. j <= Len(s) /\ msg = s[j] BY <1>1, <2>5
  <2>9. AtNext(j)' BY <1>1, <2>2, <2>3, <2>5, <2>7, <2>8 DEF AtNext
  <2> QED BY <2>2, <2>3, <2>9
<1>4. Alone' => Alone BY <1>1 DEF Alone
<1>5. ListInv' BY <1>1, <1>2, <1>3, <1>4 DEF ListInv
<1>6. FifoNext BY <1>1, Within
<1> QED BY <1>5, <1>6

\* The loop goes on to the next message, which is only read from a free block when a
\* message was pushed meanwhile.
LEMMA NextClearNext == ListInv /\ ClearNext => ListInv' /\ FifoNext
<1> SUFFICES ASSUME ListInv, ClearNext PROVE ListInv' /\ FifoNext
  OBVIOUS
<1>1. /\ step = "next" /\ msg' = next[msg] /\ step' = "free"
      /\ used' = (used \/ (msg # NULL /\ msg \notin live))
      /\ UNCHANGED <<next, first, last, live, prev, ret, late>>
  BY DEF ClearNext, Touch
<1>2. ListTypes BY DEF ListInv
<1>3. msg \in Blocks /\ msg' \in Blocks \union {NULL} /\ ret \in {NULL, "pushed", "refused"}
  BY <1>1, <1>2 DEF ListTypes
<1>4. Alone' => Alone BY <1>1 DEF Alone
<1>5. ASSUME Alone
      PROVE  used' = used /\ Proper' /\ (\E j \in 1..(Len(Listed) + 1) : AtFree(j))'
  <2>1. Proper /\ \E j \in 1..(Len(Listed) + 1) : AtNext(j) BY <1>1, <1>5 DEF ListInv
  <2>2. Proper' /\ Listed' = Listed BY <1>1, <2>1, ListedStays
  <2>3. PICK s \in Seq(Blocks) : s = Listed BY <2>1 DEF Proper
  <2>4. PICK j \in 1..(Len(s) + 1) : AtNext(j) BY <2>1, <2>3
  <2>5. /\ j <= Len(s) /\ msg = s[j] /\ prev = s[j]
        /\ Rest(s, j) \subseteq live /\ (~late => live = Rest(s, j))
    BY <2>3, <2>4 DEF AtNext
  <2>6. /\ j \in Nat /\ j \in 1..Len(s) /\ (j + 1) - 1 = j /\ j + 1 # 1
        /\ j + 1 \in 1..(Len(s) + 1) /\ (j + 1 <= Len(s) <=> j # Len(s))
    BY <2>5
  <2>7. msg \in live
    <3>1. j >= j BY <2>6
    <3>2. msg \in Rest(s, j) BY <2>5, <2>6, <3>1 DEF Rest
    <3> QED BY <2>5, <3>2
  <2>8. used' = used BY <1>1, <1>2, <2>7 DEF ListTypes
  <2>9. msg' = IF j + 1 <= Len(s) THEN s[j + 1] ELSE NULL
    <3>1. IsList(s) BY <2>1, <2>3 DEF Proper
    <3>2. next[s[j]] = IF j = Len(s) THEN NULL ELSE s[j + 1] BY <2>6, <3>1 DEF IsList
    <3> QED BY <1>1, <2>5, <2>6, <3>2
  <2>10. AtFree(j + 1)'
    <3>1. /\ msg' = (IF j + 1 <= Len(Listed') THEN Listed'[j + 1] ELSE NULL)
          /\ prev' = Listed'[(j + 1) - 1]
          /\ Rest(Listed', (j + 1) - 1) \subseteq live'
          /\ ~late' => live' = Rest(Listed', (j + 1) - 1)
      BY <1>1, <2>2, <2>3, <2>5, <2>6, <2>9
    <3> QED BY <2>6, <3>1 DEF AtFree
  <2>11. j + 1 \in 1..(Len(Listed') + 1) BY <2>2, <2>3, <2>6
  <2> QED BY <2>2, <2>8, <2>10, <2>11
<1>6. ListTypes'
  <2>1. ~late => Alone BY DEF Alone
  <2>2. used' \in BOOLEAN /\ (~late => ~used')
    BY <1>1, <1>2, <1>5, <2>1 DEF ListTypes
  <2> QED BY <1>1, <1>2, <1>3, <2>2 DEF ListTypes
<1>7. ListInv' BY <1>1, <1>4, <1>5, <1>6 DEF ListInv
<1>8. CASE used' = used
  BY <1>1, <1>7, <1>8, Within
<1>9. CASE used' # used
  <2>1. late /\ ret \in {"pushed", "refused"} BY <1>3, <1>5, <1>9 DEF Alone
  <2>2. Held = << >> /\ Held' = << >> BY <1>1 DEF Held
  <2>3. Fifo!Refuse \/ Fifo!Push(msg) BY <1>1, <2>1, <2>2 DEF Fifo!Refuse, Fifo!Push
  <2> QED BY <1>3, <1>7, <2>3, IntactUnlessLateNext DEF FifoNext, Fifo!Next
<1> QED BY <1>7, <1>8, <1>9

\* After the loop the last message is freed.
LEMMA NextClearLast == ListInv /\ ClearLast => ListInv' /\ FifoNext
<1> SUFFICES ASSUME ListInv, ClearLast PROVE ListInv' /\ FifoNext
  OBVIOUS
<1>1. /\ step = "free" /\ msg = NULL /\ live' = live \ {prev} /\ step' = "first"
      /\ UNCHANGED <<next, first, last, msg, prev, ret, late, used>>
  BY DEF ClearLast, Free
<1>2. ListTypes' BY <1>1 DEF ListInv, ListTypes
<1>3. ASSUME ~late PROVE live' = {}
  <2>1. Proper /\ \E j \in 1..(Len(Listed) + 1) : AtFree(j) BY <1>1, <1>3 DEF ListInv, Alone
  <2>2. PICK s \in Seq(Blocks) : s = Listed BY <2>1 DEF Proper
  <2>3. PICK j \in 1..(Len(s) + 1) : AtFree(j) BY <2>1, <2>2
  <2>4. /\ msg = (IF j <= Len(s) THEN s[j] ELSE NULL)
        /\ prev = (IF j = 1 THEN NULL ELSE s[j - 1])
        /\ live = Rest(s, j - 1)
    BY <1>3, <2>2, <2>3 DEF AtFree
  <2>5. Once(s) BY <2>1, <2>2 DEF Proper
  <2>6. Rest(s, j) = live' BY <1>1, <2>4, <2>5, RestNext
  <2>7. ~ (j <= Len(s))
    <3>1. j <= Len(s) => s[j] \in Blocks OBVIOUS
    <3> QED BY <1>1, <2>4, <3>1, ListAssumption
  <2>8. \A k \in 1..Len(s) : ~ (k >= j) BY <2>7
  <2> QED BY <2>6, <2>8 DEF Rest
<1>4. ListInv' BY <1>1, <1>2, <1>3 DEF ListInv
<1>5. FifoNext BY <1>1, Within
<1> QED BY <1>4, <1>5

\* The first store of STAILQ_INIT: the list is empty.
LEMMA NextResetFirst == ListInv /\ ResetFirst => ListInv' /\ FifoNext
<1> SUFFICES ASSUME ListInv, ResetFirst PROVE ListInv' /\ FifoNext
  OBVIOUS
<1>1. /\ step = "first" /\ first' = NULL /\ step' = "last"
      /\ UNCHANGED <<next, last, live, msg, prev, ret, late, used>>
  BY DEF ResetFirst
<1>2. ListTypes' BY <1>1 DEF ListInv, ListTypes
<1>3. Proper' /\ Listed' = << >> BY <1>1, NoListNext
<1>4. ~late => live = {} BY <1>1 DEF ListInv
<1>5. BeforeLast' BY <1>1, <1>3, <1>4, EmptyList DEF BeforeLast
<1>6. ListInv' BY <1>1, <1>2, <1>5 DEF ListInv
<1>7. Held = << >> /\ Held' = << >> BY <1>1, <1>3 DEF Held
<1>8. FifoNext BY <1>1, <1>7 DEF FifoNext, Fifo!vars, Intact
<1> QED BY <1>6, <1>8

\* The second store, after which a message pushed in between is still held but not ended.
LEMMA NextResetLast == ListInv /\ ResetLast => ListInv' /\ FifoNext
<1> SUFFICES ASSUME ListInv, ResetLast PROVE ListInv' /\ FifoNext
  OBVIOUS
<1>1. /\ step = "last" /\ last' = NULL /\ step' = "none"
      /\ UNCHANGED <<next, first, live, msg, prev, ret, late, used>>
  BY DEF ResetLast
<1>2. ListTypes' BY <1>1 DEF ListInv, ListTypes
<1>3. BeforeLast BY <1>1 DEF ListInv
<1>4. Proper' /\ Listed' = Listed BY <1>1, <1>3, ListedStays DEF BeforeLast
<1>5. AtRest' BY <1>1, <1>3, <1>4, EmptyList DEF BeforeLast, AtRest
<1>6. ListInv' BY <1>1, <1>2, <1>5 DEF ListInv
<1>7. Held' = Held BY <1>1, <1>4 DEF Held
<1>8. Fifo!Cleared BY <1>1, <1>7 DEF Fifo!Cleared
<1> QED BY <1>6, <1>8, IntactUnlessLateNext DEF FifoNext, Fifo!Next

\* Every step of the list keeps ListInv, and is one of the abstract queue.
LEMMA NextList == ListInv /\ [ListNext]_listVars => ListInv' /\ FifoNext
<1> SUFFICES ASSUME ListInv, [ListNext]_listVars PROVE ListInv' /\ FifoNext
  OBVIOUS
<1>1. CASE \E b \in Blocks : ListPush(b) BY <1>1, NextPush
<1>2. CASE ClearStep
  BY <1>2, NextClearBegin, NextClearFree, NextClearNext, NextClearLast, NextResetFirst,
     NextResetLast DEF ClearStep
<1> QED BY <1>1, <1>2, NextRefuse, NextUnshift, NextStutter DEF ListNext

\* ListImplementsFifo holds of message_queue.c for any set of blocks: messages come out once
\* and in order, and memory stays intact, except after a push that fell into a clearing
\* (MessageQueue_push from the interrupt, MessageQueue_clear in the task).
THEOREM ListIsFifo == ListSpec => ListImplementsFifo
<1>1. ListInit => ListInv /\ Fifo!Init
  <2> SUFFICES ASSUME ListInit PROVE ListInv /\ Fifo!Init OBVIOUS
  <2>1. /\ next \in [Blocks -> Blocks \union {NULL}] /\ first = NULL /\ last = NULL /\ live = {}
        /\ step = "none" /\ msg = NULL /\ ret = NULL /\ late = FALSE /\ used = FALSE
    BY DEF ListInit
  <2>2. Proper /\ Listed = << >> BY <2>1, NoList
  <2>3. ListTypes BY <2>1 DEF ListTypes
  <2>4. AtRest BY <2>1, <2>2, EmptyList DEF AtRest
  <2>5. ListInv BY <2>1, <2>3, <2>4 DEF ListInv
  <2>6. Held = << >> BY <2>1, <2>2 DEF Held
  <2>7. Intact = TRUE BY <2>1, <2>5, IntactUnlessLate
  <2> QED BY <2>1, <2>5, <2>6, <2>7 DEF Fifo!Init
<1>2. ListInv /\ [ListNext]_listVars => ListInv' /\ [Fifo!Next]_(Fifo!vars)
  BY NextList DEF FifoNext
<1> QED BY <1>1, <1>2, PTL DEF ListSpec, ListImplementsFifo, Fifo!Spec
=============================================================================
