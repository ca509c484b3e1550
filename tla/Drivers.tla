------------------------------ MODULE Drivers ------------------------------
(***************************************************************************)
(* The three simple drivers, which share the pin GPIO2: user/heater.c,       *)
(* user/lighting.c and user/temperature.c, as the commands of parser.c and    *)
(* DeviceInit call them.  The type of a device may be changed at any time;    *)
(* the new driver finds the pin, the PWM and its own variables as they were   *)
(* left.  Functions run to their end: nothing that interrupts them touches    *)
(* their state.  Left out: the two buffers that a failed reading leaks.       *)
(***************************************************************************)
EXTENDS Integers, Sequences, SequencesExt

CONSTANTS
  Intensities,  \* the numbers, as atoi reads them, of Lighting Set commands
  Frames,       \* what the sensor may send: tenths of a percent, and 16 bits of
                \* temperature, of which the first is its sign
  Periods       \* what a round of the sampling loop may take, in 0.1 microseconds

ASSUME DriverAssumption ==
  /\ Intensities \subseteq Nat
  /\ Frames \subseteq {f \in [humidity : Nat, temperature : Nat] :
                        f.humidity <= 1000 /\ f.temperature < 65536}
  /\ Periods \subseteq Nat \ {0}

VARIABLES
  type,       \* in the configuration, which is in flash
  ready,      \* DeviceInit succeeded since that type was set and since the restart
  pin,        \* the output latch of GPIO2, or "input"
  pwm,        \* the duty with which the PWM drives GPIO2, or Off
  duty, intensity,   \* lighting.c: duty, intensity_c
  heater,     \* heater.c: state = HEATER_ON
  dht,        \* temperature.c: DHT
  asked,      \* the last Lighting Set since Lighting_init, or None
  reading,    \* what the sensor measured when the last reading was sent, or NoFrame
  disturbed   \* the PWM was running during a reading since the restart

lightVars  == <<pwm, duty, intensity, asked>>
sensorVars == <<dht, reading, disturbed>>
driverVars == <<type, ready, pin, heater, lightVars, sensorVars>>

Kinds == {"HEATER", "LIGHTING", "TEMPERATURE", "OTHER"}
Off  == -1
None == -1
NoFrame == [humidity |-> -1, temperature |-> -1]
ZeroDht == [humidity |-> 0, temperature |-> 0, negative |-> FALSE]

DriverInit ==
  /\ type = "OTHER" /\ ready = FALSE /\ pin = "input" /\ heater = FALSE
  /\ pwm = Off /\ duty = 0 /\ intensity = 0 /\ asked = None
  /\ dht = ZeroDht /\ reading = NoFrame /\ disturbed = FALSE

\* The type survives a restart, after which init_done calls DeviceInit.
DriverRestart ==
  /\ ready' = FALSE /\ pin' = "input" /\ heater' = FALSE
  /\ pwm' = Off /\ duty' = 0 /\ intensity' = 0 /\ asked' = None
  /\ dht' = ZeroDht /\ reading' = NoFrame /\ disturbed' = FALSE
  /\ UNCHANGED type

-----------------------------------------------------------------------------
(* The type of the device. *)

\* (A bug) The pin keeps its level.
HeaterInitQuiet == heater' = FALSE /\ UNCHANGED <<pin, lightVars, sensorVars>>

HeaterInit == pin' = "high" /\ heater' = FALSE /\ UNCHANGED <<lightVars, sensorVars>>

\* pwm_init may stop a PWM that runs, leave it alone, or start it with the old duty.
LightingInit ==
  /\ pin' = "low" /\ pwm' \in {Off, pwm, duty} /\ asked' = None
  /\ UNCHANGED <<duty, intensity, heater, sensorVars>>

InitOf(t) ==
  \/ t = "HEATER" /\ HeaterInit
  \/ t = "LIGHTING" /\ LightingInit
  \/ t \in {"TEMPERATURE", "OTHER"} /\ UNCHANGED <<pin, heater, lightVars, sensorVars>>

\* DeviceConfig_set_type: the type is saved before DeviceInit, which may fail to read it.
SetType ==
  /\ type' \in Kinds \ {type}
  /\ \/ ready' = TRUE /\ InitOf(type')
     \/ ready' = FALSE /\ UNCHANGED <<pin, heater, lightVars, sensorVars>>

\* init_done, after a restart and after go_back_to_ap.
DeviceInit == ready' = TRUE /\ InitOf(type) /\ UNCHANGED type

-----------------------------------------------------------------------------
(* Heater and light. *)

\* Active low.  A heater that is on already is left alone.
HeaterTurnOn ==
  /\ type = "HEATER"
  /\ heater' = TRUE
  /\ pin' = IF heater THEN pin ELSE "low"
  /\ UNCHANGED <<type, ready, lightVars, sensorVars>>

HeaterTurnOff ==
  /\ type = "HEATER"
  /\ heater' = FALSE /\ pin' = "high"
  /\ UNCHANGED <<type, ready, lightVars, sensorVars>>

AtMost100(n) == IF n > 100 THEN 100 ELSE n

\* The argument of Lighting_dim is an uint8.
Intensity(n) == AtMost100(n % 256)

\* In the units of pwm_set_duty: 400 and 1.05 for each percent, times the period of
\* 83 microseconds, divided by 45.
Duty(i) == IF i = 0 THEN 0 ELSE (((40000 + 105 * i) \div 100) * 83) \div 45

LightingDim ==
  /\ type = "LIGHTING"
  /\ asked' \in Intensities
  /\ intensity' = Intensity(asked') /\ duty' = Duty(intensity') /\ pwm' = duty'
  /\ UNCHANGED <<type, ready, pin, heater, sensorVars>>

-----------------------------------------------------------------------------
(* The sensor.  The line is a sequence of pulses: low, then high for some time. *)

\* The bits of a number, the first one worth most: v is halved n - i times for the i-th.
Halves(v, n) == LET h[k \in 0..n] == IF k = 0 THEN v ELSE h[k - 1] \div 2 IN h
BitsOf(v, n) == [i \in 1..n |-> Halves(v, n)[n - i] % 2]
ValueOf(bits) ==
  LET v[i \in 0..Len(bits)] == IF i = 0 THEN 0 ELSE 2 * v[i - 1] + bits[i] IN v[Len(bits)]

Pulse(l, h) == [low |-> l, high |-> h]

\* The sensor answers with a long pulse and sends 40 bits, of which the last eight are
\* the sum of the four bytes before them.  When it is slow, the line is still pulled up
\* when the sampling begins.
DataBits(f) ==
  LET sum == (f.humidity \div 256) + f.humidity + (f.temperature \div 256) + f.temperature
  IN BitsOf(f.humidity, 16) \o BitsOf(f.temperature, 16) \o BitsOf(sum % 256, 8)

Line(f, slow) ==
  (IF slow THEN <<Pulse(0, 200), Pulse(800, 800)>> ELSE <<Pulse(400, 800)>>)
  \o [i \in 1..40 |-> Pulse(500, IF DataBits(f)[i] = 1 THEN 700 ELSE 260)]

MAX_READ_TIME == 4000
READ_BUFFER_SIZE == 42
DATA_BIT_HIGH_THRESHOLD == 18

\* The samples before time t, of a loop whose rounds take s.
Samples(t, s) == (t + s - 1) \div s

\* read and get_data_bits: a pulse is a 1 when more than 18 samples of it are high; it
\* counts when the line is seen low again before the last sample.
DecodedBits(l, s) ==
  LET end[i \in 0..Len(l)] == IF i = 0 THEN 0 ELSE end[i - 1] + l[i].low + l[i].high
      High(i) == Samples(end[i], s) - Samples(end[i] - l[i].high, s)
      Seen(i) == i <= Len(l) /\ Samples(end[i], s) <= MAX_READ_TIME - 2
  IN [i \in 1..READ_BUFFER_SIZE |->
        IF Seen(i) /\ High(i) > DATA_BIT_HIGH_THRESHOLD THEN 1 ELSE 0]

\* (A bug) Every frame is accepted.
ChecksumNone(d) == TRUE

\* checksum, as it is: of five bits, not of five bytes.
Checksum(d) == d[2] + d[3] + d[4] + d[5] = d[6]

\* set_dht: the first bit of the humidity is taken for the sign, which is never reset.
Reported(d) ==
  [humidity    |-> ValueOf(<<0>> \o SubSeq(d, 3, 17)),
   temperature |-> ValueOf(SubSeq(d, 18, 33)),
   negative    |-> dht.negative \/ d[2] = 1]

\* What sprintf writes into the reply: two numbers, a space, perhaps a minus, and the end.
Tens == <<10, 100, 1000, 10000, 100000>>
Digits(n) == CHOOSE k \in 1..5 : n < Tens[k] /\ (k = 1 \/ n >= Tens[k - 1])
ReplySize(d) == Digits(d.humidity) + 1 + (IF d.negative THEN 1 ELSE 0) + Digits(d.temperature) + 1
REPLY_BUFFER_SIZE == 10

\* What read and get_data_bits may make of a frame; a PWM that runs may hide a pulse.
Captured(f, lines) == {[frame |-> f, bits |-> DecodedBits(l, s)] : l \in lines, s \in Periods}

Captures == UNION {Captured(f, {Line(f, slow) : slow \in BOOLEAN}) : f \in Frames}
DisturbedCaptures ==
  UNION {Captured(f, {RemoveAt(Line(f, slow), i) : slow \in BOOLEAN, i \in {1, 2, 20}})
           : f \in Frames}

\* Temperature_get_temperature leaves the pin an input.
TemperatureGet ==
  /\ type = "TEMPERATURE"
  /\ pin' = "input"
  /\ disturbed' = (disturbed \/ pwm # Off)
  /\ \E c \in Captures \union (IF pwm = Off THEN {} ELSE DisturbedCaptures) :
       IF Checksum(c.bits)
       THEN dht' = Reported(c.bits) /\ reading' = c.frame
       ELSE dht' = dht /\ reading' = NoFrame
  /\ UNCHANGED <<type, ready, heater, lightVars>>

-----------------------------------------------------------------------------
DriverNext == SetType \/ DeviceInit \/ HeaterTurnOn \/ HeaterTurnOff \/ LightingDim
              \/ TemperatureGet \/ DriverRestart

DriverSpec == DriverInit /\ [][DriverNext]_driverVars

\* What GPIO2 does: the PWM, while it runs, overrides the latch.
Output == IF pwm = Off THEN pin ELSE "pwm"

\* GPIO2 does what its driver takes it to do, whatever other drivers did with it before:
\* a heater whose DeviceInit succeeded heats when its state says so, unless the PWM of a
\* light still runs, which nothing stops (heater.c:22-52); a light has the intensity that
\* was asked for, up to 100, and Lighting Get reports it, unless the number was more than
\* 255 (parser.c:187, lighting.c:30).
OutputAsAsked ==
  /\ ready /\ type = "HEATER" /\ pwm = Off => Output = IF heater THEN "low" ELSE "high"
  /\ type = "LIGHTING" /\ asked \in 0..255 =>
       intensity = AtMost100(asked) /\ Output = "pwm" /\ pwm = Duty(AtMost100(asked))

\* What is reported is what the sensor has sent, also by a slow one, whose frame is
\* shifted by a bit and refused, and at any speed of the sampling loop at which the
\* threshold of 18 tells the bits apart; and the text fits its buffer, unless the sensor
\* reports 100 % of humidity and a temperature with its sign (temperature.c:40-182).
ReadingIsFrame ==
  reading # NoFrame /\ ~disturbed =>
    /\ dht.humidity = reading.humidity /\ dht.temperature = reading.temperature
    /\ ~dht.negative
    /\ \/ ReplySize(dht) <= REPLY_BUFFER_SIZE
       \/ reading.humidity = 1000 /\ reading.temperature >= 10000

=============================================================================
