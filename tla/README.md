# Verification of the ESP8266 IoT firmware

TLA+ specifications of the firmware in `src/`, their TLC configurations, and
proofs checked by TLAPS. Paths below are relative to `src/`.

## 1. The system

The firmware turns an ESP8266 into a networked device: a temperature sensor, a
light, a heater or a serial camera. A phone application talks to it over TCP
(commands and replies) and UDP (discovery); it may also report to an MQTT broker.
There is no operating system beyond the SDK's event loop.

**Contexts.** The SDK runs *tasks* (each with a bounded queue of events),
*timer callbacks*, *callbacks of the TCP stack* and *Wi-Fi event handlers*
from one loop; they do not preempt each other. The *GPIO interrupt* preempts all of
them unless it is locked. The code locks interrupts around its queues and
around the flags of `server_task`.

| Component (files) | State | Operations |
|---|---|---|
| TCP server (`user/server.c`) | `recvq`, `sendq`, event queue of 20, the statics `sending`, `more_fragments`, `sending_*` of `server_task` | `server_task` on RX, TX, TX_DONE; connect, disconnect, receive and sent callbacks; `tcpserver_send`; open and close |
| Message queues (`user/message_queue.c`) | linked list of messages, each owning a heap block | push, unshift, clear, empty |
| Command parser (`user/parser.c`) | none of its own | one branch per command, one group per device type |
| Serial camera (`user/camera.c`) | `IS_CAMERA_BUSY`, `previous_rxbuffer`, `unlock_timer` | take, read size, read content, stop, ratio, size, reset; the timeout; completion |
| Software UART (`user/software_uart.c`) | the global `buffer`, `byte_count`, the interrupt mask | create and destroy a buffer, send, receive a byte (interrupt) |
| Wi-Fi mode (`user/wifi.c`, `user/network_cmds.c`, `user/user_main.c`) | opmode and saved station (both in flash), two flags, the registered handler, the timers | boot, Run AP, Connect, GOT_IP, DISCONNECTED, boot timer, `init_done`, restart |
| Device configuration (`user/device_config.c`, `user/flash.c`) | one flash sector: guard, name, room, type, length, data | set name, room, type; read; `DeviceInit` |
| MQTT (`user/mqtt.c`, `esp_mqtt/mqtt/`) | connection state, packet queue, input buffer, identifiers, timers, event queue of 1 | connect, publish, subscribe, task, TCP callbacks |
| Drivers (`user/temperature.c`, `lighting.c`, `heater.c`) | one pin, the PWM, last values | get, set, initialisation |
| Locator mode (`user/wifi.c`) | the mode, its timer, two power values | start, stop, set power |
| UDP discovery, helpers | none | one reply per datagram; formatting |

**Interactions.** The receive callback pushes to `recvq` and posts RX;
`server_task` takes the message and calls the parser, which calls a driver. Replies
go to `sendq` and are sent by `server_task` in chunks, one TX_DONE (sent
callback) at a time; but `Temperature Get` and `Lighting Get` send directly. A
picture is pushed to `sendq` by the *interrupt* that receives its last byte.
`Connect`, `Run AP`, the boot timer and the Wi-Fi handler close and open the
server and so clear the queues; `go_back_to_ap` also arms a timer that runs
`init_done` and so `DeviceInit` again, under a camera that may be in use.

**What is hard.** Posts to full event queues are lost silently; refused chunks and
disconnects lose sent callbacks; the interrupt and the timer race for the
camera's buffer; Wi-Fi events are handled long after they happened; power may be
lost in the middle of a save; nothing is ever retried. `PROJECT.json` lists
these hazards line by line, each with the properties that watch it.

**What makes each component correct.**
*Server:* each block has one owner; replies leave whole and in order; no sleeping
with work left. *Camera:* no dangling buffer, one request at a time, every lock
ends. *Wi-Fi mode:* restarts only for the networks of this session, always
reachable in the end, instructions kept. *Configuration:* read whole or refused, a
saved one kept, other fields untouched, the driver matches. *MQTT client:* no lost
wakeup of its task, the queue moves, a connection that is over is tried again, nothing
is freed that is in use. *MQTT packet queue:* packets come out whole and in order.
*MQTT session:* a packet is delivered with its own data, and answered with its own
identifier. *List:* a FIFO, whatever the interrupt does. *Software UART:* bytes arrive
as they were sent. *Drivers:* the pin does what its present owner wants; a reading is
what the sensor sent. *Locator mode:* it ends.

## 2. Modules

| Module | Models | Check |
|---|---|---|
| `MessageQueue` | the FIFO, as operators on sequences | through `Server` |
| `Server` | `server.c`, with the parser as seen by it | `MCServer`, two configurations |
| `TxChannel` | abstract: what the send path promises | `SendsInOrder` in `MCServer.cfg` |
| `ServerProofs` | theorems about `Server` | TLAPS |
| `Camera` | `camera.c`, `software_uart.c`, `DeviceInit` for a camera | `MCCamera`, two configurations |
| `CameraProofs` | theorems about `Camera` | TLAPS |
| `WifiMode` | `wifi.c`, `network_cmds.c`, `user_main.c` | `MCWifiMode`, two configurations |
| `WifiModeProofs` | theorems about `WifiMode` | TLAPS |
| `DeviceConfig` | `device_config.c`, `flash.c` | `MCDeviceConfig` |
| `DeviceConfigProofs` | theorems about `DeviceConfig` | TLAPS |
| `PacketQueue` | `esp_mqtt/mqtt/`: `ringbuf.c`, `proto.c`, `queue.c`, and how `mqtt.c` uses them | `MCPacketQueue`, two configurations |
| `PacketFifo` | abstract: what the packet queue promises | `PacketsInOrder` in `MCPacketQueue.cfg` |
| `PacketQueueProofs` | the proof that `PacketQueue` implements it | TLAPS |
| `MqttClient` | `esp_mqtt/mqtt/mqtt.c`, `user/mqtt.c` | `MCMqttClient` |
| `MqttClientProofs` | theorems about `MqttClient` | TLAPS |
| `MqttMessage` | `esp_mqtt/mqtt/mqtt_msg.c`: packets as bytes, as operators | through `MqttSession` |
| `MqttSession` | `mqtt.c` in a session, byte by byte | `MCMqttSession` |
| `MqttSessionProofs` | theorems about `MqttSession` | TLAPS |
| `QueueList` | `message_queue.c`: the linked list, store by store | `MCParts` |
| `MessageFifo` | abstract: what that list promises | `ListImplementsFifo` in `MCParts.cfg` |
| `SoftwareUart` | `software_uart.c`: the bits and the clock | `MCParts` |
| `Drivers` | `heater.c`, `lighting.c`, `temperature.c`, `DeviceInit` for them | `MCParts` |
| `Locator` | locator mode in `wifi.c`, with its commands in `parser.c` | `MCParts` |
| `PartsProofs` | theorems about `SoftwareUart` and `Drivers`, and that `QueueList` implements `MessageFifo` | TLAPS |

Definitions marked *(A bug)* are not part of the specifications: they are the
mutated forms named in `PROJECT.json`, against which each property is tried.

### Server

`recvq`, `sendq` and `evq` are the queues; `sending`, `more` and `cur` the statics
of `server_task` (`cur` joins `sending_conn`, `first_sending_chunk`, the offset of
`current_sending_chunk` and `sending_len`). `pc` and `job` say where the task is
and which message it holds: the task is split where it unlocks interrupts and goes
on (`server.c:45-57`, `63-92`, `103-136`). Between two such places any callback may
run. That is more than the SDK does (only the interrupt preempts the task), so
the safety results do not depend on how the SDK schedules. A callback is one action.

`heap` is the set of allocated blocks; `unacked` the sent callbacks the stack owes.
`Sent` is `espconn_sent`: it takes the chunk or refuses it, and the code carries
on either way. Ghosts: `leaked` (a received message whose push failed), `lost` (a
TX or TX_DONE that was refused, a chunk refused, a client gone with its sent
callbacks) and `lostRx`. `WakeupPending`, `QueueDrains` and `ReceivedIsParsed`
say nothing of the time after such a loss, because then the code really does wedge:
see the hazards at `server.c:72`, `224` and `264`. `OwnedOnce`, `ControlOK` and
`SendsInOrder` hold through all of it.

`DirectReplies` says whether the device type answers by `espconn_sent` itself.

`ServerInit` is `server_init_tcp`: it clears the queues, and registers the task
again. What the SDK does with events pending at that moment is not known, so both
outcomes are there. The statics keep their values.

### TxChannel

Accepted messages are a sequence, of which the head may be partly sent. Packets
leave from the head; closing drops messages that have not been started. The
refinement maps to it the message in hand (`pc = "tx"`) or the remainder of the
fragmented one (`more`), followed by `sendq`.

### Camera

`buffer`, `count` and `intr` are the UART; `live` the allocated `rx_buffer`s; a
pointer may be to a block that is no longer live. `pc`, `op` and `mine` are the
request that runs. A request spins while its bytes come in, so `ReadByte` (the
interrupt) falls between any two of its steps. Dereferencing NULL or a freed block,
or writing beyond the end of one, sets `fault`, after which the SDK's exception
handler reboots the device. The size of a picture's buffer is computed in `Word`
values (2^16 in the code): it may wrap to a short buffer, which merely cuts the picture,
or to none, which is never full and is overrun by the first byte.

Two situations break the read of a picture: the device is initialised during it
(`camera.c:612`), or its last byte arrives when the callback of `unlock_timer` has
already been entered (`camera.c:51-62` against `75-96`). They set the ghost
`disturbed`, and `NoFault`, `NoLeak` and `PictureExclusive` speak of executions
without them. The first is also a finding.

`camera_picture_recv_done` frees the structure and leaves the UART pointing to it;
the interrupt is disabled by then, which is why `NoFault` holds.

### WifiMode

Built with `USE_AS_LOCATOR`, as the Makefile builds it: station mode means
`STATIONAP`. `events` is the queue of radio events the SDK has not delivered;
handling one is a whole handler, with the GOT_IP handler's `sta_server_init` and
`mqtt_start`. Every SDK call that can fail has a disjunct in which it does, and
sets `sdkFailed`; `attempt` says that a network was joined or asked for in this
session; `stale` that `go_back_to_ap` ran with a GOT_IP still queued.
`opmode` and `saved` are in flash and survive `Restart`. `AlwaysReachable` excuses
`sdkFailed`, `stale`, and a network that is lost session after session before
its GOT_IP is handled (`Flap`): the handler then finds no address to listen on.

### DeviceConfig

The sector is a function from words to values; a word stands for a field (guard,
name, room, type, length, data), in the order of their addresses. A save erases and
then writes word by word. `Crash` may fall between any two and loses everything
but the sector. `torn`, `saved`, `last` and `basis` are history: whether the last
save was cut short, the last one that was not, the last one begun, and what the
command started from. `InitAgain` is `DeviceInit` called by the timer of
`go_back_to_ap` in the middle of a command.

### PacketQueue and PacketFifo

The ring is kept byte by byte, with its read and write indices and its count; a
packet is a sequence of bytes. `AddRb` puts a frame, or as much of it as the ring has
room for (that is what the code leaves behind when it gives up), `ParseRb` reads to
the end of the next frame, and `Parsed` is what `PROTO_ParseByte` has made of it (`States`
has the parser after each byte).
`PROTO_Init` does not set `isBegin`; the model lets the first byte find it either way.
The loop of `MQTT_Publish` and `MQTT_Subscribe` is `Publish`, `PublishPut` and
`PublishDrop`. `got` is the packet a step took out.

`PacketFifo` knows neither bytes nor room: a packet is put at the end or refused, and
the first one is taken. The refinement maps its `pending` to `Complete`, computed from the
ring without the parser: for each END in the ring, in order, the packet whose whole frame
ends there.

### MqttClient

The connection states that the code uses, with the broker given by address and without
TLS, as `user_config.h` configures it. A callback, a tick of the timer and a run of
the task are one action each. `posted` is the event queue of one entry. `tcp` is what
the TCP stack does with the current `pCon`, `owed` the sent callbacks it owes for it.
`msgQueue` holds the types of the queued packets; how many fit depends on their
lengths, so that putting one may refuse it (`PutQuietly`), or drop any number of
others, or all (`PutDropping`): `PacketQueue` has the details. Ghosts: `orphan`, that
`mqtt_start` or `mqtt_stop` freed a `pCon` the stack was using (its callbacks may still
come, `OrphanCb`), and `failed`, that the stack had no memory.

A run of the timer that is due a keep-alive sets `sendTimeout` although a packet may be
waiting, and counts it down without posting: that the queue moves all the same is
`QueueMoves`, and that there is always an event or a callback behind what waits is
`WakeupPending`. What a segment is answered with is any number of packets here;
`MqttSession` has the details.

### MqttMessage and MqttSession

`MqttMessage` has the functions of `mqtt_msg.c` as operators on sequences of bytes. The
checks of a buffer's room add up to `Fits`. A reader's result is a `Slice`: where it
points into the buffer, and a length; `Null` keeps the length that the code leaves
unset. `mqtt.c` sends neither dup nor retain.

`MqttSession` is `mqtt_tcpclient_recv` in the state `MQTT_DATA`: `ReadPacket` is one turn of
the loop at `READPACKET`. `in` is `in_buffer`, in which a short segment leaves the
bytes of a longer one; the code reads the identifier as far as the *buffer* goes and
the rest as far as the *segment* does, and both are as in the code. A broker
(`Wire`, written after the standard and not after `mqtt_msg.c`) sends up to three packets
in a segment, or one cut in two. `out` and `delivered` are what the callback queued and
passed to `mqttDataCb`. `Publish`, `Subscribe` and `Connect` write packets with the same
counter of identifiers.

`IncomingAssumption` says what a broker may send: a PUBLISH has a topic, and an identifier
exactly when its quality of service is above 0; a PUBREC and a PUBREL are an identifier and
nothing else, as in MQTT 3.1. `BufAssumption` limits the buffer to lengths that fit two
bytes, which is all that `fini_message` writes (`mqtt_msg.c:105`); the firmware has 1024.

`DeliveredInOrder` and `AnswersMatch` compare with what the broker sent, for the packets
that are looked at: those up to the first that is not a PUBLISH, as the others are
dropped (`mqtt.c:224`). What the code makes of cut packets is not judged ("Not
Implement yet", `mqtt.c:231`), but they leave their bytes behind. The data of an empty
message with an acknowledgement is NULL with a length (`mqtt_msg.c:213`), which
`DeliveredInOrder` excuses (`NoData`).

### QueueList and MessageFifo

The `next` fields of all blocks, `stqh_first` and `stqh_last` are the state; a push or an
unshift is one step, as their callers lock interrupts, and `MessageQueue_clear` is a step
per store. `ListPush` may fall between any two of them, as the interrupt of the camera
may. A free block may be allocated again by the next push. `MessageFifo` promises a
FIFO and intact memory up to the first push that falls into a clearing, and
afterwards only that every message that does come out was pushed, in order. `Listed`, the
blocks in the list, is the sequence along `next` from `first` to NULL. The last of
these disjuncts (`raced`: the queue is replaced by the new message) is the push between
the two stores of `STAILQ_INIT`: `stqh_last` then still points into a list that
`stqh_first` has forgotten, or the other way round.

### SoftwareUart

Times are integers in units of which a period of the processor's timer (3.2
microseconds, `NOW()`) and a bit of the line are both multiples. `StartBit` chooses when
in a tick the line falls and how late the handler is entered; every wait is
`TOTICKS` of the code, with both its truncations. `ReadBit` reads the level that the line
has at that time; `ReadDone` also checks that the handler returns before the next start
bit. The other end is taken to keep its rate exactly.

### Drivers

The three drivers use the same pin. `pin` is its latch, `pwm` the duty of a PWM that
overrides it (`Output`). `SetType` is `DeviceConfig_set_type`: the type is saved, then
`DeviceInit` runs and may fail (`ready`). The line of the sensor is a sequence of pulses,
sampled in rounds of a duration that the compiler and the SDK determine: `Periods`
holds 1.5, 2.5 and 3.6 microseconds, the range in which the threshold of 18 samples tells
a 1 (70 microseconds) from a 0 (26). A slow sensor answers later, which shifts the frame
by one pulse; the code's checksum (of five *bits*) refuses that. `disturbed` says
that the PWM was driving the pin during a reading.

### Locator

Commands of any number of phones start and stop the mode, in any order, around its
timer. `power` is what the radio was told last.

### MCParts

The last four modules share no state, and are checked in one run: `part` chooses at the
beginning which of them moves. It is a matter of running them, not a model of the device.

## 3. What the runs show

Bounds are in the `.cfg` files; no guard of an action mentions any other bound
than these constants.

| Run | Bounds | Shows |
|---|---|---|
| `server_safety` | 2 connections, 3 blocks, lengths 1 and 3 with MTU 1, event queue 2, 2 unacknowledged chunks; symmetric in connections and blocks | one owner per block, consistent flags, no lost wakeup of either path; `Server` implements `TxChannel` |
| `server_live` | 1 connection, 2 blocks, event queue 2 | both queues drain unless a wakeup is lost |
| `camera` | 3 buffers, 16-bit numbers cut to 2 bits, pictures that fit, wrap to 1 byte and to none | memory safety, exclusion, both timeouts |
| `camera_unlock` | the same | violated: see section 5 |
| `wifi` | 3 pending events | restarts, quiet until the restart, reachability |
| `wifi_instruction` | 2 pending events | violated: see section 5 |
| `device_config` | 2 names, 1 room, all types | saves, crashes, failures |
| `packet_queue` | ring of 8 bytes, packets `5D`, `7D`, `7F 5E` | `PacketQueue` implements `PacketFifo`; the counters agree; publishing ends |
| `packet_drop` | the same | violated: see section 5 |
| `mqtt` | keep-alive 2 ticks, pause 1, send time-out 2, 3 packets, 2 chunks | no lost wakeup, clean reconnection, both kinds of progress |
| `mqtt_session` | buffer of 140 bytes, 7 packets, segments of up to 3, cut at 5 places, 2 calls, identifiers from 0 and 65534 | delivery, answers, and what the client sends |
| `parts` | 3 blocks; 6 bytes at 9600, 19200 and 38400 baud, 9 phases of the clock and latencies up to 13 microseconds; 5 frames, 6 intensities; 3 power values | the list, the UART, the drivers, locator mode |

Why they are enough. Three blocks let one message be partly sent while another is
in hand and a third queued; a message of three packets has a first, a middle and
a last one; event queues of two are filled by these blocks, so posts
are lost. Symmetry is used in safety runs and in the refinement, whose
specifications treat connections and blocks alike; the liveness run has none. A
camera needs one buffer for the request, one for a picture and one for a
picture that was abandoned. Three radio events hold a GOT_IP, a DISCONNECTED and the one
caused by taking the interface down. In the configuration, a second name is
needed to tell an old value from a new one; rooms behave as names do. The packets have
frames of 3, 4 and 5 bytes: in 8 bytes they are accepted and refused at every position of
the ring, and abandoned anywhere, also behind an escape byte; `5D` is what `7D` is
stuffed to. A send time-out longer than one tick, and a keep-alive of two, let a
keep-alive fall between a packet and its callback. The messages of `mqtt_session` have
bodies of 127 and 128 bytes, where their length takes a second byte, and of just more than
the buffer takes; two calls are a segment and one that finds its bytes in the buffer
(the code keeps nothing else from one to the next but the counter, which starts at its
boundary). `parts`: three blocks make a list with a first, a middle and a last one, and one
that is freed while it is read; the bytes are those that hide or show a shift by one bit
(all 256 were run once, with the same result); the frames include both ends of the
humidity and a temperature with its sign.

Lists are bounded by the number of blocks, the event queue by `QLen`; both are
bounds of the system as well (the heap; `SERVER_TASK_QUEUE_LEN`). `MaxUnacked`
bounds the chunks the TCP stack takes, `MaxEvents` the radio events, `MaxCalls` the
segments and requests of an MQTT session.

**Deadlock** is checked except in the runs of `WifiMode` and `MqttSession`. The latter
ends after `MaxCalls`. In `WifiMode` the system really may stop: when the SDK failed to set the mode or start the access point, the device
has no server, no timer and no network, and nothing happens until it is switched
off.

**Fairness.** `Server`: `server_task` runs whenever it has an event (the SDK
schedules it), and the stack delivers each sent callback it owes on a connection
that stays up. Nothing is assumed of clients. `Camera`: the request that runs goes
on, timers expire, an exception reboots. The camera itself may be silent for ever:
no fairness on `ReadByte`. `WifiMode`: queued events, timers and the restart
happen, and an attempt to join ends in success or failure. Nothing is assumed of the
user, and a network may refuse for ever. `PacketQueue`: a function that runs is not
interrupted. `MqttClient`: the task runs when it has its event, the timer ticks, the
stack delivers sent callbacks of a connection that stays up; and strong fairness on the
task's sending, because a keep-alive, once in 60 seconds, does not fall every time into
the milliseconds between a sent callback and the task. Nothing is assumed of the broker.
`Locator`: the timer expires; nothing is assumed of the phones.

## 4. What is proved

`ServerProofs` proves, for any sets of connections, blocks and lengths, any MTU,
queue length and number of unacknowledged chunks that satisfy `ServerAssumption`
(positive numbers, and `None` distinct from messages and fragments):

- `ServerTypeCorrect`, `ServerTypeOK`: `TypeOK` and `ControlOK`. `TypeOK` is not inductive alone:
  that `job` is a message when the task uses it, and `cur` a fragment when there are
  more, comes from `ControlOK`; the two together are.
- `ServerOwnsBlocksOnce`: `OwnedOnce`, by the invariant `Inv`, which is `TypeOK`,
  `ControlOK` and `OwnedOnce`. Per step, the lemmas on `Blocks` say how pushing and
  unshifting change the blocks of a queue and keep them distinct; `ControlOK`
  gives that a message is taken in hand only when none is partly sent.
- `ServerKeepsWakeups`: `WakeupPending`, on top of `TypeOK` and `ControlOK`. The
  argument is about which event or callback stands behind `sending`: lemmas say
  that a post that does not fail makes its event pending and keeps the
  others, and that taking an event other than the awaited one keeps it.

The lemmas about sequences (`AppendSeq`, `TailSeq` and those on `Post`, `Push` and
`Unshift`) are stated once and cited by name.

`MqttClientProofs` proves, for any times, queue size and number of chunks that satisfy
`MqttAssumption`, `TypeCorrect` (`TypeOK`), `ConnAck` (`ConnAckExpected`),
`CleanReconnect` (`ReconnectIsClean`) and `NoLostWakeup` (`WakeupPending`), from one
inductive invariant. What `WakeupPending` needs besides itself is `WaitsForCallback`:
while `sendTimeout` runs, the stack owes a callback (unless it failed). When the task
finds a packet and does nothing, `sendTimeout` is running, and so the event that it has
just consumed is not the last one.

`RxAccounted` (`ServerAccountsRx`) is inductive on top of `TypeOK` and `ControlOK`. It
counts: lemmas give the number of RX in a queue of events after one is posted or taken, and
each step that pushes to `recvq` posts one, each that takes one unshifts `recvq`.

`SendsInOrder` (`ServerSendsInOrder`) is the refinement of `TxChannel`: `Tx!Init` from
`Init`, and a step of `Tx!Next`, or none, from every step of `Next` in a state of `TypeOK`
and `ControlOK`. `Outstanding`, the refinement mapping, is what is left of the message in
hand or of the fragmented one (`Left`, at most one chunk by `ControlOK`), then `sendq`
(`Waiting`). One lemma for each kind of abstract step (quiet, accept, drop, the last packet
of a message, a packet before the last) says when a step of the task is that.

`CameraProofs` proves `CameraTypeOK`, `CameraMemorySafe` (`NoFault`), `CameraFreesAll`
(`NoLeak`) and `CameraReadsOnePicture` (`PictureExclusive`), for any addresses, any lengths
and any width of a number that satisfy `CameraAssumption` (a header shorter than the
largest number, lengths that are numbers, NULL not an address). `TypeOK` is inductive by itself,
disturbed or not. The others are not, even together: which buffer the interrupt may write to
depends on who owns it. The invariant says that an undisturbed camera is at rest, or asks, or
is between the two halves of Get Picture (before or after the buffer is created), or reads a
picture, and what `live`, `buffer`, `count` and the interrupt are in each. The only misuse of
memory that is left is the picture without a buffer (`Overrun`).

`WifiModeProofs` proves `WifiTypeOK`, `RestartStaysQuiet` (`QuietRestart`) and
`RestartIsEarned` (`RestartOnlyFromSession`, an action property), for any bound on the
pending events. The bound on `events` needs `RoomForDown`: the radio, while it is up,
leaves room for the event of taking it down. `QuietRestart` needs that who has called for
a restart has unregistered the handler; `RestartOnlyFromSession` needs `FlagsEarned`:
behind each flag, *and behind each GOT_IP that is still queued*, there is a network of this
session (or a GOT_IP that `go_back_to_ap` left behind). A device whose mode was never set
has no network (`NoneIsIdle`), which is where the first session begins.

`DeviceConfigProofs` proves `ConfigTypeOK`, `ReadsOneSave` (`ReadIsWhole`), `SavedStays`
(`SavedIsKept`), `DriverIsConfigured` (`DriverMatches`) and `OtherFieldsStay` (`OthersKept`,
an action property), for any names and rooms, none of which is what erased flash reads as
(`ConfigAssumption`). The heart of it is `SectorOK`: the sector always holds the first *k*
words of the last save that was begun, and is erased behind them. With the guard as the first
word and the length behind name, room and type, a prefix that the code takes for a
configuration (it refuses an erased length) has at least the first five words of one save. `DriverOK` follows the driver through a command:
between commands it is that of the sector, and a command that does not change the type writes
back the type that the driver has.

`PartsProofs` proves:

- `DriverOutput`: `OutputAsAsked`, for any levels asked for. What `OutputAsAsked` says of a light
  is remembered by `LightAsAsked` while the type is another one, so that it is true again
  when the type comes back.
- `DriverReading`: `ReadingIsFrame`, for every frame of at most 100 % and any 16 bits of
  temperature, with a slow sensor or not, and for every duration of a round from 1.5 to 3.6
  microseconds; `PulseSamples` shows that these are durations for which 18 samples tell the
  pulses apart and the last pulse ends before the sampling does. The line is followed pulse by
  pulse (`DecodedBit`), so that `get_data_bits` has a 1 where a long pulse was (`Decodes`). A
  slow sensor puts a 1 before the bits of the humidity, of which the first four are 0 up to
  100 % (`HumidityBits`), and the five bits of the checksum then do not add up (`LineRead`):
  a frame that is accepted is in its place. That set_dht gets the number back from its bits is
  `ValueOfBits`. `SensorInv` adds that the sign stays off as long as no reading is disturbed.
- `UartBytes`: `BytesAsSent`, for every byte, at each of the three rates, for every phase of the
  clock in its tick and every lock of interrupts of at most 13 microseconds
  (`UartAssumption`; at 14, and at the higher rates, it is false, see section 5). `UartInv`
  says after which tick the handler has read its n-th bit. That this tick falls
  into the n-th bit on the line is arithmetic, once for each rate (`Sampled9600` and so on):
  the truncations of `bit_delay` and `TOTICKS` are bounded over the whole byte.

`PartsProofs` proves also that `QueueList` implements `MessageFifo` (`ListIsFifo`), for any
finite set of blocks that does not contain NULL. `Listed` is a choice, so the proof begins
with what it may choose: two sequences along `next` from `first` to NULL are the same, as
at the first place where they differ they would follow one block, or NULL
(`SameList`; the first place comes from `LeastNatural`, which rests on the well-foundedness
of the natural numbers). So it is enough to show a list after each step (`ListedIs`).
`ListInv` says, outside of a clearing, that there is a list without repetition, of live
blocks, that `last` is its end (or, after a late push, points to the head), and that no other
block is live (unless a push was late); in the loop, where `msg` is in the list that was there,
and that what comes before `prev` is free. Nothing is known of the loop once a message was
pushed into it, and nothing has to be: the queue is empty for the abstract one, and its
memory need not be intact. Each step of the list is then shown to be one of `MessageFifo`.

`PacketQueueProofs` proves `QueueTypes` (`TypeOK`) and `QueueIsFifo` (`PacketsInOrder`, the
refinement of `PacketFifo`), for any packets of bytes whose frames fit the ring and that the
buffer of the reader holds, and any size of the ring (`PacketAssumption`; in the code a packet of 1024
bytes may need 2050, and the ring has 2048, which only a packet with more than 1022 bytes to
be stuffed would reach). `QueueInv` says that every byte in the ring is in the frame of a
packet or in the first part of one (`Framed`), and that the packets whose frames are complete
can be listed with the places where they end (`Holds`). The lemmas, in order: recursion over the bytes of a packet
(`Run`, `UpTo`: steps given as functions, as the induction theorems of the library cannot be
used); a begin is only first in a frame and an end only last (`FrameMarks`); a frame is read
as its packet whatever the parser was before (`ParseFrame`), so that different packets have
different frames; what a whole frame, a part of one, or taking up to the first end makes of
the list (`AddedWhole`, `AddedPart`, `TakenFrame`); and the arithmetic of the ring
(`AddBytesAdds`, `TakeBytesTakes`).

`MqttSessionProofs` proves `SessionDelivers` (`DeliveredInOrder`), `SessionAnswers`
(`AnswersMatch`) and `SessionSends` (`SentAsAsked`), for a buffer of any size that
`BufAssumption` allows, segments of any number of packets, any topics and data, and segments
cut anywhere, from `SessionInv` (`SessionInvariant`). While a segment is read, `SessionInv`
says that there is a number *j* of packets that were read (`Reading`): what is left of the
segment is what is behind them, they were all PUBLISHes, `out` holds their answers, and each
was delivered. The argument, in the order of the lemmas:

- Concatenations. `FlattenSeq` is a recursive function over a sequence; `Joins` is the function
  of its prefixes, so that the place of the j-th packet in a segment is a sum of lengths
  (`NextWire`) and a step of the loop moves from one to the next.
- Lengths. `LengthEndIs` and `TotalLengthIs` say what `mqtt_get_total_length` makes of the one or
  two bytes of length that a packet for which the buffer has room begins with.
- A packet at the beginning of a buffer (`AtBegin`) is read in the same way whatever is behind it:
  its type, length, topic, data and identifier. This is why the identifier may be looked for
  as far as the buffer goes, and what earlier segments have left there never matters. Only the
  data of an empty message at the end of a segment depends on the segment's length (`NoData`).
- What is written. A PUBLISH and a SUBSCRIBE are compared with the broker's form of them byte by
  byte (`Wire`); a CONNECT by where its strings begin (`At`, `ConnectIs`), how one is read there
  (`StringRead`), and what each flag is in the sum of the flags (`FlagsAre`).

Each of these invariants was first checked by TLC in the configurations of section 3, except
`SessionInv`, whose functions of prefixes are choices of a function that TLC cannot enumerate; those of
its conjuncts that are properties are checked there.

All invariants and action properties of the runs are proved. Model-checked only: everything about
liveness (`QueueDrains`, `ReceivedIsParsed`, `PictureEnds`, `RequestEnds`, `AlwaysReachable`,
`PublishEnds`, `Reconnects`, `QueueMoves`, `LowPowerEnds`), which is out of the prover's
reach. The ASSUMEs are evaluated by TLC for the constants of the runs.

## 5. Where the code departs from its comments

- `camera_unlock`. `camera.c:287-288` says the camera is not unlocked until the data
  has come or the timeout has occurred; `Camera_init` unlocks it unconditionally
  (`camera.c:612`) and runs again after `go_back_to_ap` and after a new type.
- `wifi_instruction`. `wifi.c:66-67` says that an unsuccessful Connect restarts the
  device. The boot timer is never disarmed; when it expires during the attempt, the
  device goes back to access point mode and forgets the instruction. The
  counterexample joins the saved network, gets Run AP and then Connect, all within
  seven seconds of boot, and needs no failing SDK call.

- `packet_drop`. `mqtt.c:407` (in `esp_mqtt/mqtt/`) calls a full queue without a packet
  to drop a serious buffer error, which it treats as impossible. A refused frame leaves
  its first part in the ring and so fills the room that each dropped packet has made: the
  loop drops every packet of the queue, and then loses the publication too, which
  would fit an empty ring. The firmware gets there with a ring nearly full of short
  packets when `mqttConnectedCb` subscribes and publishes.

Observations that no comment of the repository contradicts, each excused by name in the
property it belongs to:

- `camera.c:259` wants to free the buffer of a previous request that was never finished.
  `destroy_rx_buffer` first flushes through the UART's pointer, which the size request just
  before has reset to NULL (`fault = "previous"` in `Camera`; only after the unlock above).
- `camera.c:271`: a picture of 65526 bytes gets a buffer of none (`NoFault`).
- `message_queue.c:30`: a push by the interrupt between the two stores of `STAILQ_INIT`
  makes the *next* push lose the message; between the steps before it, the message or its
  memory is lost, or a freed block is written (`MessageFifo`).
- `Camera_set_baud_rate` offers 57600 and 115200 baud, which the software UART cannot
  do: a bit lasts 5.4 and 2.7 ticks, of which the truncations leave 5 and 2. `BytesAsSent`
  fails with either, and at 38400 with a latency of 14 microseconds. Nothing calls that
  function.
- `mqtt_msg.c:213`: the data of an empty message that asks for an acknowledgement is NULL,
  with the length of the whole segment, and `mqttDataCb` copies it (`NoData`).
- `lighting.c`: nothing stops the PWM when the type changes; a heater that follows a light
  is driven by it (`pwm = Off` in `OutputAsAsked`).
- `parser.c:187`: `Lighting Set:256` is 0, not 100; `Power:300` is 44, not 82.
- `temperature.c:49`: the sign is looked for in the humidity. A temperature below zero is
  reported as 32768 more than its amount, without a sign; with a humidity of 100 % the
  reply then is a byte longer than its buffer (`ReadingIsFrame`).

## 6. Abstractions and what is not modelled

- Data: commands, replies, names and pictures are abstract; a message is its
  connection, block and length. A failed allocation is a disjunct of its action.
- `MessageQueue_clear` is one step in `Server`; `QueueList` has its steps. The two are not
  composed: what the server does after a push in the middle of a clearing is not known.
- The bytes of the camera's protocol. A camera whose own clock is off.
- `Camera_power_saving_on`, `Camera_power_saving_off`, `Camera_set_baud_rate`,
  `DeviceConfig_set_data` and `Lighting_toggle_light`: nothing calls them.
- MQTT: name resolution and TLS (not configured), `PROTO_Add`, `PROTO_Parse`,
  `mqtt_msg_unsubscribe` and `mqtt_msg_disconnect` (not called), memory that was freed and
  then used again (a late callback finds the structure as it was).
- A broker that never answers CONNECT: the code waits for ever, and no property says
  otherwise (see the hazard at `mqtt.c:357`).
- `udp_send_deviceinfo` (one reply, no state), Mac Get, splitting a command into words,
  `helper.c` and `mqtt/utils.c` (formatting), the RF pre-init hook (empty).
- Temperature: the two buffers that a failed reading leaks, and the sample written one past
  the end of `raw_data` (`temperature.c:139`).
- `esp_mqtt/user`, `esp_mqtt/modules`, `esp_mqtt/driver` and the tools are not linked
  into the firmware.

## 7. Plan

Done, in this order: `MessageQueue`, `Server` with `TxChannel`, `ServerProofs`,
`Camera`, `WifiMode`, `DeviceConfig`, `PacketQueue` with `PacketFifo`, `MqttClient`,
`MqttClientProofs`; then `MqttMessage` with `MqttSession`, `QueueList` with `MessageFifo`,
`SoftwareUart`, `Drivers`, `Locator`, and the lengths of pictures in `Camera`.

Then the proofs, in this order: `WifiModeProofs`, `DeviceConfigProofs`, `CameraProofs`,
`RxAccounted` and the refinement of `TxChannel` in `ServerProofs`, `PartsProofs`,
`PacketQueueProofs` and `MqttSessionProofs`.

What a next step would be: that a device in locator mode has its timer; and
compositions: `Server` with `Camera`, for the connection of a picture; `WifiMode` with
`MqttClient`, for the calls of `mqtt_start` and `mqtt_stop`.
