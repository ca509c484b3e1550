------------------------------- MODULE Camera -------------------------------
(***************************************************************************)
(* The serial camera: user/camera.c, the bit-banged UART under it           *)
(* (user/software_uart.c), the camera branch of tcpparser_process_data and  *)
(* the initialisation of the device by DeviceInit.                          *)
(*                                                                         *)
(* A command allocates an rx_buffer, points the UART's global `buffer' at   *)
(* it, sends its bytes and spins until the interrupt has filled the buffer  *)
(* or 10 ms have passed.  Reading a picture does not spin: the command      *)
(* returns with the camera still marked busy, and either the interrupt      *)
(* (picture complete) or unlock_timer (10 s) finishes it.                   *)
(*                                                                         *)
(* Requests run one at a time, in server_task or, for DeviceInit, in a      *)
(* timer callback: the tasks and timers of the SDK do not preempt each      *)
(* other, only the interrupt does.  pc is the common program counter.  The  *)
(* response of a command is one byte here.                                   *)
(***************************************************************************)
EXTENDS Naturals, Sequences

CONSTANTS Ids,    \* heap addresses an rx_buffer may get
          Lengths, \* bytes of a picture, as the camera may report them
          Header,  \* what surrounds them: 2 * READ_CONTENT_RESPONSE_SIZE
          Word,    \* 2^16, the values of an uint16
          NULL

ASSUME CameraAssumption ==
  /\ Word \in Nat /\ Word > 1 /\ Lengths \subseteq 0..(Word - 1) /\ Header \in 1..(Word - 1)
  /\ NULL \notin Ids

VARIABLES
  busy,      \* IS_CAMERA_BUSY
  type,      \* device type in the configuration sector
  buffer,    \* the UART's rx_buffer: NULL, allocated, or dangling
  count,     \* byte_count
  intr,      \* the receive interrupt is enabled
  previous,  \* previous_rxbuffer
  timer,     \* unlock_timer: off, armed, or its callback has been entered
  live,      \* allocated rx_buffers
  kind,      \* what each of them waits for
  pc, op,    \* the request that runs, and which one it is
  mine,      \* its rx_buffer
  fault,     \* where memory was misused, or "none"
  disturbed  \* the device was initialised, or the timer expired, at the
             \* moment that breaks the read of a picture (see below)

wire   == <<buffer, count, intr>>
store  == <<live, kind>>
task   == <<pc, op, mine>>
ghosts == <<fault, disturbed>>
vars   == <<busy, type, wire, previous, timer, store, task, ghosts>>

Types  == {"CAMERA", "OTHER"}

\* An rx_buffer waits for the response of a command, or for a picture of n bytes.
Response   == << >>
Picture(n) == <<n>>

\* Its size is an uint16: with Word - Header bytes, a picture's is 0.
Size(b) == IF kind[b] = Response THEN 1 ELSE (Header + kind[b][1]) % Word

Requests == {"plain", "size", "reset"}

Boot(t) ==
  /\ busy = TRUE /\ type = t
  /\ buffer = NULL /\ count = 0 /\ intr = FALSE
  /\ previous = NULL /\ timer = "off"
  /\ live = {} /\ kind = [b \in Ids |-> Response]
  /\ pc = "boot" /\ op = "plain" /\ mine = NULL
  /\ fault = "none" /\ disturbed = FALSE

Init == \E t \in Types : Boot(t)

\* The program runs; and, for the code of server_task and of DeviceInit, the
\* callback of unlock_timer does not.
Running == fault = "none"
OnTask  == Running /\ timer # "fired"

-----------------------------------------------------------------------------
(* software_uart.c *)

\* (A bug) byte_count is not reset.
CreateKeepsCount(k) ==
  \E b \in Ids \ live :
    /\ live' = live \union {b}
    /\ kind' = [kind EXCEPT ![b] = k]
    /\ buffer' = b /\ count' = count
    /\ mine' = b

\* create_rx_buffer and set_rx_buffer: the new buffer is the UART's.
Create(k) ==
  \E b \in Ids \ live :
    /\ live' = live \union {b}
    /\ kind' = [kind EXCEPT ![b] = k]
    /\ buffer' = b /\ count' = 0
    /\ mine' = b

\* flush_read_buffer writes through the global buffer without looking at it.
Flushable == buffer \in live

\* destroy_rx_buffer(b): flush_read_buffer, whatever b is; then b is freed unless
\* it is NULL.
Destroy(b, place) ==
  IF Flushable /\ b \in live \union {NULL}
  THEN /\ live' = live \ {b}
       /\ buffer' = NULL /\ count' = 0
       /\ UNCHANGED <<kind, fault>>
  ELSE /\ fault' = place
       /\ UNCHANGED <<live, kind, buffer, count>>

\* There is room for one more byte; read_buffer_full.
Room     == buffer \in live /\ count < Size(buffer)
Complete == buffer \in live /\ count >= Size(buffer)

\* camera_picture_recv_done: the data goes to the send queue (or is freed), the
\* structure is freed, and the camera is unlocked; the UART's pointer is left
\* dangling.
PictureRecvDone ==
  /\ timer' = IF timer = "armed" THEN "off" ELSE timer
  /\ live' = live \ {buffer}
  /\ previous' = NULL
  /\ busy' = FALSE
  /\ disturbed' = (disturbed \/ timer = "fired")

\* bit_bang_read_byte: one byte.  The byte that completes the buffer disables
\* the interrupt and calls recv_cb, which only a picture has.
ReadByte ==
  /\ Running /\ intr
  /\ \/ /\ ~Room
        /\ fault' = "interrupt"
        /\ UNCHANGED <<busy, previous, timer, store, wire, disturbed>>
     \/ /\ Room /\ count + 1 < Size(buffer)
        /\ count' = count + 1
        /\ UNCHANGED <<busy, previous, timer, store, buffer, intr, ghosts>>
     \/ /\ Room /\ count + 1 = Size(buffer)
        /\ count' = count + 1
        /\ intr' = FALSE
        /\ IF kind[buffer] = Response
           THEN UNCHANGED <<timer, live, previous, busy, disturbed>>
           ELSE PictureRecvDone
        /\ UNCHANGED <<kind, buffer, fault>>
  /\ UNCHANGED <<type, task>>

-----------------------------------------------------------------------------
(* Requests. *)

Begin(o) == op' = o /\ pc' = "begun"

\* (A bug) Nobody asks whether the camera is busy.
CommandAlways ==
  /\ OnTask /\ pc = "idle" /\ type = "CAMERA"
  /\ busy' = TRUE
  /\ \E o \in {"plain", "size"} : Begin(o)
  /\ Create(Response)
  /\ UNCHANGED <<type, intr, previous, timer, ghosts>>

\* A camera command: refused while busy, otherwise the camera is locked.  (With no
\* memory for the response it fails and unlocks the camera again, as if it had
\* not come.)  "size" is the first half of Get Picture.
Command ==
  /\ OnTask /\ pc = "idle" /\ type = "CAMERA" /\ ~busy
  /\ busy' = TRUE
  /\ \E o \in {"plain", "size"} : Begin(o)
  /\ Create(Response)
  /\ UNCHANGED <<type, intr, previous, timer, ghosts>>

\* enable_interrupts and bit_bang_send
Send ==
  /\ OnTask /\ pc = "begun"
  /\ intr' = TRUE
  /\ pc' = "wait"
  /\ UNCHANGED <<busy, type, buffer, count, previous, timer, store, op, mine, ghosts>>

\* What follows a command: Get Picture goes on when its size was read; every
\* other request of the parser unlocks the camera, Camera_reset does not.
After(ok) ==
  IF op = "size" /\ ok
  THEN pc' = "content" /\ busy' = busy
  ELSE pc' = "idle" /\ busy' = IF op = "reset" THEN busy ELSE FALSE

\* The response is there; it may be the expected one or not.
Answered ==
  /\ OnTask /\ pc = "wait" /\ Complete
  /\ Destroy(mine, "command")
  /\ \E ok \in BOOLEAN : After(ok)
  /\ mine' = NULL
  /\ UNCHANGED <<type, intr, previous, timer, op, disturbed>>

\* (Bugs) On a timeout the interrupt stays enabled, ...
UnansweredListens ==
  /\ OnTask /\ pc = "wait" /\ ~Complete
  /\ Destroy(mine, "command") /\ After(FALSE) /\ mine' = NULL
  /\ UNCHANGED <<type, intr, previous, timer, op, disturbed>>

\* ... the buffer is not freed, ...
UnansweredLeaks ==
  /\ OnTask /\ pc = "wait" /\ ~Complete
  /\ intr' = FALSE /\ buffer' = NULL /\ count' = 0
  /\ After(FALSE) /\ mine' = NULL
  /\ UNCHANGED <<type, previous, timer, op, store, ghosts>>

\* ... or the time is measured from the first byte.
UnansweredOnceStarted ==
  /\ OnTask /\ pc = "wait" /\ ~Complete /\ count > 0
  /\ intr' = FALSE
  /\ Destroy(mine, "command") /\ After(FALSE) /\ mine' = NULL
  /\ UNCHANGED <<type, previous, timer, op, disturbed>>

\* CAMERA_RESPONSE_TIMEOUT
Unanswered ==
  /\ OnTask /\ pc = "wait" /\ ~Complete
  /\ intr' = FALSE
  /\ Destroy(mine, "command")
  /\ After(FALSE)
  /\ mine' = NULL
  /\ UNCHANGED <<type, previous, timer, op, disturbed>>

\* Camera_read_content, first the cleanup of a picture that never finished.
\* (Pointers are not reset by it: previous is overwritten below.)
FreePrevious ==
  /\ OnTask /\ pc = "content"
  /\ IF previous = NULL
     THEN UNCHANGED <<live, kind, buffer, count, fault>>
     ELSE Destroy(previous, "previous")
  /\ pc' = "fetch"
  /\ UNCHANGED <<busy, type, intr, previous, timer, op, mine, disturbed>>

\* ... then a buffer for the picture; without memory the parser unlocks.
Fetch ==
  /\ OnTask /\ pc = "fetch"
  /\ \/ (\E n \in Lengths : Create(Picture(n))) /\ pc' = "request" /\ busy' = busy
     \/ pc' = "idle" /\ busy' = FALSE /\ UNCHANGED <<store, buffer, count, mine>>
  /\ UNCHANGED <<type, intr, previous, timer, op, ghosts>>

\* (A bug) Nothing limits the time a picture may take.
RequestUntimed ==
  /\ OnTask /\ pc = "request"
  /\ intr' = TRUE /\ previous' = mine
  /\ pc' = "idle" /\ mine' = NULL
  /\ UNCHANGED <<busy, type, buffer, count, timer, store, op, ghosts>>

\* ... then the command is sent and unlock_timer armed.  These are one step: the
\* shortest response takes 10 byte times (2.6 ms), the statements microseconds.
Request ==
  /\ OnTask /\ pc = "request"
  /\ intr' = TRUE
  /\ previous' = mine
  /\ timer' = "armed"
  /\ pc' = "idle" /\ mine' = NULL
  /\ UNCHANGED <<busy, type, buffer, count, store, op, ghosts>>

-----------------------------------------------------------------------------
(* unlock_timer *)

TimerExpires ==
  /\ Running /\ timer = "armed"
  /\ pc = "idle"
  /\ timer' = "fired"
  /\ UNCHANGED <<busy, type, wire, previous, store, task, ghosts>>

\* cancel_read_picture, from disable_interrupts on.
CancelReadPicture ==
  /\ Running /\ timer = "fired"
  /\ intr' = FALSE
  /\ Destroy(previous, "cancel")
  /\ previous' = NULL
  /\ busy' = FALSE
  /\ timer' = "off"
  /\ UNCHANGED <<type, task, disturbed>>

-----------------------------------------------------------------------------
(* DeviceInit *)

\* Camera_reset sends its command without locking the camera.
Reset == Begin("reset") /\ Create(Response)

\* Camera_init unlocks the camera, then Camera_reset runs.  Camera_init may refuse
\* the stored data, and Camera_reset find no memory for the response.
CameraInit ==
  /\ disturbed' = (disturbed \/ previous # NULL)
  /\ \/ busy' = FALSE /\ Reset
     \/ busy' = FALSE /\ pc' = "idle" /\ UNCHANGED <<op, mine, buffer, count, store>>
     \/ pc' = "idle" /\ UNCHANGED <<busy, op, mine, buffer, count, store>>
  /\ UNCHANGED <<intr, previous, timer, fault>>

InitType(t) ==
  IF t = "CAMERA"
  THEN CameraInit
  ELSE /\ pc' = "idle"
       /\ UNCHANGED <<busy, wire, previous, timer, store, op, mine, ghosts>>

\* init_done: after boot, and again when go_back_to_ap has switched the mode.
InitDone ==
  /\ OnTask /\ pc \in {"boot", "idle"}
  /\ InitType(type)
  /\ type' = type

\* The Type command, when the type is new and could be saved.
SetType(t) ==
  /\ OnTask /\ pc = "idle" /\ type # t
  /\ type' = t
  /\ InitType(t)

\* A misuse of memory ends in an exception and a reboot (or in corruption, of
\* which nothing can be said).
Reboot ==
  /\ fault # "none"
  /\ type' = type
  /\ busy' = TRUE /\ buffer' = NULL /\ count' = 0 /\ intr' = FALSE
  /\ previous' = NULL /\ timer' = "off"
  /\ live' = {} /\ kind' = [b \in Ids |-> Response]
  /\ pc' = "boot" /\ op' = "plain" /\ mine' = NULL
  /\ fault' = "none" /\ disturbed' = FALSE

-----------------------------------------------------------------------------
TaskStep == Send \/ Answered \/ Unanswered \/ FreePrevious \/ Fetch \/ Request

Next ==
  \/ ReadByte
  \/ Command \/ TaskStep
  \/ TimerExpires \/ CancelReadPicture
  \/ InitDone \/ \E t \in Types : SetType(t)
  \/ Reboot

Spec == Init /\ [][Next]_vars

\* The processor keeps running the request and the timer, and restarts after an
\* exception.
Fairness == WF_vars(TaskStep) /\ WF_vars(TimerExpires) /\ WF_vars(CancelReadPicture)
            /\ WF_vars(Reboot)

FairSpec == Spec /\ Fairness

-----------------------------------------------------------------------------
(* Properties. *)

Pointers == Ids \union {NULL}

\* The shape of the state; no more bytes were received than the buffer holds.
TypeOK ==
  /\ busy \in BOOLEAN /\ type \in Types
  /\ buffer \in Pointers /\ previous \in Pointers /\ mine \in Pointers
  /\ count \in 0..(Word - 1) /\ intr \in BOOLEAN
  /\ timer \in {"off", "armed", "fired"}
  /\ live \subseteq Ids /\ kind \in [Ids -> {Response} \union {Picture(n) : n \in Lengths}]
  /\ pc \in {"boot", "idle", "begun", "wait", "content", "fetch", "request"}
  /\ op \in Requests
  /\ fault \in {"none", "interrupt", "command", "previous", "cancel"}
  /\ disturbed \in BOOLEAN
  /\ buffer \in live => count <= Size(buffer)

\* The UART, the timer and the requests share pointers to rx_buffers without
\* ever using one that is NULL or freed, and no byte lands past the end of a
\* buffer, as long as the device is not initialised while a picture is read and
\* no picture completes while the callback of its timeout starts.  Only a picture whose
\* length wraps to a buffer of no bytes (camera.c:271) is written past its end.
NoFault ==
  ~disturbed => \/ fault = "none"
                \/ fault = "interrupt" /\ buffer \in live /\ Size(buffer) = 0

\* Every rx_buffer is freed in the end: it belongs to the request that runs or
\* to the picture that is being read.
NoLeak ==
  ~disturbed => live \subseteq {mine, previous}

\* The camera has one request at a time: while a picture is being read no other
\* request is on the wire, the UART fills that picture's buffer, and the timeout
\* that will unlock the camera is pending.
PictureExclusive ==
  ~disturbed /\ previous # NULL =>
    /\ busy /\ pc = "idle"
    /\ buffer = previous /\ previous \in live
    /\ timer # "off"

\* camera.c:287: the camera is not unlocked until it has received all the data or
\* the timeout has occurred.
UnlockOnlyWhenRead ==
  [][previous # NULL /\ busy /\ ~busy' => previous' = NULL]_vars

\* A camera that reads a picture is unlocked again, even when the data never
\* comes (or the device reboots).
PictureEnds == previous # NULL ~> ~busy \/ pc = "boot"

\* A request on the wire ends, even when the camera does not answer.
RequestEnds == pc \notin {"boot", "idle"} ~> pc \in {"boot", "idle"}

=============================================================================
