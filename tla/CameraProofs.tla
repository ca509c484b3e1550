---------------------------- MODULE CameraProofs ----------------------------
(***************************************************************************)
(* Theorems about Camera for any addresses, lengths of pictures and width   *)
(* of an unsigned number.                                                   *)
(***************************************************************************)
EXTENDS Camera, TLAPS

NoPicture == previous = NULL /\ timer = "off"

(* Who owns the rx_buffers, as long as nothing disturbs the read of a picture: *)

\* nobody;
AtRest ==
  /\ pc \in {"boot", "idle"} /\ mine = NULL /\ NoPicture
  /\ live = {} /\ ~intr

\* a request that waits for its response, and listens until the byte has come;
Asking ==
  /\ pc \in {"begun", "wait"} /\ mine \in Ids /\ NoPicture
  /\ live = {mine} /\ buffer = mine /\ kind[mine] = Response
  /\ pc = "begun" => count = 0
  /\ intr <=> pc = "wait" /\ count = 0
  /\ op = "size" => busy

\* nobody, between the two halves of Get Picture;
Halfway ==
  /\ pc \in {"content", "fetch"} /\ mine = NULL /\ NoPicture
  /\ live = {} /\ ~intr /\ busy

\* the second half of Get Picture, with a buffer for the picture;
Fetched ==
  /\ pc = "request" /\ mine \in Ids /\ NoPicture
  /\ live = {mine} /\ buffer = mine /\ kind[mine] # Response
  /\ count = 0 /\ ~intr /\ busy

\* the interrupt and the timer, which read a picture.
Reading ==
  /\ pc = "idle" /\ mine = NULL /\ previous \in Ids /\ timer # "off"
  /\ live = {previous} /\ buffer = previous /\ kind[previous] # Response
  /\ intr /\ busy
  /\ count < Size(buffer) \/ Size(buffer) = 0

Owned == AtRest \/ Asking \/ Halfway \/ Fetched \/ Reading

\* The only misuse of memory left is the first byte of a picture without a buffer.
Overrun == fault = "interrupt" /\ Reading /\ Size(buffer) = 0

Undisturbed == Owned /\ (fault = "none" \/ Overrun)

Inv == TypeOK /\ (~disturbed => Undisturbed)

-----------------------------------------------------------------------------
(* Types. *)

\* The size of a buffer is an unsigned number, and 1 for a response.
LEMMA SizeType ==
  ASSUME TypeOK, NEW b \in Ids
  PROVE  /\ Size(b) \in 0..(Word - 1)
         /\ kind[b] = Response => Size(b) = 1
<1>1. Word \in Nat /\ Word > 1 /\ Header \in Nat /\ Lengths \subseteq Nat
  BY CameraAssumption
<1>2. CASE kind[b] = Response BY <1>1, <1>2 DEF Size
<1>3. CASE kind[b] # Response
  <2>1. PICK n \in Lengths : kind[b] = <<n>> BY <1>3 DEF TypeOK, Picture
  <2>2. kind[b][1] = n /\ Header + n \in Nat BY <1>1, <2>1
  <2>3. (Header + n) % Word \in 0..(Word - 1) BY <1>1, <2>2
  <2> QED BY <1>3, <2>2, <2>3 DEF Size
<1> QED BY <1>2, <1>3

\* A new buffer is empty, and the UART's.
LEMMA CreateType ==
  ASSUME TypeOK, NEW k \in {Response} \union {Picture(n) : n \in Lengths}, Create(k)
  PROVE  /\ mine' \in Ids /\ buffer' = mine' /\ count' = 0
         /\ live' = live \union {mine'} /\ mine' \notin live
         /\ kind' \in [Ids -> {Response} \union {Picture(n) : n \in Lengths}]
         /\ kind'[mine'] = k
         /\ buffer' \in live' => count' <= Size(buffer)'
<1>1. PICK b \in Ids \ live :
        /\ live' = live \union {b} /\ kind' = [kind EXCEPT ![b] = k]
        /\ buffer' = b /\ count' = 0 /\ mine' = b
  BY DEF Create
<1>2. kind'[b] = k BY <1>1 DEF TypeOK
<1>3. 0 <= Size(buffer)'
  <2>1. Size(buffer)' = IF k = Response THEN 1 ELSE (Header + k[1]) % Word
    BY <1>1, <1>2 DEF Size
  <2>2. CASE k = Response BY <2>1, <2>2
  <2>3. CASE k # Response
    <3>1. PICK n \in Lengths : k = <<n>> BY <2>3 DEF Picture
    <3>2. Header + n \in Nat /\ Word \in Nat \ {0} /\ k[1] = n BY <3>1, CameraAssumption
    <3> QED BY <2>1, <2>3, <3>2
  <2> QED BY <2>2, <2>3
<1> QED BY <1>1, <1>2, <1>3 DEF TypeOK

LEMMA DestroyType ==
  ASSUME TypeOK, NEW b, NEW place \in {"command", "previous", "cancel"}, Destroy(b, place)
  PROVE  /\ live' \subseteq Ids /\ kind' = kind
         /\ buffer' \in Pointers /\ count' \in 0..(Word - 1)
         /\ fault' \in {"none", "interrupt", "command", "previous", "cancel"}
         /\ buffer' \in live' => count' <= Size(buffer)'
<1>1. CASE Flushable /\ b \in live \union {NULL}
  <2>1. live' = live \ {b} /\ buffer' = NULL /\ count' = 0 /\ UNCHANGED <<kind, fault>>
    BY <1>1 DEF Destroy
  <2>2. NULL \notin live /\ 0 \in 0..(Word - 1) BY CameraAssumption DEF TypeOK
  <2> QED BY <2>1, <2>2 DEF TypeOK, Pointers
<1>2. CASE ~(Flushable /\ b \in live \union {NULL})
  <2>1. fault' = place /\ UNCHANGED <<live, kind, buffer, count>> BY <1>2 DEF Destroy
  <2> QED BY <2>1 DEF TypeOK, Size
<1> QED BY <1>1, <1>2

-----------------------------------------------------------------------------
(* Type correctness: inductive by itself.                                   *)

LEMMA InitType0 == Init => TypeOK
<1> SUFFICES ASSUME NEW t \in Types, Boot(t) PROVE TypeOK BY DEF Init
<1>1. kind \in [Ids -> {Response} \union {Picture(n) : n \in Lengths}] BY DEF Boot
<1>2. 0 \in 0..(Word - 1) BY CameraAssumption
<1> QED BY <1>1, <1>2 DEF Boot, TypeOK, Pointers, Requests

\* What is true of the initialisation of the device, whoever asks for it.
LEMMA CameraInitType ==
  ASSUME TypeOK, NEW t \in Types, InitType(t), type' \in Types
  PROVE  TypeOK'
<1> USE DEF TypeOK, Pointers, Requests
<1>1. CASE t # "CAMERA"
  BY <1>1 DEF InitType, wire, store, ghosts, Size
<1>2. CASE t = "CAMERA"
  <2>1. /\ UNCHANGED <<intr, previous, timer, fault>>
        /\ disturbed' \in BOOLEAN
        /\ \/ busy' = FALSE /\ Reset
           \/ busy' = FALSE /\ pc' = "idle" /\ UNCHANGED <<op, mine, buffer, count, store>>
           \/ pc' = "idle" /\ UNCHANGED <<busy, op, mine, buffer, count, store>>
    BY <1>2 DEF InitType, CameraInit
  <2>2. CASE busy' = FALSE /\ Reset
    <3>1. 0 \in 0..(Word - 1) BY CameraAssumption
    <3> QED BY <2>1, <2>2, <3>1, CreateType DEF Reset, Begin
  <2>3. CASE pc' = "idle" /\ busy' \in BOOLEAN /\ UNCHANGED <<op, mine, buffer, count, store>>
    BY <2>1, <2>3 DEF store, Size
  <2> QED BY <2>1, <2>2, <2>3
<1> QED BY <1>1, <1>2

LEMMA NextType == TypeOK /\ [Next]_vars => TypeOK'
<1> SUFFICES ASSUME TypeOK, [Next]_vars PROVE TypeOK' OBVIOUS
<1> USE DEF TypeOK, Pointers
<1>0. 0 \in 0..(Word - 1) /\ Word \in Nat BY CameraAssumption
<1>1. CASE ReadByte
  <2>1. UNCHANGED <<type, pc, op, mine>> BY <1>1 DEF ReadByte, task
  <2>2. CASE ~Room /\ fault' = "interrupt"
             /\ UNCHANGED <<busy, previous, timer, store, wire, disturbed>>
    BY <2>1, <2>2 DEF store, wire, Size
  <2>3. ASSUME Room, count + 1 <= Size(buffer), count' = count + 1,
               UNCHANGED <<kind, buffer>>
        PROVE  count' \in 0..(Word - 1) /\ count' <= Size(buffer)'
    <3>1. buffer \in Ids BY <2>3 DEF Room
    <3>2. Size(buffer) \in 0..(Word - 1) BY <3>1, SizeType
    <3> QED BY <1>0, <2>3, <3>2 DEF Size
  <2>4. CASE /\ Room /\ count + 1 < Size(buffer) /\ count' = count + 1
             /\ UNCHANGED <<busy, previous, timer, store, buffer, intr, ghosts>>
    <3>1. buffer \in Ids BY <2>4 DEF Room
    <3>2. Size(buffer) \in 0..(Word - 1) BY <3>1, SizeType
    <3> QED BY <2>1, <2>3, <2>4, <3>2 DEF store, ghosts
  <2>5. CASE /\ Room /\ count + 1 = Size(buffer) /\ count' = count + 1 /\ intr' = FALSE
             /\ IF kind[buffer] = Response
                THEN UNCHANGED <<timer, live, previous, busy, disturbed>>
                ELSE PictureRecvDone
             /\ UNCHANGED <<kind, buffer, fault>>
    <3>1. buffer \in Ids BY <2>5 DEF Room
    <3>2. Size(buffer) \in 0..(Word - 1) BY <3>1, SizeType
    <3>3. count' \in 0..(Word - 1) /\ count' <= Size(buffer)' BY <2>3, <2>5, <3>2
    <3> QED BY <2>1, <2>5, <3>3 DEF PictureRecvDone
  <2> QED BY <1>1, <2>2, <2>4, <2>5 DEF ReadByte
<1>2. CASE Command
  <2>1. Create(Response) /\ op' \in Requests /\ pc' = "begun" /\ busy' = TRUE
        /\ UNCHANGED <<type, intr, previous, timer, fault, disturbed>>
    BY <1>2 DEF Command, Begin, Requests, ghosts
  <2> QED BY <1>0, <2>1, CreateType
<1>3. CASE Send BY <1>3 DEF Send, store, ghosts, Size
<1>4. ASSUME Answered \/ Unanswered PROVE TypeOK'
  <2>1. /\ Destroy(mine, "command") /\ mine' = NULL /\ intr' \in BOOLEAN
        /\ \E ok \in BOOLEAN : After(ok)
        /\ UNCHANGED <<type, previous, timer, op, disturbed>>
    BY <1>4 DEF Answered, Unanswered
  <2>2. pc' \in {"content", "idle"} /\ busy' \in BOOLEAN BY <2>1 DEF After
  <2> QED BY <2>1, <2>2, DestroyType
<1>5. CASE FreePrevious
  <2>1. CASE previous = NULL
    BY <1>5, <2>1 DEF FreePrevious, Size
  <2>2. CASE previous # NULL
    BY <1>5, <2>2, DestroyType DEF FreePrevious
  <2> QED BY <2>1, <2>2
<1>6. CASE Fetch
  <2>1. UNCHANGED <<type, intr, previous, timer, op, fault, disturbed>>
    BY <1>6 DEF Fetch, ghosts
  <2>2. CASE (\E n \in Lengths : Create(Picture(n))) /\ pc' = "request" /\ busy' = busy
    <3>1. PICK n \in Lengths : Create(Picture(n)) BY <2>2
    <3> QED BY <1>0, <2>1, <2>2, <3>1, CreateType
  <2>3. CASE pc' = "idle" /\ busy' = FALSE /\ UNCHANGED <<store, buffer, count, mine>>
    BY <2>1, <2>3 DEF store, Size
  <2> QED BY <1>6, <2>2, <2>3 DEF Fetch
<1>7. CASE Request BY <1>7 DEF Request, store, ghosts, Size
<1>8. CASE TimerExpires
  BY <1>8 DEF TimerExpires, wire, store, task, ghosts, Size
<1>9. CASE CancelReadPicture
  BY <1>9, DestroyType DEF CancelReadPicture, task
<1>10. CASE InitDone BY <1>10, CameraInitType DEF InitDone
<1>11. ASSUME NEW t \in Types, SetType(t) PROVE TypeOK'
  BY <1>11, CameraInitType DEF SetType
<1>12. CASE Reboot
  <2>1. kind' \in [Ids -> {Response} \union {Picture(n) : n \in Lengths}] BY <1>12 DEF Reboot
  <2> QED BY <1>0, <1>12, <2>1 DEF Reboot, Requests
<1>13. CASE UNCHANGED vars BY <1>13 DEF vars, wire, store, task, ghosts, Size
<1> QED BY <1>1, <1>2, <1>3, <1>4, <1>5, <1>6, <1>7, <1>8, <1>9, <1>10, <1>11, <1>12, <1>13
     DEF Next, TaskStep

-----------------------------------------------------------------------------
(* Ownership of the buffers.                                                *)

\* A destruction by the owner of the only buffer, or when there is none to free.
LEMMA DestroyOwned ==
  ASSUME TypeOK, NEW b \in Ids, NEW place, live = {b}, buffer = b, Destroy(b, place)
  PROVE  live' = {} /\ buffer' = NULL /\ count' = 0 /\ UNCHANGED <<kind, fault>>
<1>1. Flushable /\ b \in live \union {NULL} BY DEF Flushable
<1> QED BY <1>1 DEF Destroy

LEMMA InitOwned == Init => Undisturbed
BY DEF Init, Boot, Undisturbed, Owned, AtRest, NoPicture

\* The device is initialised while no request runs: if that does not disturb a picture,
\* nothing is owned, or a picture is being read by a device of another type.
LEMMA CameraInitOwned ==
  ASSUME TypeOK, Undisturbed, NEW t \in Types, InitType(t), ~disturbed', fault = "none",
         pc \in {"boot", "idle"}
  PROVE  Undisturbed'
<1>0. AtRest \/ Reading BY DEF Undisturbed, Owned, Asking, Halfway, Fetched
<1>1. CASE t # "CAMERA"
  <2>1. UNCHANGED <<busy, buffer, count, intr, previous, timer, live, kind, op, mine, fault>>
        /\ pc' = "idle"
    BY <1>1 DEF InitType, wire, store, ghosts
  <2>2. AtRest => AtRest' BY <2>1 DEF AtRest, NoPicture
  <2>3. Reading => Reading' BY <2>1 DEF Reading, Size
  <2> QED BY <1>0, <2>1, <2>2, <2>3 DEF Undisturbed, Owned
<1>2. CASE t = "CAMERA"
  <2>1. /\ UNCHANGED <<intr, previous, timer, fault>>
        /\ previous = NULL
        /\ \/ busy' = FALSE /\ Reset
           \/ pc' = "idle" /\ UNCHANGED <<op, mine, buffer, count, store>>
    BY <1>2 DEF InitType, CameraInit
  <2>2. AtRest BY <1>0, <2>1, CameraAssumption DEF Reading
  <2>3. CASE Reset
    <3>1. /\ mine' \in Ids /\ live' = {mine'} /\ buffer' = mine' /\ count' = 0
          /\ kind'[mine'] = Response
      BY <2>2, <2>3, CreateType DEF Reset, AtRest
    <3>2. Asking' BY <2>1, <2>2, <2>3, <3>1 DEF Reset, Begin, Asking, AtRest, NoPicture
    <3> QED BY <2>1, <3>2 DEF Undisturbed, Owned
  <2>4. CASE pc' = "idle" /\ UNCHANGED <<op, mine, buffer, count, store>>
    <3>1. AtRest' BY <2>1, <2>2, <2>4 DEF AtRest, NoPicture, store
    <3> QED BY <2>1, <3>1 DEF Undisturbed, Owned
  <2> QED BY <2>1, <2>3, <2>4
<1> QED BY <1>1, <1>2

LEMMA NextOwned == Inv /\ [Next]_vars => (~disturbed' => Undisturbed')
<1> SUFFICES ASSUME Inv, [Next]_vars, ~disturbed' PROVE Undisturbed' OBVIOUS
<1> USE DEF NoPicture
<1>0. TypeOK BY DEF Inv
<1>1. CASE Reboot BY <1>1 DEF Reboot, Undisturbed, Owned, AtRest
<1>2. ASSUME ~Reboot PROVE ~disturbed
  BY <1>2 DEF Next, ReadByte, Command, TaskStep, Send, Answered, Unanswered, FreePrevious,
     Fetch, Request, TimerExpires, CancelReadPicture, InitDone, SetType, InitType, CameraInit,
     PictureRecvDone, ghosts, vars
<1>3. ASSUME ~Reboot, Running PROVE Undisturbed /\ fault = "none"
  BY <1>2, <1>3 DEF Inv, Running, Undisturbed
<1>4. CASE ReadByte /\ ~Reboot
  <2>1. Undisturbed /\ fault = "none" /\ intr /\ UNCHANGED <<type, pc, op, mine>>
    BY <1>3, <1>4 DEF ReadByte, task
  <2>2. Asking \/ Reading
    BY <2>1 DEF Undisturbed, Owned, AtRest, Halfway, Fetched
  <2>3. CASE Asking
    <3>1. /\ pc = "wait" /\ count = 0 /\ buffer = mine /\ live = {mine}
          /\ kind[buffer] = Response /\ buffer \in Ids
      BY <2>1, <2>3 DEF Asking
    <3>2. Size(buffer) = 1 BY <1>0, <3>1, SizeType
    <3>3. Room /\ ~(count + 1 < Size(buffer)) BY <3>1, <3>2 DEF Room
    <3>4. /\ count' = 1 /\ intr' = FALSE
          /\ UNCHANGED <<timer, live, previous, busy, disturbed, kind, buffer, fault>>
      <4>1. /\ count' = count + 1 /\ intr' = FALSE
            /\ IF kind[buffer] = Response
               THEN UNCHANGED <<timer, live, previous, busy, disturbed>>
               ELSE PictureRecvDone
            /\ UNCHANGED <<kind, buffer, fault>>
        BY <1>4, <3>3 DEF ReadByte
      <4> QED BY <3>1, <4>1
    <3>5. Asking' BY <2>1, <2>3, <3>1, <3>4 DEF Asking
    <3> QED BY <2>1, <3>4, <3>5 DEF Undisturbed, Owned
  <2>4. CASE Reading
    <3>1. /\ buffer = previous /\ live = {previous} /\ buffer \in Ids /\ kind[buffer] # Response
          /\ pc = "idle" /\ mine = NULL
      BY <2>4 DEF Reading
    <3>2. Size(buffer) \in Nat /\ count \in Nat BY <1>0, <3>1, SizeType, CameraAssumption DEF TypeOK
    <3>3. CASE ~Room /\ fault' = "interrupt"
               /\ UNCHANGED <<busy, previous, timer, store, wire, disturbed>>
      <4>1. Size(buffer) = 0 BY <2>4, <3>1, <3>2, <3>3 DEF Room, Reading
      <4>2. UNCHANGED <<buffer, count, intr, live, kind, busy, previous, timer>>
        BY <3>3 DEF store, wire
      <4>3. Reading' /\ Size(buffer)' = 0 BY <2>1, <2>4, <4>1, <4>2 DEF Reading, Size
      <4> QED BY <3>3, <4>3 DEF Undisturbed, Owned, Overrun
    <3>4. CASE /\ Room /\ count + 1 < Size(buffer) /\ count' = count + 1
               /\ UNCHANGED <<busy, previous, timer, store, buffer, intr, ghosts>>
      <4>1. Reading' BY <2>1, <2>4, <3>2, <3>4 DEF Reading, Size, store
      <4> QED BY <2>1, <3>4, <4>1 DEF Undisturbed, Owned, ghosts
    <3>5. CASE intr' = FALSE /\ PictureRecvDone /\ UNCHANGED <<kind, buffer, fault>>
      <4>1. timer = "armed" /\ timer' = "off"
        BY <1>0, <2>4, <3>5 DEF PictureRecvDone, Reading, TypeOK
      <4>2. live' = {} /\ previous' = NULL BY <3>1, <3>5 DEF PictureRecvDone
      <4>3. AtRest' BY <2>1, <3>1, <3>5, <4>1, <4>2 DEF AtRest
      <4> QED BY <2>1, <3>5, <4>3 DEF Undisturbed, Owned
    <3> QED BY <1>4, <3>1, <3>3, <3>4, <3>5 DEF ReadByte
  <2> QED BY <2>2, <2>3, <2>4
<1>5. CASE Command /\ ~Reboot
  <2>1. fault = "none" /\ AtRest
    BY <1>3, <1>5 DEF Command, OnTask, Undisturbed, Owned, Asking, Halfway, Fetched, Reading
  <2>2. /\ Create(Response) /\ pc' = "begun" /\ busy' = TRUE
        /\ UNCHANGED <<intr, previous, timer, fault>>
    BY <1>5 DEF Command, Begin, ghosts
  <2>3. /\ mine' \in Ids /\ live' = {mine'} /\ buffer' = mine' /\ count' = 0
        /\ kind'[mine'] = Response
    BY <1>0, <2>1, <2>2, CreateType DEF AtRest
  <2>4. Asking' BY <2>1, <2>2, <2>3 DEF Asking, AtRest
  <2> QED BY <2>1, <2>2, <2>4 DEF Undisturbed, Owned
<1>6. CASE Send /\ ~Reboot
  <2>1. fault = "none" /\ Asking /\ pc = "begun"
    BY <1>3, <1>6 DEF Send, OnTask, Undisturbed, Owned, AtRest, Halfway, Fetched, Reading
  <2>2. Asking' BY <1>6, <2>1 DEF Send, Asking, store
  <2> QED BY <1>6, <2>1, <2>2 DEF Send, ghosts, Undisturbed, Owned
<1>7. CASE (Answered \/ Unanswered) /\ ~Reboot
  <2>1. fault = "none" /\ Asking /\ pc = "wait"
    BY <1>3, <1>7 DEF Answered, Unanswered, OnTask, Undisturbed, Owned, AtRest, Halfway,
                      Fetched, Reading
  <2>2. /\ Destroy(mine, "command") /\ mine' = NULL /\ UNCHANGED <<previous, timer, op>>
        /\ \E ok \in BOOLEAN : After(ok)
    BY <1>7 DEF Answered, Unanswered
  <2>3. live' = {} /\ UNCHANGED fault BY <1>0, <2>1, <2>2, DestroyOwned DEF Asking
  <2>4. ~intr'
    <3>1. CASE Unanswered BY <3>1 DEF Unanswered
    <3>2. CASE Answered
      <4>1. Size(buffer) = 1 BY <1>0, <2>1, SizeType DEF Asking
      <4>2. count # 0 BY <3>2, <4>1 DEF Answered, Complete
      <4> QED BY <2>1, <3>2, <4>2 DEF Answered, Asking
    <3> QED BY <1>7, <3>1, <3>2
  <2>5. (pc' = "content" /\ busy') \/ pc' = "idle"
    BY <2>1, <2>2 DEF After, Asking
  <2>6. AtRest' \/ Halfway' BY <2>1, <2>2, <2>3, <2>4, <2>5 DEF AtRest, Halfway, Asking
  <2> QED BY <2>1, <2>3, <2>6 DEF Undisturbed, Owned
<1>8. CASE FreePrevious /\ ~Reboot
  <2>1. fault = "none" /\ Halfway
    BY <1>3, <1>8 DEF FreePrevious, OnTask, Undisturbed, Owned, AtRest, Asking, Fetched, Reading
  <2>2. UNCHANGED <<live, fault, intr, busy, previous, timer, mine>> /\ pc' = "fetch"
    BY <1>8, <2>1 DEF FreePrevious, Halfway
  <2>3. Halfway' BY <2>1, <2>2 DEF Halfway
  <2> QED BY <2>1, <2>2, <2>3 DEF Undisturbed, Owned
<1>9. CASE Fetch /\ ~Reboot
  <2>1. fault = "none" /\ Halfway
    BY <1>3, <1>9 DEF Fetch, OnTask, Undisturbed, Owned, AtRest, Asking, Fetched, Reading
  <2>2. UNCHANGED <<intr, previous, timer, fault>> BY <1>9 DEF Fetch, ghosts
  <2>3. CASE (\E n \in Lengths : Create(Picture(n))) /\ pc' = "request" /\ busy' = busy
    <3>1. PICK n \in Lengths : Create(Picture(n)) BY <2>3
    <3>2. /\ mine' \in Ids /\ live' = {mine'} /\ buffer' = mine' /\ count' = 0
          /\ kind'[mine'] = Picture(n)
      BY <1>0, <2>1, <3>1, CreateType DEF Halfway
    <3>3. kind'[mine'] # Response BY <3>2 DEF Picture, Response
    <3>4. Fetched' BY <2>1, <2>2, <2>3, <3>2, <3>3 DEF Fetched, Halfway
    <3> QED BY <2>1, <2>2, <3>4 DEF Undisturbed, Owned
  <2>4. CASE pc' = "idle" /\ UNCHANGED <<store, buffer, count, mine>>
    <3>1. AtRest' BY <2>1, <2>2, <2>4 DEF AtRest, Halfway, store
    <3> QED BY <2>1, <2>2, <3>1 DEF Undisturbed, Owned
  <2> QED BY <1>9, <2>3, <2>4 DEF Fetch
<1>10. CASE Request /\ ~Reboot
  <2>1. fault = "none" /\ Fetched
    BY <1>3, <1>10 DEF Request, OnTask, Undisturbed, Owned, AtRest, Asking, Halfway, Reading
  <2>2. /\ intr' = TRUE /\ previous' = mine /\ timer' = "armed" /\ pc' = "idle" /\ mine' = NULL
        /\ UNCHANGED <<busy, buffer, count, live, kind, fault>>
    BY <1>10 DEF Request, store, ghosts
  <2>3. Size(buffer) \in Nat /\ Size(buffer)' = Size(buffer)
    BY <1>0, <2>1, <2>2, SizeType, CameraAssumption DEF Fetched, Size
  <2>4. Reading' BY <2>1, <2>2, <2>3 DEF Reading, Fetched
  <2> QED BY <2>1, <2>2, <2>4 DEF Undisturbed, Owned
<1>11. CASE TimerExpires /\ ~Reboot
  <2>1. fault = "none" /\ Reading
    BY <1>3, <1>11 DEF TimerExpires, Undisturbed, Owned, AtRest, Asking, Halfway, Fetched
  <2>2. /\ timer' = "fired" /\ fault' = fault
        /\ UNCHANGED <<busy, buffer, count, intr, previous, live, kind, pc, mine>>
    BY <1>11 DEF TimerExpires, wire, store, task, ghosts
  <2>3. Reading' BY <2>1, <2>2 DEF Reading, Size
  <2> QED BY <2>1, <2>2, <2>3 DEF Undisturbed, Owned
<1>12. CASE CancelReadPicture /\ ~Reboot
  <2>1. fault = "none" /\ Reading
    BY <1>3, <1>12 DEF CancelReadPicture, Undisturbed, Owned, AtRest, Asking, Halfway, Fetched
  <2>2. live' = {} /\ UNCHANGED fault
    BY <1>0, <1>12, <2>1, DestroyOwned DEF CancelReadPicture, Reading
  <2>3. AtRest' BY <1>12, <2>1, <2>2 DEF CancelReadPicture, AtRest, Reading, task
  <2> QED BY <2>1, <2>2, <2>3 DEF Undisturbed, Owned
<1>13. CASE InitDone /\ ~Reboot
  BY <1>0, <1>3, <1>13, CameraInitOwned DEF InitDone, OnTask, TypeOK
<1>14. ASSUME NEW t \in Types, SetType(t), ~Reboot PROVE Undisturbed'
  BY <1>0, <1>3, <1>14, CameraInitOwned DEF SetType, OnTask
<1>15. CASE UNCHANGED vars /\ ~Reboot
  <2>1. Undisturbed BY <1>2, <1>15 DEF Inv
  <2>2. UNCHANGED <<busy, buffer, count, intr, previous, timer, live, kind, pc, op, mine, fault>>
    BY <1>15 DEF vars, wire, store, task, ghosts
  <2> QED BY <2>1, <2>2 DEF Undisturbed, Overrun, Owned, AtRest, Asking, Halfway, Fetched,
                            Reading, Size
<1> QED BY <1>1, <1>4, <1>5, <1>6, <1>7, <1>8, <1>9, <1>10, <1>11, <1>12, <1>13, <1>14, <1>15
     DEF Next, TaskStep

LEMMA InvHolds == Spec => []Inv
<1>1. Init => Inv BY InitType0, InitOwned DEF Inv
<1>2. Inv /\ [Next]_vars => Inv' BY NextType, NextOwned DEF Inv
<1> QED BY <1>1, <1>2, PTL DEF Spec

-----------------------------------------------------------------------------
\* The pointers, counters and flags of camera.c and software_uart.c are of their types, and the
\* UART never counts more bytes than its buffer holds, even when the read of a picture was
\* disturbed.
THEOREM CameraTypeOK == Spec => []TypeOK
<1>1. Inv => TypeOK BY DEF Inv
<1> QED BY <1>1, InvHolds, PTL

\* No rx_buffer is used after it was freed, freed twice, or written past its end, except that
\* of a picture whose length wraps to no bytes (camera.c:271), as long as the read of a picture
\* is not disturbed.
THEOREM CameraMemorySafe == Spec => []NoFault
<1>1. Inv => NoFault
  BY DEF Inv, NoFault, Undisturbed, Overrun, Reading
<1> QED BY <1>1, InvHolds, PTL

\* Every rx_buffer of camera.c is that of the request that runs, or of the picture that is read.
THEOREM CameraFreesAll == Spec => []NoLeak
<1>1. Inv => NoLeak
  BY DEF Inv, NoLeak, Undisturbed, Owned, AtRest, Asking, Halfway, Fetched, Reading
<1> QED BY <1>1, InvHolds, PTL

\* While camera.c reads a picture no other request is on the wire, the bytes go to its buffer,
\* and the timeout that will unlock the camera is pending.
THEOREM CameraReadsOnePicture == Spec => []PictureExclusive
<1>1. Inv => PictureExclusive
  BY DEF Inv, PictureExclusive, Undisturbed, Owned, AtRest, Asking, Halfway, Fetched, Reading,
         NoPicture
<1> QED BY <1>1, InvHolds, PTL

=============================================================================
