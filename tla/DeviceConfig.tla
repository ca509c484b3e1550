---------------------------- MODULE DeviceConfig ----------------------------
(***************************************************************************)
(* The configuration of the device: user/device_config.c over user/flash.c, *)
(* as the Name, Room and Type commands change it and DeviceInit reads it.   *)
(*                                                                         *)
(* The configuration fills one flash sector behind a guard word.  To change *)
(* one field the code reads all of them, erases the sector and writes it    *)
(* again; the SPI flash programs the words in the order of their addresses. *)
(* Power may be lost between any two words, and any call of the flash       *)
(* driver may fail.                                                         *)
(*                                                                         *)
(* Left out: DeviceConfig_set_data (only Camera_set_baud_rate calls it, and *)
(* nothing calls that) and the memory that DeviceConfig_set_type and        *)
(* DeviceInit leak.                                                         *)
(***************************************************************************)
EXTENDS Naturals, Sequences

CONSTANTS Names, Rooms,  \* what the Name and the Room command may ask for
          Erased         \* a word whose bits are all ones

\* Nothing that the code writes has all its bits set: neither texts, nor the guard, nor a
\* length, a type or the pins.
ASSUME ConfigAssumption ==
  Erased \notin Names \union Rooms
                 \union {"guard", "zero", "none", "some", "pins", "NONE", "CAMERA", "OTHER"}

VARIABLES
  sector, \* the flash sector, word by word (a word stands for a field)
  pc,     \* where the command or DeviceInit is
  op,     \* the field that the command changes
  conf,   \* its struct DeviceConfig
  next,   \* the next word to be written
  driver, \* the device driver that was initialised last
  torn,   \* a write was cut short, and none has been completed since
  saved,  \* the last configuration that was written completely
  last,   \* the last one for which the sector was erased
  basis,  \* what the command started from: a complete configuration, the rest of
          \* a torn one, or the zeros of a reset one
  failed  \* a call of the flash driver has failed since the restart

ghosts == <<torn, saved, last, basis, failed>>
vars   == <<sector, pc, op, conf, next, driver, ghosts>>

Types  == {"NONE", "CAMERA", "OTHER"}
Fields == {"name", "room", "type"}
\* (A bug) The length is written before the fields.
LayoutLengthFirst == <<"guard", "len", "name", "room", "type", "data">>

Layout == <<"guard", "name", "room", "type", "len", "data">>
Words  == {Layout[i] : i \in 1..Len(Layout)}

NoValue == "zero"   \* a field, or the data, of zeros
GuardValue == "guard"

\* device_set_default_data: only a camera has data; its length is "some".
DefaultLen(t)  == IF t = "CAMERA" THEN "some" ELSE "none"
DefaultData(t) == IF t = "CAMERA" THEN "pins" ELSE NoValue

\* os_memset(&conf, 0, sizeof conf)
ZeroConf ==
  [name |-> NoValue, room |-> NoValue, type |-> "NONE", len |-> "none", data |-> NoValue]

ErasedSector == [w \in Words |-> Erased]

Init ==
  /\ sector = ErasedSector
  /\ pc = "boot" /\ op = "name" /\ conf = ZeroConf /\ next = 1
  /\ driver = "NONE"
  /\ torn = FALSE /\ saved = ZeroConf /\ last = ZeroConf
  /\ basis = "reset" /\ failed = FALSE

-----------------------------------------------------------------------------
(* Reading. *)

\* DeviceConfig_already_exists
AlreadyExists == sector["guard"] = GuardValue

\* FLASH_ALIGN_LEN(0xffffffff) is 0, and there is no block of 0 bytes: the
\* length of an erased sector is one that DeviceConfig_read_config refuses.
Readable == AlreadyExists /\ sector["len"] # Erased

\* DeviceConfig_read_config, when no call fails.
ReadConfig ==
  [name |-> sector["name"], room |-> sector["room"], type |-> sector["type"],
   len  |-> sector["len"],
   data |-> IF sector["len"] = "none" THEN NoValue ELSE sector["data"]]

\* What a command starts from when the flash was read, or not: flash that cannot
\* be read is taken for an unconfigured device, and a configuration that cannot be
\* read is reset.
StartsFrom(read) == IF read THEN ReadConfig ELSE ZeroConf

-----------------------------------------------------------------------------
(* Commands. *)

Wanted(f) == CASE f = "name" -> Names [] f = "room" -> Rooms [] OTHER -> Types \ {"NONE"}

\* (A bug) Setting a type starts from an empty configuration.
WithTypeOnly(c, f, v) ==
  IF f = "type"
  THEN [ZeroConf EXCEPT !.type = v, !.len = DefaultLen(v), !.data = DefaultData(v)]
  ELSE [c EXCEPT ![f] = v]

\* (A bug) A new type keeps the data of the old one.
WithOldData(c, f, v) == [c EXCEPT ![f] = v]

WithField(c, f, v) ==
  IF f = "type"
  THEN [c EXCEPT !.type = v, !.len = DefaultLen(v), !.data = DefaultData(v)]
  ELSE [c EXCEPT ![f] = v]

\* DeviceConfig_set_name, DeviceConfig_set_room and DeviceConfig_set_type up to
\* DeviceConfig_save_config.  A device that has the type already does nothing.
Set(f, v) ==
  /\ pc = "idle"
  /\ op' = f
  /\ \E read \in {TRUE, FALSE} :
       /\ read => Readable
       /\ basis' = IF ~read THEN "reset" ELSE IF torn THEN "torn" ELSE "saved"
       /\ failed' = (failed \/ (Readable /\ ~read))
       /\ IF f = "type" /\ StartsFrom(read).type = v
          THEN UNCHANGED <<conf, pc>>
          ELSE conf' = WithField(StartsFrom(read), f, v) /\ pc' = "save"
  /\ UNCHANGED <<sector, next, driver, torn, saved, last>>

\* The command replies "Failed".
Fail == pc' = "idle" /\ UNCHANGED <<op, conf, next, driver>>

\* DeviceConfig_save_config and write_to_flash, up to the erased sector.
Erase ==
  /\ pc = "save"
  /\ sector' = ErasedSector
  /\ pc' = "write" /\ next' = 1
  /\ last' = conf /\ torn' = TRUE
  /\ UNCHANGED <<op, conf, driver, saved, basis, failed>>

\* No memory for the image (or, for a type, its data); the sector is as it was.
SaveFails ==
  /\ pc = "save"
  /\ Fail
  /\ UNCHANGED <<sector, ghosts>>

\* spi_flash_erase_sector fails: nobody knows what it left.
EraseFails ==
  /\ pc = "save"
  /\ \/ UNCHANGED <<sector, torn, last>>
     \/ sector' = ErasedSector /\ torn' = TRUE /\ last' = conf
  /\ failed' = TRUE
  /\ Fail
  /\ UNCHANGED <<saved, basis>>

Image(w) == IF w = "guard" THEN GuardValue ELSE conf[w]

\* The image ends with the length when there is no data.
LastWord == IF conf.len = "none" THEN Len(Layout) - 1 ELSE Len(Layout)

\* (A bug) The last word is not written.
WriteWordShort ==
  /\ pc = "write"
  /\ sector' = [sector EXCEPT ![Layout[next]] = Image(Layout[next])]
  /\ IF next < LastWord - 1
     THEN next' = next + 1 /\ UNCHANGED <<pc, torn, saved>>
     ELSE /\ next' = 1 /\ pc' = IF op = "type" THEN "init" ELSE "idle"
          /\ torn' = FALSE /\ saved' = conf
  /\ UNCHANGED <<op, conf, driver, last, basis, failed>>

\* (A bug) The word count is not reset.
WriteWordOn ==
  /\ pc = "write"
  /\ sector' = [sector EXCEPT ![Layout[next]] = Image(Layout[next])]
  /\ next' = next + 1
  /\ IF next < LastWord
     THEN UNCHANGED <<pc, torn, saved>>
     ELSE /\ pc' = IF op = "type" THEN "init" ELSE "idle"
          /\ torn' = FALSE /\ saved' = conf
  /\ UNCHANGED <<op, conf, driver, last, basis, failed>>

\* spi_flash_write, one word.
WriteWord ==
  /\ pc = "write"
  /\ sector' = [sector EXCEPT ![Layout[next]] = Image(Layout[next])]
  /\ IF next < LastWord
     THEN /\ next' = next + 1
          /\ UNCHANGED <<pc, torn, saved>>
     ELSE /\ next' = 1
          /\ pc' = IF op = "type" THEN "init" ELSE "idle"
          /\ torn' = FALSE /\ saved' = conf
  /\ UNCHANGED <<op, conf, driver, last, basis, failed>>

WriteFails ==
  /\ pc = "write"
  /\ failed' = TRUE
  /\ Fail
  /\ UNCHANGED <<sector, torn, saved, last, basis>>

-----------------------------------------------------------------------------
(* DeviceInit, at the end of DeviceConfig_set_type and in init_done. *)

\* Camera_init refuses data with other pins than its own.
DriverStarts(c) ==
  \/ c.type = "OTHER"
  \/ c.type = "CAMERA" /\ c.data = DefaultData("CAMERA")

InitDriver ==
  \/ /\ failed' = failed
     /\ driver' = IF Readable /\ DriverStarts(ReadConfig) THEN sector["type"] ELSE driver
  \/ failed' = TRUE /\ driver' = driver

DeviceInit ==
  /\ pc \in {"boot", "init"}
  /\ pc' = "idle"
  /\ InitDriver
  /\ UNCHANGED <<sector, op, conf, next, torn, saved, last, basis>>

\* go_back_to_ap runs init_done again, from a timer and so perhaps in the middle of
\* a command.
InitAgain ==
  /\ pc # "boot"
  /\ InitDriver
  /\ UNCHANGED <<sector, pc, op, conf, next, torn, saved, last, basis>>

\* Power is lost, or the device restarts.
Crash ==
  /\ pc' = "boot" /\ conf' = ZeroConf /\ next' = 1 /\ driver' = "NONE"
  /\ failed' = FALSE
  /\ UNCHANGED <<sector, op, torn, saved, last, basis>>

-----------------------------------------------------------------------------
Step == Erase \/ SaveFails \/ EraseFails \/ WriteWord \/ WriteFails \/ DeviceInit

Next ==
  \/ \E f \in Fields : \E v \in Wanted(f) : Set(f, v)
  \/ Step \/ InitAgain \/ Crash

Spec == Init /\ [][Next]_vars

-----------------------------------------------------------------------------
(* Properties. *)

Confs == [name : Names \union {NoValue}, room : Rooms \union {NoValue}, type : Types,
          len : {"none", "some"}, data : {NoValue, "pins", Erased}]

\* The shape of the state.
TypeOK ==
  /\ sector \in [Words -> {Erased, GuardValue, NoValue, "none", "some", "pins"}
                            \union Names \union Rooms \union Types]
  /\ pc \in {"boot", "idle", "save", "write", "init"}
  /\ op \in Fields /\ conf \in Confs /\ saved \in Confs /\ last \in Confs
  /\ next \in 1..Len(Layout)
  /\ driver \in Types /\ torn \in BOOLEAN /\ failed \in BOOLEAN
  /\ basis \in {"saved", "torn", "reset"}

\* Wherever a save is cut short, the code either refuses to read the sector or
\* reads the name, the room and the type of that save: never a mixture with
\* words that were not written.  Only the data may be missing.
ReadIsWhole ==
  Readable =>
    /\ [ReadConfig EXCEPT !.data = NoValue] = [last EXCEPT !.data = NoValue]
    /\ ReadConfig.data \in {last.data, Erased}

\* A configuration that was saved is there, with all its fields, until another
\* command erases it, whatever fails or restarts in between.
SavedIsKept ==
  ~torn /\ saved # ZeroConf => Readable /\ ReadConfig = saved

\* A command changes its own field only (and a type its data), when it
\* could read the configuration before it erased it.
OthersKept ==
  [][saved' # saved /\ basis = "saved" =>
       /\ \A f \in Fields \ {op} : saved'[f] = saved[f]
       /\ op # "type" => saved'.len = saved.len /\ saved'.data = saved.data]_vars

\* Once a device has come up, and after each change of its type, its driver is that
\* of the configured type, if the flash could be read and the data was not lost in
\* a torn save (later commands keep what is left of it).
DriverMatches ==
  pc \in {"idle", "save"} /\ ~torn /\ ~failed /\ saved.type # "NONE"
  /\ saved.data # Erased => driver = saved.type

=============================================================================
