------------------------- MODULE DeviceConfigProofs -------------------------
(***************************************************************************)
(* Theorems about DeviceConfig for any names and rooms.                     *)
(***************************************************************************)
EXTENDS DeviceConfig, TLAPS

\* A configuration that a command makes up or reads: only a camera has data, of which a
\* torn save may have lost the pins.
ConfOK(c) ==
  /\ c \in Confs
  /\ IF c.type = "CAMERA" THEN c.len = "some" /\ c.data \in {"pins", Erased}
     ELSE c.len = "none" /\ c.data = NoValue

\* The sector holds the first k words of the image of last, and is erased behind them.
Written(k) ==
  /\ sector["guard"] = IF k >= 1 THEN GuardValue ELSE Erased
  /\ sector["name"]  = IF k >= 2 THEN last.name ELSE Erased
  /\ sector["room"]  = IF k >= 3 THEN last.room ELSE Erased
  /\ sector["type"]  = IF k >= 4 THEN last.type ELSE Erased
  /\ sector["len"]   = IF k >= 5 THEN last.len ELSE Erased
  /\ sector["data"]  = IF k >= 6 THEN last.data ELSE Erased

\* The number of words of a whole image.
Whole(c) == IF c.len = "none" THEN 5 ELSE 6

\* What the sector holds, wherever the last save has got to.
SectorOK ==
  \E k \in 0..6 :
    /\ Written(k) /\ k <= Whole(last)
    /\ pc = "write" => k = next - 1 /\ next <= Whole(last)
    /\ ~torn => saved = last /\ (k = Whole(last) \/ (k = 0 /\ last = ZeroConf))

ShapeOK ==
  /\ TypeOK
  /\ ConfOK(conf) /\ ConfOK(saved) /\ ConfOK(last)
  /\ pc = "write" => conf = last /\ torn

\* A command that started from the saved configuration differs from it in its own field.
DiffersInOp ==
  pc \in {"save", "write"} /\ basis = "saved" =>
    /\ \A f \in Fields \ {op} : conf[f] = saved[f]
    /\ op # "type" => conf.len = saved.len /\ conf.data = saved.data

\* The driver that DeviceInit is to have started for configuration c runs.
Driven(c) == c.type # "NONE" /\ c.data # Erased => driver = c.type

\* Between commands the driver is that of the configuration in the sector; a command
\* that does not change the type writes back the type that the driver has.
DriverOK ==
  ~failed =>
    /\ pc \in {"idle", "save"} /\ Readable => Driven(ReadConfig)
    /\ pc \in {"save", "write"} /\ op # "type" => Driven(conf)
    /\ pc = "save" /\ op # "type" =>
         IF Readable THEN conf.type = ReadConfig.type /\ conf.data = ReadConfig.data
         ELSE conf.type = "NONE"

Inv == ShapeOK /\ SectorOK /\ DiffersInOp /\ DriverOK

-----------------------------------------------------------------------------
(* The sector and what is read from it. *)

LEMMA WordsAre ==
  /\ Words = {"guard", "name", "room", "type", "len", "data"}
  /\ Len(Layout) = 6
  /\ Layout[1] = "guard" /\ Layout[2] = "name" /\ Layout[3] = "room"
  /\ Layout[4] = "type" /\ Layout[5] = "len" /\ Layout[6] = "data"
<1>1. /\ Len(Layout) = 6
      /\ Layout[1] = "guard" /\ Layout[2] = "name" /\ Layout[3] = "room"
      /\ Layout[4] = "type" /\ Layout[5] = "len" /\ Layout[6] = "data"
  BY DEF Layout
<1>2. 1..6 = {1, 2, 3, 4, 5, 6} OBVIOUS
<1>3. Words = {Layout[i] : i \in {1, 2, 3, 4, 5, 6}} BY <1>1, <1>2 DEF Words
<1> QED BY <1>1, <1>3

\* No word that the code writes looks erased.
LEMMA WrittenWords ==
  ASSUME NEW c, ConfOK(c)
  PROVE  /\ c.name # Erased /\ c.room # Erased /\ c.type # Erased /\ c.len # Erased
         /\ GuardValue # Erased
         /\ c.type \in Types /\ c.len \in {"none", "some"}
         /\ Whole(c) \in 5..6
BY ConfigAssumption DEF ConfOK, Confs, Types, NoValue, GuardValue, Whole

LEMMA ZeroConfOK == ConfOK(ZeroConf)
BY DEF ConfOK, ZeroConf, Confs, Types, NoValue

\* The code reads the sector as soon as the length is written, and then finds the name, the
\* room and the type of the last save; it finds all of it when the save was not cut short.
LEMMA ReadPrefix ==
  ASSUME ConfOK(last), NEW k \in 0..6, Written(k), k <= Whole(last)
  PROVE  /\ Readable <=> k >= 5
         /\ Readable => /\ ConfOK(ReadConfig)
                        /\ ReadConfig.name = last.name /\ ReadConfig.room = last.room
                        /\ ReadConfig.type = last.type /\ ReadConfig.len = last.len
                        /\ ReadConfig.data \in {last.data, Erased}
                        /\ sector["type"] = ReadConfig.type
         /\ k = Whole(last) => Readable /\ ReadConfig = last
<1>1. /\ last.name # Erased /\ last.room # Erased /\ last.type # Erased /\ last.len # Erased
      /\ GuardValue # Erased /\ last.type \in Types /\ last.len \in {"none", "some"}
  BY WrittenWords
<1>2. Readable <=> k >= 5 BY <1>1 DEF Readable, AlreadyExists, Written
<1>3. ASSUME k >= 5
      PROVE  /\ ReadConfig.name = last.name /\ ReadConfig.room = last.room
             /\ ReadConfig.type = last.type /\ ReadConfig.len = last.len
             /\ ReadConfig.data \in {last.data, Erased}
             /\ sector["type"] = ReadConfig.type
             /\ k = Whole(last) => ReadConfig.data = last.data
  <2>1. CASE last.len = "none"
    BY <1>3, <2>1 DEF Written, ReadConfig, ConfOK, Whole
  <2>2. CASE last.len = "some"
    BY <1>3, <2>2 DEF Written, ReadConfig, ConfOK, Whole
  <2> QED BY <1>1, <2>1, <2>2
<1>4. ASSUME k >= 5 PROVE ConfOK(ReadConfig)
  <2>1. last.len = "none" => ReadConfig.data = NoValue BY <1>3, <1>4 DEF ReadConfig
  <2>2. ReadConfig \in Confs
    BY <1>3, <1>4 DEF ConfOK, Confs, ReadConfig
  <2> QED BY <1>3, <1>4, <2>1, <2>2 DEF ConfOK
<1>5. ASSUME k >= 5, k = Whole(last) PROVE ReadConfig = last
  BY <1>3, <1>5 DEF ConfOK, Confs, ReadConfig
<1> QED BY <1>2, <1>3, <1>4, <1>5, WrittenWords

\* What can be read is the last save that was begun, perhaps without its data.
ReadsLast ==
  Readable =>
    /\ ConfOK(ReadConfig)
    /\ ReadConfig.name = last.name /\ ReadConfig.room = last.room
    /\ ReadConfig.type = last.type /\ ReadConfig.len = last.len
    /\ ReadConfig.data \in {last.data, Erased}

LEMMA SectorIsRead == ShapeOK /\ SectorOK => ReadsLast
BY ReadPrefix DEF ShapeOK, SectorOK, ReadsLast

\* WithField changes one field, or a type with its data.
LEMMA WithFieldOK ==
  ASSUME NEW c, ConfOK(c), NEW f \in Fields, NEW v \in Wanted(f)
  PROVE  /\ ConfOK(WithField(c, f, v))
         /\ \A g \in Fields \ {f} : WithField(c, f, v)[g] = c[g]
         /\ f # "type" => /\ WithField(c, f, v).len = c.len
                          /\ WithField(c, f, v).data = c.data
                          /\ WithField(c, f, v).type = c.type
<1>1. CASE f = "name"
  <2>1. v \in Names /\ WithField(c, f, v) = [c EXCEPT !["name"] = v]
    BY <1>1 DEF Wanted, WithField
  <2> QED BY <1>1, <2>1 DEF ConfOK, Confs, Fields
<1>2. CASE f = "room"
  <2>1. v \in Rooms /\ WithField(c, f, v) = [c EXCEPT !["room"] = v]
    BY <1>2 DEF Wanted, WithField
  <2> QED BY <1>2, <2>1 DEF ConfOK, Confs, Fields
<1>3. CASE f = "type"
  <2>1. /\ v \in {"CAMERA", "OTHER"}
        /\ WithField(c, f, v)
             = [c EXCEPT !.type = v, !.len = DefaultLen(v), !.data = DefaultData(v)]
    BY <1>3 DEF Wanted, WithField, Types
  <2> QED BY <1>3, <2>1 DEF ConfOK, Confs, Fields, Types, DefaultLen, DefaultData, NoValue
<1> QED BY <1>1, <1>2, <1>3 DEF Fields

LEMMA StartsFromOK ==
  ASSUME ShapeOK, SectorOK, NEW read \in {TRUE, FALSE}, read => Readable
  PROVE  ConfOK(StartsFrom(read))
BY ReadPrefix, ZeroConfOK DEF StartsFrom, ShapeOK, SectorOK

-----------------------------------------------------------------------------
(* The steps, one conjunct of the invariant at a time.                      *)

LEMMA InitInv == Init => Inv
<1> SUFFICES ASSUME Init PROVE Inv OBVIOUS
<1>1. sector \in [Words -> {Erased}] /\ \A w \in Words : sector[w] = Erased
  BY DEF Init, ErasedSector
<1>2. ConfOK(conf) /\ ConfOK(saved) /\ ConfOK(last) BY ZeroConfOK DEF Init
<1>3. TypeOK
  <2>1. conf \in Confs /\ saved \in Confs /\ last \in Confs BY <1>2 DEF ConfOK
  <2>2. sector \in [Words -> {Erased, GuardValue, NoValue, "none", "some", "pins"}
                              \union Names \union Rooms \union Types]
    BY <1>1
  <2>3. next \in 1..Len(Layout) BY WordsAre DEF Init
  <2> QED BY <2>1, <2>2, <2>3 DEF Init, TypeOK, Fields, Types
<1>4. SectorOK
  <2>1. Written(0) BY <1>1, WordsAre DEF Written
  <2> QED BY <2>1, <1>2, WrittenWords DEF Init, SectorOK
<1>5. ~Readable BY <1>1, WordsAre, ConfigAssumption DEF Readable, AlreadyExists, GuardValue
<1>6. DriverOK /\ DiffersInOp BY DEF Init, DriverOK, DiffersInOp
<1> QED BY <1>2, <1>3, <1>4, <1>6 DEF Inv, ShapeOK, Init

\* InitDriver starts the driver of a configuration that can be read, unless the flash fails.
LEMMA InitDriverStarts ==
  ASSUME Inv, InitDriver
  PROVE  /\ driver' \in Types /\ failed' \in BOOLEAN
         /\ ~failed' => /\ ~failed
                        /\ Readable => /\ ReadConfig.type # "NONE" /\ ReadConfig.data # Erased
                                            => driver' = ReadConfig.type
                                       /\ driver' \in {driver, ReadConfig.type}
                        /\ ~Readable => driver' = driver
<1>1. Readable => /\ ConfOK(ReadConfig) /\ sector["type"] = ReadConfig.type
                  /\ ReadConfig.type \in Types
  BY ReadPrefix DEF Inv, ShapeOK, SectorOK, ConfOK, Confs
<1>2. driver \in Types /\ failed \in BOOLEAN BY DEF Inv, ShapeOK, TypeOK
<1>3. CASE failed' = TRUE /\ driver' = driver BY <1>2, <1>3
<1>4. CASE /\ failed' = failed
           /\ driver' = IF Readable /\ DriverStarts(ReadConfig) THEN sector["type"] ELSE driver
  <2>1. Readable /\ ReadConfig.type # "NONE" /\ ReadConfig.data # Erased
          => DriverStarts(ReadConfig)
    BY <1>1 DEF ConfOK, DriverStarts, DefaultData, Types
  <2> QED BY <1>1, <1>2, <1>4, <2>1
<1> QED BY <1>3, <1>4 DEF InitDriver

LEMMA NextShape == Inv /\ [Next]_vars => ShapeOK'
<1> SUFFICES ASSUME Inv, [Next]_vars PROVE ShapeOK' OBVIOUS
<1> USE DEF Inv, ShapeOK, TypeOK
<1>0. ErasedSector \in [Words -> {Erased, GuardValue, NoValue, "none", "some", "pins"}
                                   \union Names \union Rooms \union Types]
  BY DEF ErasedSector
<1>1. ASSUME NEW f \in Fields, NEW v \in Wanted(f), Set(f, v) PROVE ShapeOK'
  <2>1. PICK read \in {TRUE, FALSE} :
          /\ read => Readable
          /\ basis' = IF ~read THEN "reset" ELSE IF torn THEN "torn" ELSE "saved"
          /\ failed' = (failed \/ (Readable /\ ~read))
          /\ IF f = "type" /\ StartsFrom(read).type = v
             THEN UNCHANGED <<conf, pc>>
             ELSE conf' = WithField(StartsFrom(read), f, v) /\ pc' = "save"
    BY <1>1 DEF Set
  <2>2. ConfOK(WithField(StartsFrom(read), f, v)) BY <2>1, StartsFromOK, WithFieldOK
  <2>3. ConfOK(conf') /\ pc' \in {"save", "idle"} BY <1>1, <2>1, <2>2 DEF Set
  <2>4. basis' \in {"saved", "torn", "reset"} /\ failed' \in BOOLEAN BY <2>1
  <2> QED BY <1>1, <2>3, <2>4 DEF Set, ConfOK
<1>2. CASE Erase BY <1>0, <1>2, WordsAre DEF Erase, ConfOK
<1>3. CASE SaveFails BY <1>3 DEF SaveFails, Fail, ghosts
<1>4. CASE EraseFails BY <1>0, <1>4 DEF EraseFails, Fail, ConfOK
<1>5. CASE WriteWord
  <2>1. conf \in Confs /\ conf = last BY <1>5 DEF WriteWord, ConfOK
  <2>2. Layout[next] \in Words /\ next \in 1..6 BY WordsAre DEF Words
  <2>3. Image(Layout[next]) \in {Erased, GuardValue, NoValue, "none", "some", "pins"}
                                  \union Names \union Rooms \union Types
    <3>1. next \in {1, 2, 3, 4, 5, 6} BY <2>2
    <3> QED BY <2>1, <3>1, WordsAre DEF Image, Confs
  <2>4. sector' \in [Words -> {Erased, GuardValue, NoValue, "none", "some", "pins"}
                               \union Names \union Rooms \union Types]
    BY <1>5, <2>2, <2>3 DEF WriteWord
  <2>5. LastWord \in 5..6 BY WordsAre DEF LastWord
  <2>6. CASE next < LastWord
    BY <1>5, <2>2, <2>4, <2>5, <2>6, WordsAre DEF WriteWord
  <2>7. CASE ~(next < LastWord)
    <3>1. next' = 1 /\ 1 \in 1..Len(Layout) /\ saved' = conf /\ pc' \in {"init", "idle"}
      BY <1>5, <2>7, WordsAre DEF WriteWord
    <3>2. torn' = FALSE BY <1>5, <2>7 DEF WriteWord
    <3>3. ConfOK(conf') /\ ConfOK(saved') /\ ConfOK(last')
      BY <1>5, <3>1 DEF WriteWord
    <3> QED BY <1>5, <2>1, <2>4, <3>1, <3>2, <3>3 DEF WriteWord
  <2> QED BY <2>6, <2>7
<1>6. CASE WriteFails BY <1>6 DEF WriteFails, Fail
<1>7. CASE DeviceInit
  BY <1>7, InitDriverStarts DEF DeviceInit
<1>8. CASE InitAgain
  BY <1>8, InitDriverStarts DEF InitAgain
<1>9. CASE Crash
  <2>1. next' \in 1..Len(Layout) BY <1>9, WordsAre DEF Crash
  <2>2. ConfOK(conf') /\ conf' \in Confs BY <1>9, ZeroConfOK DEF Crash, ConfOK
  <2>3. ConfOK(saved') /\ ConfOK(last') BY <1>9 DEF Crash
  <2> QED BY <1>9, <2>1, <2>2, <2>3 DEF Crash, Types
<1>10. CASE UNCHANGED vars BY <1>10 DEF vars, ghosts
<1> QED BY <1>1, <1>2, <1>3, <1>4, <1>5, <1>6, <1>7, <1>8, <1>9, <1>10 DEF Next, Step

LEMMA NextSector == Inv /\ [Next]_vars => SectorOK'
<1> SUFFICES ASSUME Inv, [Next]_vars PROVE SectorOK' OBVIOUS
<1>0. PICK k \in 0..6 :
        /\ Written(k) /\ k <= Whole(last)
        /\ pc = "write" => k = next - 1 /\ next <= Whole(last)
        /\ ~torn => saved = last /\ (k = Whole(last) \/ (k = 0 /\ last = ZeroConf))
  BY DEF Inv, SectorOK
<1>1. ASSUME sector' = sector, last' = last, torn' = torn, saved' = saved, pc' # "write"
      PROVE  SectorOK'
  <2>1. Written(k)' BY <1>0, <1>1 DEF Written
  <2>2. k <= Whole(last)' BY <1>0, <1>1 DEF Whole
  <2>3. ~torn' => saved' = last' /\ (k = Whole(last)' \/ (k = 0 /\ last' = ZeroConf))
    BY <1>0, <1>1 DEF Whole
  <2> QED BY <1>1, <2>1, <2>2, <2>3 DEF SectorOK
<1>2. ASSUME sector' = ErasedSector, last' = conf, torn' = TRUE,
             pc' = "write" => next' = 1
      PROVE  SectorOK'
  <2>1. Written(0)' BY <1>2, WordsAre DEF Written, ErasedSector
  <2>2. Whole(last)' \in 5..6 BY <1>2, WrittenWords DEF Inv, ShapeOK, Whole
  <2> QED BY <1>2, <2>1, <2>2 DEF SectorOK
<1>3. ASSUME NEW f \in Fields, NEW v \in Wanted(f), Set(f, v) PROVE SectorOK'
  BY <1>1, <1>3 DEF Set
<1>4. CASE Erase BY <1>2, <1>4 DEF Erase
<1>5. CASE SaveFails BY <1>1, <1>5 DEF SaveFails, Fail, ghosts
<1>6. CASE EraseFails BY <1>1, <1>2, <1>6 DEF EraseFails, Fail
<1>7. CASE WriteWord
  <2>1. /\ pc = "write" /\ conf = last /\ torn /\ last' = last /\ next = k + 1
        /\ sector' = [sector EXCEPT ![Layout[next]] = Image(Layout[next])]
        /\ next <= Whole(last) /\ LastWord = Whole(last) /\ next \in 1..6
        /\ sector = [w \in Words |-> sector[w]]
    BY <1>0, <1>7, WordsAre DEF WriteWord, Inv, ShapeOK, TypeOK, LastWord, Whole
  <2>2. Written(k + 1)'
    <3>1. next \in {1, 2, 3, 4, 5, 6} BY <2>1
    <3>2. \A w \in Words : sector'[w] = IF w = Layout[next] THEN Image(w) ELSE sector[w]
      BY <2>1
    <3>3. /\ k + 1 = next
          /\ \A w \in Words \ {"guard"} : Image(w) = last[w]
          /\ Image("guard") = GuardValue
      BY <2>1 DEF Image
    <3>4. CASE next = 1 BY <1>0, <2>1, <3>2, <3>3, <3>4, WordsAre DEF Written
    <3>5. CASE next = 2 BY <1>0, <2>1, <3>2, <3>3, <3>5, WordsAre DEF Written
    <3>6. CASE next = 3 BY <1>0, <2>1, <3>2, <3>3, <3>6, WordsAre DEF Written
    <3>7. CASE next = 4 BY <1>0, <2>1, <3>2, <3>3, <3>7, WordsAre DEF Written
    <3>8. CASE next = 5 BY <1>0, <2>1, <3>2, <3>3, <3>8, WordsAre DEF Written
    <3>9. CASE next = 6 BY <1>0, <2>1, <3>2, <3>3, <3>9, WordsAre DEF Written
    <3> QED BY <3>1, <3>4, <3>5, <3>6, <3>7, <3>8, <3>9
  <2>3. k + 1 \in 0..6 /\ Whole(last)' = Whole(last) BY <2>1 DEF Whole
  <2>4. CASE next < LastWord
    <3>1. /\ next' = next + 1 /\ torn' = torn /\ next + 1 <= Whole(last)
          /\ k + 1 = next' - 1 /\ k + 1 <= Whole(last)
      BY <1>7, <2>1, <2>4, WrittenWords DEF WriteWord, Inv, ShapeOK
    <3> QED BY <2>1, <2>2, <2>3, <3>1 DEF SectorOK
  <2>5. CASE ~(next < LastWord)
    <3>1. pc' # "write" /\ saved' = last' /\ k + 1 = Whole(last)
      BY <1>7, <2>1, <2>3, <2>5, WrittenWords DEF WriteWord, Inv, ShapeOK
    <3> QED BY <2>1, <2>2, <2>3, <3>1 DEF SectorOK
  <2> QED BY <2>4, <2>5
<1>8. CASE WriteFails BY <1>1, <1>8 DEF WriteFails, Fail
<1>9. CASE DeviceInit BY <1>1, <1>9 DEF DeviceInit
<1>10. ASSUME UNCHANGED <<sector, pc, next, torn, saved, last>> PROVE SectorOK'
  <2>1. Written(k)' /\ Whole(last)' = Whole(last) BY <1>0, <1>10 DEF Written, Whole
  <2> QED BY <1>0, <1>10, <2>1 DEF SectorOK
<1>11. CASE InitAgain BY <1>10, <1>11 DEF InitAgain
<1>12. CASE Crash BY <1>1, <1>12 DEF Crash
<1>13. CASE UNCHANGED vars BY <1>10, <1>13 DEF vars, ghosts
<1> QED BY <1>3, <1>4, <1>5, <1>6, <1>7, <1>8, <1>9, <1>11, <1>12, <1>13 DEF Next, Step

LEMMA NextDiffers == Inv /\ [Next]_vars => DiffersInOp'
<1> SUFFICES ASSUME Inv, [Next]_vars PROVE DiffersInOp' OBVIOUS
<1>0. DiffersInOp BY DEF Inv
<1>1. ASSUME NEW f \in Fields, NEW v \in Wanted(f), Set(f, v) PROVE DiffersInOp'
  <2>1. PICK read \in {TRUE, FALSE} :
          /\ read => Readable
          /\ basis' = IF ~read THEN "reset" ELSE IF torn THEN "torn" ELSE "saved"
          /\ failed' = (failed \/ (Readable /\ ~read))
          /\ IF f = "type" /\ StartsFrom(read).type = v
             THEN UNCHANGED <<conf, pc>>
             ELSE conf' = WithField(StartsFrom(read), f, v) /\ pc' = "save"
    BY <1>1 DEF Set
  <2>2. CASE pc' \in {"save", "write"} /\ basis' = "saved"
    <3>1. read /\ Readable /\ ~torn BY <2>1, <2>2
    <3>2. StartsFrom(read) = saved
      <4>1. PICK k \in 0..6 :
              /\ Written(k) /\ k <= Whole(last)
              /\ saved = last /\ (k = Whole(last) \/ k = 0)
        BY <3>1 DEF Inv, SectorOK
      <4>2. k = Whole(last) BY <3>1, <4>1, ReadPrefix DEF Inv, ShapeOK
      <4> QED BY <3>1, <4>1, <4>2, ReadPrefix DEF Inv, ShapeOK, StartsFrom
    <3>3. conf' = WithField(saved, f, v) /\ op' = f /\ saved' = saved
      BY <1>1, <2>1, <2>2, <3>2 DEF Set
    <3> QED BY <3>3, WithFieldOK DEF Inv, ShapeOK, DiffersInOp
  <2> QED BY <2>2 DEF DiffersInOp
<1>2. CASE pc' \notin {"save", "write"} BY <1>2 DEF DiffersInOp
<1>3. CASE UNCHANGED <<conf, op, saved, basis>> /\ pc \in {"save", "write"}
  BY <1>0, <1>3 DEF DiffersInOp
<1>4. CASE WriteWord
  <2>1. UNCHANGED <<conf, op, saved, basis>> \/ pc' \notin {"save", "write"}
    BY <1>4 DEF WriteWord
  <2> QED BY <1>2, <1>3, <1>4, <2>1 DEF WriteWord
<1>5. CASE Erase BY <1>3, <1>5 DEF Erase
<1>6. CASE SaveFails \/ EraseFails \/ WriteFails
  BY <1>2, <1>6 DEF SaveFails, EraseFails, WriteFails, Fail
<1>7. CASE DeviceInit BY <1>2, <1>7 DEF DeviceInit
<1>8. CASE InitAgain BY <1>0, <1>8 DEF InitAgain, DiffersInOp
<1>9. CASE Crash BY <1>2, <1>9 DEF Crash
<1>10. CASE UNCHANGED vars BY <1>0, <1>10 DEF vars, ghosts, DiffersInOp
<1> QED BY <1>1, <1>4, <1>5, <1>6, <1>7, <1>8, <1>9, <1>10 DEF Next, Step

\* What a step that leaves the sector alone reads in the next state.
LEMMA ReadSame ==
  ASSUME sector' = sector
  PROVE  Readable' = Readable /\ ReadConfig' = ReadConfig
BY DEF Readable, AlreadyExists, ReadConfig

LEMMA NextDriver == Inv /\ [Next]_vars => DriverOK'
<1> SUFFICES ASSUME Inv, [Next]_vars PROVE DriverOK' OBVIOUS
<1>0. DriverOK BY DEF Inv
<1>1. ASSUME NEW f \in Fields, NEW v \in Wanted(f), Set(f, v), ~failed' PROVE DriverOK'
  <2>1. PICK read \in {TRUE, FALSE} :
          /\ read => Readable
          /\ failed' = (failed \/ (Readable /\ ~read))
          /\ IF f = "type" /\ StartsFrom(read).type = v
             THEN UNCHANGED <<conf, pc>>
             ELSE conf' = WithField(StartsFrom(read), f, v) /\ pc' = "save"
    BY <1>1 DEF Set
  <2>2. ~failed /\ (Readable => read) BY <1>1, <2>1
  <2>3. /\ pc = "idle" /\ op' = f /\ driver' = driver
        /\ Readable' = Readable /\ ReadConfig' = ReadConfig
    BY <1>1, ReadSame DEF Set
  <2>4. Readable => Driven(ReadConfig) BY <1>0, <2>2, <2>3 DEF DriverOK
  <2>5. (Readable => Driven(ReadConfig))' BY <2>3, <2>4 DEF Driven
  <2>6. CASE UNCHANGED <<conf, pc>> BY <2>3, <2>5, <2>6 DEF DriverOK
  <2>7. CASE conf' = WithField(StartsFrom(read), f, v) /\ pc' = "save"
    <3>1. ConfOK(StartsFrom(read)) BY <2>1, StartsFromOK DEF Inv
    <3>2. f # "type" => /\ conf'.type = StartsFrom(read).type
                        /\ conf'.data = StartsFrom(read).data
      BY <2>7, <3>1, WithFieldOK
    <3>3. StartsFrom(read) = IF Readable THEN ReadConfig ELSE ZeroConf
      BY <2>1, <2>2 DEF StartsFrom
    <3>4. ZeroConf.type = "NONE" BY DEF ZeroConf
    <3>5. op' # "type" => IF Readable THEN conf'.type = ReadConfig.type /\ conf'.data = ReadConfig.data
                          ELSE conf'.type = "NONE"
      BY <2>3, <3>2, <3>3, <3>4
    <3>6. op' # "type" => Driven(conf)' BY <2>3, <2>4, <3>5 DEF Driven
    <3> QED BY <2>3, <2>5, <2>7, <3>5, <3>6 DEF DriverOK
  <2> QED BY <2>1, <2>6, <2>7
<1>2. CASE Erase
  BY <1>0, <1>2 DEF Erase, DriverOK, Driven
<1>3. CASE SaveFails
  <2>1. Readable' = Readable /\ ReadConfig' = ReadConfig BY <1>3, ReadSame DEF SaveFails
  <2> QED BY <1>0, <1>3, <2>1 DEF SaveFails, Fail, ghosts, DriverOK, Driven
<1>4. CASE EraseFails \/ WriteFails BY <1>4 DEF EraseFails, WriteFails, DriverOK
<1>5. CASE WriteWord
  <2>1. /\ pc = "write" /\ conf = last /\ last' = last /\ driver' = driver /\ failed' = failed
        /\ op' = op /\ conf' = conf
    BY <1>5 DEF WriteWord, Inv, ShapeOK
  <2>2. CASE next < LastWord
    BY <1>0, <1>5, <2>1, <2>2 DEF WriteWord, DriverOK, Driven
  <2>3. CASE ~(next < LastWord)
    <3>1. pc' = IF op = "type" THEN "init" ELSE "idle" BY <1>5, <2>3 DEF WriteWord
    <3>2. (ShapeOK /\ SectorOK)' BY NextShape, NextSector
    <3>3. (ShapeOK /\ SectorOK => ReadsLast)' BY SectorIsRead, PTL
    <3>4. ReadsLast' BY <3>2, <3>3
    <3> QED BY <1>0, <2>1, <3>1, <3>4 DEF DriverOK, Driven, ReadsLast
  <2> QED BY <2>2, <2>3
<1>6. CASE DeviceInit
  <2>1. Readable' = Readable /\ ReadConfig' = ReadConfig BY <1>6, ReadSame DEF DeviceInit
  <2> QED BY <1>6, <2>1, InitDriverStarts DEF DeviceInit, DriverOK, Driven
<1>7. CASE InitAgain
  <2>1. Readable' = Readable /\ ReadConfig' = ReadConfig BY <1>7, ReadSame DEF InitAgain
  <2>2. UNCHANGED <<pc, op, conf>> /\ InitDriver BY <1>7 DEF InitAgain
  <2> SUFFICES ASSUME ~failed' PROVE DriverOK' BY DEF DriverOK
  <2>3. Readable' => Driven(ReadConfig)' BY <2>1, <2>2, InitDriverStarts DEF Driven
  <2>4. ASSUME pc \in {"save", "write"}, op # "type" PROVE Driven(conf)'
    <3>1. Driven(conf) /\ ~failed BY <1>0, <2>2, <2>4, InitDriverStarts DEF DriverOK
    <3>2. CASE ~Readable BY <2>2, <3>1, <3>2, InitDriverStarts DEF Driven
    <3>3. CASE Readable
      <4>1. conf.type = ReadConfig.type
        <5>1. CASE pc = "save" BY <1>0, <2>4, <3>1, <3>3, <5>1 DEF DriverOK
        <5>2. CASE pc = "write"
          BY <3>3, <5>2, ReadPrefix DEF Inv, ShapeOK, SectorOK
        <5> QED BY <2>4, <5>1, <5>2
      <4> QED BY <2>2, <3>1, <3>3, <4>1, InitDriverStarts DEF Driven
    <3> QED BY <3>2, <3>3
  <2> QED BY <1>0, <2>1, <2>2, <2>3, <2>4, InitDriverStarts DEF DriverOK
<1>8. CASE Crash BY <1>8 DEF Crash, DriverOK
<1>9. CASE UNCHANGED vars
  <2>1. Readable' = Readable /\ ReadConfig' = ReadConfig BY <1>9, ReadSame DEF vars
  <2> QED BY <1>0, <1>9, <2>1 DEF vars, ghosts, DriverOK, Driven
<1>10. CASE failed' BY <1>10 DEF DriverOK
<1> QED BY <1>1, <1>2, <1>3, <1>4, <1>5, <1>6, <1>7, <1>8, <1>9, <1>10 DEF Next, Step

-----------------------------------------------------------------------------
LEMMA InvHolds == Spec => []Inv
<1>1. Inv /\ [Next]_vars => Inv'
  BY NextShape, NextSector, NextDiffers, NextDriver DEF Inv
<1> QED BY <1>1, InitInv, PTL DEF Spec

\* The sector, the command and its configuration keep their shapes in device_config.c,
\* whatever fails and wherever power is lost.
THEOREM ConfigTypeOK == Spec => []TypeOK
<1>1. Inv => TypeOK BY DEF Inv, ShapeOK
<1> QED BY <1>1, InvHolds, PTL

\* Wherever a save is cut short, DeviceConfig_read_config refuses the sector, or returns the
\* name, the room and the type of one and the same save.
THEOREM ReadsOneSave == Spec => []ReadIsWhole
<1>1. Inv => ReadIsWhole
  <2> SUFFICES ASSUME Inv, Readable
               PROVE  /\ [ReadConfig EXCEPT !.data = NoValue] = [last EXCEPT !.data = NoValue]
                      /\ ReadConfig.data \in {last.data, Erased}
    BY DEF ReadIsWhole
  <2>1. /\ ConfOK(ReadConfig) /\ ConfOK(last)
        /\ ReadConfig.name = last.name /\ ReadConfig.room = last.room
        /\ ReadConfig.type = last.type /\ ReadConfig.len = last.len
        /\ ReadConfig.data \in {last.data, Erased}
    BY SectorIsRead DEF Inv, ShapeOK, ReadsLast
  <2>2. /\ [ReadConfig EXCEPT !.data = NoValue]
             = [name |-> ReadConfig.name, room |-> ReadConfig.room, type |-> ReadConfig.type,
                len |-> ReadConfig.len, data |-> NoValue]
        /\ [last EXCEPT !.data = NoValue]
             = [name |-> last.name, room |-> last.room, type |-> last.type,
                len |-> last.len, data |-> NoValue]
    BY <2>1 DEF ConfOK, Confs
  <2> QED BY <2>1, <2>2
<1> QED BY <1>1, InvHolds, PTL

\* A configuration that was saved completely can be read back, with all its fields, until
\* another command erases the sector.
THEOREM SavedStays == Spec => []SavedIsKept
<1>1. Inv => SavedIsKept
  <2> SUFFICES ASSUME Inv, ~torn, saved # ZeroConf PROVE Readable /\ ReadConfig = saved
    BY DEF SavedIsKept
  <2>1. PICK k \in 0..6 :
          Written(k) /\ k <= Whole(last) /\ saved = last /\ k = Whole(last)
    BY DEF Inv, SectorOK
  <2> QED BY <2>1, ReadPrefix DEF Inv, ShapeOK
<1> QED BY <1>1, InvHolds, PTL

\* A device that has come up, and whose flash did not fail, runs the driver of the type that
\* was saved last.
THEOREM DriverIsConfigured == Spec => []DriverMatches
<1>1. Inv => DriverMatches
  <2> SUFFICES ASSUME Inv, pc \in {"idle", "save"}, ~torn, ~failed, saved.type # "NONE",
                      saved.data # Erased
               PROVE  driver = saved.type
    BY DEF DriverMatches
  <2>1. saved # ZeroConf BY DEF ZeroConf
  <2>2. PICK k \in 0..6 :
          Written(k) /\ k <= Whole(last) /\ saved = last /\ k = Whole(last)
    BY <2>1 DEF Inv, SectorOK
  <2>3. Readable /\ ReadConfig = saved BY <2>2, ReadPrefix DEF Inv, ShapeOK
  <2> QED BY <2>3 DEF Inv, DriverOK, Driven
<1> QED BY <1>1, InvHolds, PTL

\* Name, Room and Type leave the other fields of a saved configuration as they are, whatever
\* happened between any two saves.
THEOREM OtherFieldsStay == Spec => OthersKept
<1>1. Inv /\ [Next]_vars =>
        [saved' # saved /\ basis = "saved" =>
           /\ \A f \in Fields \ {op} : saved'[f] = saved[f]
           /\ op # "type" => saved'.len = saved.len /\ saved'.data = saved.data]_vars
  <2> SUFFICES ASSUME Inv, [Next]_vars, saved' # saved, basis = "saved"
               PROVE  /\ \A f \in Fields \ {op} : saved'[f] = saved[f]
                      /\ op # "type" => saved'.len = saved.len /\ saved'.data = saved.data
    OBVIOUS
  <2>1. WriteWord
    BY DEF Next, Step, Set, Erase, SaveFails, EraseFails, WriteFails, Fail, DeviceInit,
           InitAgain, Crash, vars, ghosts
  <2>2. saved' = conf /\ pc = "write" BY <2>1 DEF WriteWord
  <2> QED BY <2>2 DEF Inv, DiffersInOp
<1> QED BY <1>1, InvHolds, PTL DEF Spec, OthersKept

=============================================================================
