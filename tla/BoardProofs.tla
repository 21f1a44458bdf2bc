----------------------------- MODULE BoardProofs ------------------------------
(***************************************************************************)
(* What the board keeps and what restarts it, for every value of the           *)
(* constants: its flash (Host), its restarts (Restarts), firmware updates       *)
(* (Update) and the configuration document (Config).                          *)
(***************************************************************************)
EXTENDS Restarts, Host, Config, Update, TLAPS

-----------------------------------------------------------------------------
(* Host.  Under the lock that a configuration is saved with, told is what it was  *)
(* before; while the stored one is erased, the page says "defaults".               *)

StorageInv ==
  /\ StoredIsWhatRuns
  /\ lock = "EraseConfig" => told = "defaults"

\* Every boot runs and tells what flash holds.
LEMMA LoadTells ==
  ASSUME NEW doc, NEW hist, Load(doc, hist), stored' = doc
  PROVE  StorageInv'
BY DEF Load, StorageInv, StoredIsWhatRuns

(* A page that says "stored" tells the truth, over every order of commands, ticks,  *)
(* failing writes, power losses and factory resets (sampler.cpp:381-409).          *)
THEOREM StoredStaysTrue == HostSpec => []StoredIsWhatRuns
<1>1. HostInit => StorageInv
  BY DEF HostInit, StorageInv, StoredIsWhatRuns
<1>2. ASSUME StorageInv, [HostNext]_hostVars
      PROVE  StorageInv'
  <2>1. CASE ResetConfig \/ \E d \in Docs : ApplyConfigJson(d)
    BY <2>1 DEF ResetConfig, ApplyConfigJson, StorageInv, StoredIsWhatRuns
  <2>2. CASE SaveConfig
    <3>1. PICK ok \in BOOLEAN : SetBlob(stored, cfg, ok) /\ told' = IF ok THEN "stored" ELSE "unsaved"
      BY <2>2 DEF SaveConfig
    <3>2. told' = "stored" => stored' = cfg
      BY <3>1 DEF SetBlob
    <3>3. QED BY <2>2, <3>2 DEF SaveConfig, StorageInv, StoredIsWhatRuns
  <2>3. CASE EraseConfig
    BY <1>2, <2>3 DEF EraseConfig, StorageInv, StoredIsWhatRuns
  <2>4. CASE SaveTest
    BY <1>2, <2>4 DEF SaveTest, configStorage, StorageInv, StoredIsWhatRuns
  <2>5. CASE Work
    BY <1>2, <2>5 DEF Work, ClearFailure, TickHistory, configStorage, StorageInv, StoredIsWhatRuns
  <2>6. CASE Boot \/ BootUnusable \/ RestartFactory
    BY <2>6, LoadTells DEF Boot, BootUnusable, RestartFactory
  <2>7. CASE CmdFactory
    BY <1>2, <2>7 DEF CmdFactory, StorageInv, StoredIsWhatRuns
  <2>8. CASE UNCHANGED hostVars
    BY <1>2, <2>8 DEF hostVars, StorageInv, StoredIsWhatRuns
  <2>9. QED BY <1>2, <2>1, <2>2, <2>3, <2>4, <2>5, <2>6, <2>7, <2>8 DEF HostNext, ConfigCommand, Store
<1>3. StorageInv => StoredIsWhatRuns
  BY DEF StorageInv
<1>4. QED BY <1>1, <1>2, <1>3, PTL DEF HostSpec

-----------------------------------------------------------------------------
(* Restarts.  From the sample that decides on the daily restart to the reboot, the *)
(* sampling task has the lock, and with it every task stands still that could make *)
(* the App busy.                                                             *)

HeldInv == sampler # "Free" => quiet

(* The daily restart interrupts nothing, whatever the other tasks do meanwhile and  *)
(* whichever other restart comes first (sampler.cpp:299, :463-474).                *)
THEOREM DailyStaysQuiet == RestartsSpec => []DailyInterruptsNothing
<1>1. RestartsInit => HeldInv
  BY DEF RestartsInit, HeldInv
<1>2. ASSUME HeldInv, [RestartsNext]_restartVars
      PROVE  HeldInv'
  <2>1. CASE BusyScope \/ Dies \/ Minute \/ HourBegins
    BY <1>2, <2>1 DEF BusyScope, Dies, Minute, HourBegins, tasks, HeldInv
  <2>2. CASE Watch
    BY <1>2, <2>2 DEF Watch, Ask, Answered, TimedOut, CheckWeb, AskApp, RestartWebDead, HeldInv
  <2>3. CASE Restart \/ Reboot
    BY <2>3 DEF Restart, Abort, RebootDaily, RebootCommand, Reboot, HeldInv
  <2>4. CASE Tick
    BY <2>4 DEF Tick, Daily, HeldInv
  <2>5. CASE RestartDaily \/ RestartCommand
    BY <1>2, <2>5 DEF RestartDaily, RestartCommand, Unlocked, HeldInv
  <2>6. CASE Command
    BY <1>2, <2>6 DEF Command, Unlocked, tasks, HeldInv
  <2>7. CASE UNCHANGED restartVars
    BY <1>2, <2>7 DEF restartVars, HeldInv
  <2>8. QED BY <1>2, <2>1, <2>2, <2>3, <2>4, <2>5, <2>6, <2>7 DEF RestartsNext
<1>3. HeldInv => DailyInterruptsNothing
  BY DEF HeldInv, DailyInterruptsNothing
<1>4. QED BY <1>1, <1>2, <1>3, PTL DEF RestartsSpec

-----------------------------------------------------------------------------
(* Why: an image that is still on trial has a confirmed one in the other slot,     *)
(* and an image is only overwritten while a confirmed one runs.                   *)

Confirmed(s) == image[s] = "Good" /\ state[s] \in {"Undefined", "Valid"}
OnTrial(s) == state[s] \in {"New", "Pending"}

FlashInv ==
  /\ image \in [Slots -> Images] /\ state \in [Slots -> States] /\ boot \in Slots
  /\ Confirmed(IF OnTrial(boot) THEN Other(boot) ELSE boot)

RunInv ==
  /\ running \in Slots \cup {Down}
  /\ running # Down /\ upload # "Written" => running = boot /\ state[boot] # "New"
  /\ upload = "Begun" => running # Down /\ state[boot] # "Pending"
  /\ upload = "Written" => running # Down /\ boot = Other(running) /\ state[boot] = "New"

LEMMA TwoSlots ==
  /\ Down \notin Slots
  /\ \A s \in Slots : Other(s) \in Slots /\ Other(s) # s /\ Other(Other(s)) = s
  /\ \A s, r \in Slots : r = s \/ r = Other(s)
BY DEF Slots, Other, Down

LEMMA UpdateInitInv == UpdateInit => FlashInv /\ RunInv
BY DEF UpdateInit, FlashInv, RunInv, Confirmed, OnTrial, Slots, Images, States, Other, Down

\* The bootloader takes an image on trial back to a confirmed one.
LEMMA BootInv ==
  ASSUME FlashInv, RunInv, Bootloader
  PROVE  FlashInv' /\ RunInv'
<1> DEFINE tried == state[boot] = "Pending"
           slot == IF tried THEN Other(boot) ELSE boot
<1>1. boot \in Slots /\ slot \in Slots /\ running' = slot /\ boot' = slot /\ image' = image /\ upload' = "Idle"
  BY TwoSlots DEF FlashInv, Bootloader
<1>2. state' = [s \in Slots |-> IF tried /\ s = boot THEN "Aborted"
                               ELSE IF s = slot /\ state[s] = "New" THEN "Pending" ELSE state[s]]
  BY DEF Bootloader
<1>3. state' \in [Slots -> States]
  BY <1>2 DEF FlashInv, States
<1>4. CASE tried
  <2>1. Confirmed(slot) /\ slot # boot
    BY <1>1, <1>4, TwoSlots DEF FlashInv, OnTrial
  <2>2. state'[slot] = state[slot]
    BY <1>1, <1>2, <2>1 DEF Confirmed
  <2>3. Confirmed(slot)' /\ ~OnTrial(slot)'
    BY <1>1, <2>1, <2>2 DEF Confirmed, OnTrial
  <2>4. QED BY <1>1, <1>3, <2>2, <2>3 DEF FlashInv, RunInv, Confirmed, OnTrial
<1>5. CASE ~tried /\ OnTrial(boot)
  <2>1. state'[boot] = "Pending" /\ state'[Other(boot)] = state[Other(boot)]
    BY <1>1, <1>2, <1>5, TwoSlots DEF OnTrial
  <2>2. Confirmed(Other(boot)) /\ slot = boot
    BY <1>5 DEF FlashInv
  <2>3. QED BY <1>1, <1>3, <2>1, <2>2 DEF FlashInv, RunInv, Confirmed, OnTrial
<1>6. CASE ~tried /\ ~OnTrial(boot)
  <2>1. Confirmed(boot) /\ slot = boot
    BY <1>6 DEF FlashInv
  <2>2. state'[boot] = state[boot]
    BY <1>1, <1>2, <1>6 DEF OnTrial
  <2>3. QED BY <1>1, <1>3, <2>1, <2>2 DEF FlashInv, RunInv, Confirmed, OnTrial
<1>7. QED BY <1>4, <1>5, <1>6

\* Only an image that reads the probe is confirmed, and only the one that runs.
LEMMA SampleInv ==
  ASSUME FlashInv, RunInv, Sample
  PROVE  FlashInv' /\ RunInv'
<1>1. running \in Slots /\ UNCHANGED <<image, boot, running, upload>>
  BY DEF RunInv, Sample
<1>2. CASE UNCHANGED state
  BY <1>1, <1>2 DEF FlashInv, RunInv, Confirmed, OnTrial
<1>3. CASE state' = [state EXCEPT ![running] = IF @ = "Pending" THEN "Valid" ELSE @] /\ probe'
  <2>1. image[running] = "Good"
    BY <1>3 DEF Sample
  <2>2. CASE state[running] # "Pending"
    <3>1. state' = state
      BY <1>1, <1>3, <2>2 DEF FlashInv
    <3>2. QED BY <1>2, <3>1
  <2>3. CASE state[running] = "Pending"
    <3>1. boot = running
      BY <1>1, <2>3, TwoSlots DEF FlashInv, RunInv, Confirmed, OnTrial
    <3>2. state'[running] = "Valid" /\ state' \in [Slots -> States]
      BY <1>1, <1>3, <2>3 DEF FlashInv, States
    <3>3. QED BY <1>1, <2>1, <2>3, <3>1, <3>2 DEF FlashInv, RunInv, Confirmed, OnTrial
  <2>4. QED BY <2>2, <2>3
<1>4. QED BY <1>2, <1>3 DEF Sample, MarkImageValid

\* An upload goes into the slot that does not run, and a confirmed image runs meanwhile.
LEMMA UploadInv ==
  ASSUME FlashInv, RunInv, BeginUpload \/ AbortUpload \/ EndUpload
  PROVE  FlashInv' /\ RunInv'
<1> DEFINE other == Other(running)
<1>1. running \in Slots /\ running = boot /\ Confirmed(running)
  BY DEF FlashInv, RunInv, OnTrial, BeginUpload, AbortUpload, EndUpload
<1>2. other \in Slots /\ other # running /\ Other(other) = running
  BY <1>1, TwoSlots
<1>3. CASE BeginUpload \/ AbortUpload
  <2>1. /\ image' \in [Slots -> Images] /\ state' \in [Slots -> States]
        /\ image'[running] = image[running] /\ state'[running] = state[running]
    BY <1>1, <1>2, <1>3 DEF FlashInv, BeginUpload, AbortUpload, Images, States
  <2>2. UNCHANGED <<boot, running>> /\ upload' \in {"Idle", "Begun"}
    BY <1>3 DEF BeginUpload, AbortUpload, run
  <2>3. QED BY <1>1, <2>1, <2>2, TwoSlots DEF FlashInv, RunInv, Confirmed, OnTrial
<1>4. CASE EndUpload
  <2>1. /\ image' \in [Slots -> Images] /\ state' \in [Slots -> States]
        /\ image'[running] = image[running] /\ state'[running] = state[running]
        /\ state'[other] = "New"
    BY <1>1, <1>2, <1>4 DEF FlashInv, EndUpload, Images, States
  <2>2. running' = running /\ boot' = other /\ upload' = "Written"
    BY <1>4 DEF EndUpload, run
  <2>3. QED BY <1>1, <1>2, <2>1, <2>2, TwoSlots DEF FlashInv, RunInv, Confirmed, OnTrial
<1>5. QED BY <1>3, <1>4

(* Whatever is uploaded and wherever a reset comes: an image that reads the probe   *)
(* runs, boots next or is fallen back on, however long a new one is tried          *)
(* (web.cpp:233-286, sampler.cpp:226-240).                                     *)
THEOREM GoodImageStays == UpdateSpec => []GoodImageIsReachable
<1>1. ASSUME FlashInv, RunInv, [UpdateNext]_updateVars
      PROVE  FlashInv' /\ RunInv'
  <2>1. CASE Reset \/ RestartUpdate
    BY <1>1, <2>1 DEF Reset, RestartUpdate, FlashInv, RunInv, Confirmed, OnTrial, flash, Down
  <2>2. CASE Maintenance \/ UNCHANGED updateVars
    BY <1>1, <2>2 DEF Maintenance, FlashInv, RunInv, Confirmed, OnTrial, updateVars, flash, run
  <2>3. QED BY <1>1, <2>1, <2>2, BootInv, SampleInv, UploadInv DEF UpdateNext
<1>2. FlashInv => GoodImageIsReachable
  BY TwoSlots DEF FlashInv, Confirmed, OnTrial, GoodImageIsReachable
<1>3. QED BY UpdateInitInv, <1>1, <1>2, PTL DEF UpdateSpec

-----------------------------------------------------------------------------
(* What runs is valid, by whatever way it came to run, for every set of             *)
(* documents, pages and plugs: the two promises follow from Validate.               *)

THEOREM RunsValid == ConfigSpec => []Valid(config)
<1>1. ConfigInit => Valid(config)
  BY DefaultsAreValid DEF ConfigInit
<1>2. ASSUME Valid(config), [ConfigNext]_configVars
      PROVE  Valid(config)'
  <2>1. ASSUME NEW doc, Apply(doc)
        PROVE  Valid(config)'
    <3>1. CASE Loads(doc, config)
      <4>1. config' = Read(doc, config) /\ Valid(Read(doc, config))
        BY <2>1, <3>1 DEF Apply, Loads
      <4>2. QED BY <4>1
    <3>2. CASE ~Loads(doc, config)
      <4>1. config' = config
        BY <2>1, <3>2 DEF Apply
      <4>2. QED BY <1>2, <4>1
    <3>3. QED BY <3>1, <3>2
  <2>2. CASE RebootConfig
    <3>1. config' = Defaults \/ (config' = Read(document, Defaults) /\ Valid(Read(document, Defaults)))
      BY <2>2 DEF RebootConfig, Loads
    <3>2. QED BY <3>1, DefaultsAreValid
  <2>3. CASE ResetDocument
    BY <2>3, DefaultsAreValid DEF ResetDocument
  <2>4. ASSUME NEW p \in Pages, Open(p) \/ \E d \in Devices, s \in Outputs : Edit(p, d, s)
        PROVE  Valid(config)'
    <3>1. config' = config
      BY <2>4 DEF Open, Edit
    <3>2. QED BY <1>2, <3>1
  <2>5. ASSUME NEW p \in Pages, Save(p)
        PROVE  Valid(config)'
    BY <2>1, <2>5 DEF Save
  <2>6. ASSUME NEW doc \in Documents, Set(doc)
        PROVE  Valid(config)'
    BY <2>1, <2>6 DEF Set
  <2>7. CASE UNCHANGED configVars
    <3>1. config' = config
      BY <2>7 DEF configVars
    <3>2. QED BY <1>2, <3>1
  <2>8. QED BY <1>2, <2>2, <2>3, <2>4, <2>5, <2>6, <2>7 DEF ConfigNext
<1>3. QED BY <1>1, <1>2, PTL DEF ConfigSpec

(* No output ever has two devices that switch it, whatever documents and forms     *)
(* were combined (config.cpp:728-766, slot.cpp:104-139).                         *)
THEOREM OutputsAreDistinct == ConfigSpec => []OneDeviceAnOutput
<1>1. ASSUME Valid(config)
      PROVE  OneDeviceAnOutput
  <2>1. ASSUME NEW d \in Devices, NEW e \in Devices, d # e
        PROVE  ~IsSame(config.devices[d].slot, config.devices[e].slot)
    <3>1. e < d \/ d < e
      BY <2>1, DevicesAreNumbers
    <3>2. \A x, y \in Devices : y < x => ~IsSame(config.devices[x].slot, config.devices[y].slot)
      BY <1>1 DEF Valid, OutputsFit
    <3>3. \A a, b : IsSame(a, b) => IsSame(b, a)
      BY DEF IsSame
    <3>4. QED BY <3>1, <3>2, <3>3
  <2>2. QED BY <2>1 DEF OneDeviceAnOutput, IsSame
<1>2. QED BY <1>1, RunsValid, PTL

(* Nothing is ever commanded that has no output to do it (config.cpp:761-783).      *)
THEOREM CommandsReachOutputs == ConfigSpec => []CommandedDevicesHaveOutputs
<1>1. ASSUME Valid(config)
      PROVE  CommandedDevicesHaveOutputs
  BY <1>1 DEF Valid, OutputsPresent, CommandedDevicesHaveOutputs
<1>2. QED BY <1>1, RunsValid, PTL

-----------------------------------------------------------------------------
(* Why a plug keeps its key: what runs and what is stored have the plug's own key,  *)
(* and a placeholder in a form stands for the plug that runs and is stored there.   *)

SlotOf(c, d) == c.devices[d].slot
Owned(s) == s.type = "tuya" => s.key = KeyOf[s.id]
SamePlug(s, t) == s.type = "tuya" /\ t.type = "tuya" => s.id = t.id

StandsFor(f, d) ==
  f.type = "tuya" =>
    \/ f.key # REDACTED /\ f.key = KeyOf[f.id]
    \/ /\ f.key = REDACTED
       /\ SamePlug(SlotOf(config, d), f)
       /\ document # Absent => SamePlug(SlotOf(document, d), f)

RunsOwned == Complete(config) /\ \A d \in Devices : Owned(SlotOf(config, d))

KeptOwned ==
  document # Absent =>
    /\ Complete(document)
    /\ \A d \in Devices : Owned(SlotOf(document, d)) /\ SamePlug(SlotOf(document, d), SlotOf(config, d))

FormsStand ==
  /\ DOMAIN form = Pages
  /\ \A p \in Pages : form[p] # Absent =>
       Complete(form[p]) /\ \A d \in Devices : StandsFor(SlotOf(form[p], d), d)

KeyInv == RunsOwned /\ KeptOwned /\ FormsStand

\* What is sent for a device's output.
SentSlot(doc, d) == Section(Section(Section(doc, "devices"), d), "slot")

\* A plug that is read: what was sent of it, over the plug that was there.
ReadOver(s, slot, r) ==
  r.type = "tuya" =>
    /\ slot.type # "tuya" => "type" \in DOMAIN s /\ s.type = "tuya"
    /\ "type" \in DOMAIN s => s.type = "tuya"
    /\ r.id = IF "id" \in DOMAIN s THEN s.id ELSE IF slot.type = "tuya" THEN slot.id ELSE Blank
    /\ r.key = IF "key" \in DOMAIN s /\ s.key # REDACTED THEN s.key
               ELSE IF slot.type = "tuya" THEN slot.key ELSE Blank

LEMMA DefaultSlotHasType ==
  ASSUME NEW type
  PROVE  /\ HasType(DefaultSlot(type))
         /\ DefaultSlot(type).type = "tuya" => type = "tuya"
         /\ type = "tuya" => DefaultSlot(type).id = Blank /\ DefaultSlot(type).key = Blank
<1>1. CASE type = "relay"
  BY <1>1 DEF DefaultSlot, HasType
<1>2. CASE type = "tuya"
  BY <1>2 DEF DefaultSlot, HasType
<1>3. CASE type # "relay" /\ type # "tuya"
  <2>1. DefaultSlot(type) = [type |-> "none"]
    BY <1>3 DEF DefaultSlot
  <2>2. QED BY <1>3, <2>1 DEF HasType
<1>4. QED BY <1>1, <1>2, <1>3

LEMMA SlotReads ==
  ASSUME NEW s, NEW slot, HasType(slot)
  PROVE  HasType(ReadSlot(s, slot)) /\ ReadOver(s, slot, ReadSlot(s, slot))
<1> DEFINE other == "type" \in DOMAIN s /\ s.type # slot.type
           base == IF other THEN DefaultSlot(s.type) ELSE slot
           read == {k \in DOMAIN s : k # "type" /\ ~(k = "key" /\ s[k] = REDACTED)}
           r == [k \in DOMAIN base |-> IF k \in read THEN s[k] ELSE base[k]]
<1>1. ReadSlot(s, slot) = r
  BY DEF ReadSlot
<1>2. HasType(base)
  BY DefaultSlotHasType
<1>3. /\ DOMAIN r = DOMAIN base
      /\ "type" \in DOMAIN r /\ r.type = base.type
  BY <1>2 DEF HasType
<1>4. HasType(r)
  BY <1>2, <1>3 DEF HasType
<1>5. ASSUME r.type = "tuya"
      PROVE  /\ r.id = IF "id" \in DOMAIN s THEN s.id ELSE base.id
             /\ r.key = IF "key" \in DOMAIN s /\ s.key # REDACTED THEN s.key ELSE base.key
  <2>1. "id" \in DOMAIN base /\ "key" \in DOMAIN base
    BY <1>2, <1>3, <1>5 DEF HasType
  <2>2. "id" \in read <=> "id" \in DOMAIN s
    OBVIOUS
  <2>3. "key" \in read <=> "key" \in DOMAIN s /\ s.key # REDACTED
    OBVIOUS
  <2>4. QED BY <2>1, <2>2, <2>3
<1>6. ReadOver(s, slot, r)
  <2>1. SUFFICES ASSUME r.type = "tuya"
                 PROVE  /\ slot.type # "tuya" => "type" \in DOMAIN s /\ s.type = "tuya"
                        /\ "type" \in DOMAIN s => s.type = "tuya"
                        /\ base.id = IF slot.type = "tuya" THEN slot.id ELSE Blank
                        /\ base.key = IF slot.type = "tuya" THEN slot.key ELSE Blank
    BY <1>5 DEF ReadOver
  <2>2. CASE other
    BY <1>3, <2>1, <2>2, DefaultSlotHasType
  <2>3. CASE ~other
    BY <1>3, <2>1, <2>3
  <2>4. QED BY <2>2, <2>3
<1>7. QED BY <1>1, <1>4, <1>6

LEMMA DeviceReads ==
  ASSUME NEW o, NEW base, {"slot", "test_s", "trigger"} \subseteq DOMAIN base, HasType(base.slot)
  PROVE  /\ {"slot", "test_s", "trigger"} \subseteq DOMAIN ReadDevice(o, base)
         /\ HasType(ReadDevice(o, base).slot)
         /\ ReadOver(Section(o, "slot"), base.slot, ReadDevice(o, base).slot)
<1> DEFINE sent == Section(o, "slot")
           slot == ReadSlot(sent, base.slot)
           wired == IF "wired" \in DOMAIN o /\ slot.type = "relay" THEN [slot EXCEPT !.wiring = o.wired] ELSE slot
           r == ReadDevice(o, base)
<1>1. HasType(slot) /\ ReadOver(sent, base.slot, slot)
  BY SlotReads
<1>2. HasType(wired) /\ ReadOver(sent, base.slot, wired)
  <2>1. CASE wired = slot
    BY <1>1, <2>1
  <2>2. CASE slot.type = "relay" /\ wired = [slot EXCEPT !.wiring = o.wired]
    <3>1. "type" \in DOMAIN slot
      BY <1>1 DEF HasType
    <3>2. "type" \in DOMAIN wired /\ wired.type = "relay"
      BY <2>2, <3>1
    <3>3. QED BY <3>2 DEF HasType, ReadOver
  <2>3. QED BY <2>1, <2>2
<1>3. DOMAIN r = DOMAIN base /\ r.slot = wired
  BY DEF ReadDevice, Over
<1>4. QED BY <1>2, <1>3

LEMMA DocumentReads ==
  ASSUME NEW doc, NEW base, Complete(base)
  PROVE  /\ Complete(Read(doc, base))
         /\ \A d \in Devices : ReadOver(SentSlot(doc, d), SlotOf(base, d), SlotOf(Read(doc, base), d))
<1> DEFINE r == Read(doc, base)
           sent(d) == Section(Section(doc, "devices"), d)
<1>1. "devices" \in DOMAIN r /\ r.devices = [d \in Devices |-> ReadDevice(sent(d), base.devices[d])]
  BY DEF Complete, Read, Over
<1>2. ASSUME NEW d \in Devices
      PROVE  /\ {"slot", "test_s", "trigger"} \subseteq DOMAIN r.devices[d]
             /\ HasType(r.devices[d].slot)
             /\ ReadOver(SentSlot(doc, d), SlotOf(base, d), SlotOf(r, d))
  <2>1. r.devices[d] = ReadDevice(sent(d), base.devices[d])
    BY <1>1
  <2>2. {"slot", "test_s", "trigger"} \subseteq DOMAIN base.devices[d] /\ HasType(base.devices[d].slot)
    BY DEF Complete
  <2>3. QED BY <2>1, <2>2, DeviceReads DEF SentSlot, SlotOf
<1>3. QED BY <1>1, <1>2 DEF Complete

\* What is shown or stored of a plug.
WrittenAs(slot, redact, w) ==
  /\ HasType(w) /\ w.type = slot.type
  /\ slot.type = "tuya" => w.id = slot.id /\ w.key = IF redact /\ slot.key # Blank THEN REDACTED ELSE slot.key

LEMMA DocumentWrites ==
  ASSUME NEW c, NEW redact, Complete(c)
  PROVE  /\ Complete(Write(c, redact))
         /\ \A d \in Devices : WrittenAs(SlotOf(c, d), redact, SlotOf(Write(c, redact), d))
<1> DEFINE w == Write(c, redact)
<1>1. "devices" \in DOMAIN w /\ w.devices = [d \in Devices |-> [c.devices[d] EXCEPT !.slot = PutSlot(@, redact)]]
  <2> DEFINE devices == [d \in Devices |-> [c.devices[d] EXCEPT !.slot = PutSlot(@, redact)]]
  <2>1. w = [c EXCEPT !.devices = devices]
    BY DEF Write
  <2>2. "devices" \in DOMAIN c
    BY DEF Complete
  <2> HIDE DEF devices
  <2>3. "devices" \in DOMAIN w /\ w.devices = devices
    BY <2>1, <2>2
  <2>4. QED BY <2>3 DEF devices
<1>2. ASSUME NEW d \in Devices
      PROVE  /\ {"slot", "test_s", "trigger"} \subseteq DOMAIN w.devices[d]
             /\ WrittenAs(SlotOf(c, d), redact, w.devices[d].slot)
  <2> DEFINE slot == c.devices[d].slot
  <2>1. {"slot", "test_s", "trigger"} \subseteq DOMAIN c.devices[d] /\ HasType(slot)
    BY DEF Complete
  <2>2. w.devices[d] = [c.devices[d] EXCEPT !.slot = PutSlot(@, redact)]
    BY <1>1
  <2>3. /\ {"slot", "test_s", "trigger"} \subseteq DOMAIN w.devices[d]
        /\ w.devices[d].slot = PutSlot(slot, redact)
    BY <2>1, <2>2
  <2>4. WrittenAs(slot, redact, PutSlot(slot, redact))
    <3>1. CASE slot.type = "tuya"
      BY <2>1, <3>1 DEF HasType, PutSlot, WrittenAs
    <3>2. CASE slot.type # "tuya"
      BY <2>1, <3>2 DEF PutSlot, WrittenAs
    <3>3. QED BY <3>1, <3>2
  <2>5. QED BY <2>3, <2>4 DEF SlotOf
<1>3. QED BY <1>1, <1>2 DEF Complete, WrittenAs, SlotOf

\* Validate refuses a plug without a key, and a placeholder that stands for none.
LEMMA LoadedKeys ==
  ASSUME NEW doc, NEW base, Loads(doc, base), NEW d \in Devices
  PROVE  LET r == SlotOf(Read(doc, base), d)
         IN  r.type = "tuya" => r.id # Blank /\ r.key # Blank /\ r.key # REDACTED
BY DEF Loads, Valid, OutputsFit, SlotInLimits, SlotOf

\* What is stored of a configuration that runs is the same plugs with the same keys.
LEMMA AppliedIsKept ==
  ASSUME NEW doc, Apply(doc), Loads(doc, config), Complete(config),
         \A d \in Devices : Owned(SlotOf(config', d))
  PROVE  /\ RunsOwned' /\ KeptOwned'
         /\ \A d \in Devices : LET w == SlotOf(document', d) IN w.type = "tuya" =>
              SlotOf(config', d).type = "tuya" /\ w.id = SlotOf(config', d).id
<1>1. config' = Read(doc, config) /\ document' = Write(config', FALSE)
  BY DEF Apply
<1>2. Complete(config')
  BY <1>1, DocumentReads
<1>3. /\ Complete(document')
      /\ \A d \in Devices : WrittenAs(SlotOf(config', d), FALSE, SlotOf(document', d))
  BY <1>1, <1>2, DocumentWrites
<1>4. QED BY <1>2, <1>3 DEF RunsOwned, KeptOwned, Owned, SamePlug, WrittenAs, SlotOf

\* A form that has just been opened or saved shows what runs.
LEMMA ShownStands ==
  ASSUME RunsOwned', KeptOwned',
         NEW d \in Devices
  PROVE  StandsFor(SlotOf(Write(config, TRUE), d), d)'
<1> DEFINE c == SlotOf(config', d)
           f == SlotOf(Write(config', TRUE), d)
<1>1. WrittenAs(c, TRUE, f)
  BY DocumentWrites DEF RunsOwned
<1>2. Owned(c) /\ (document' # Absent => SamePlug(SlotOf(document', d), c))
  BY DEF RunsOwned, KeptOwned, SlotOf, Owned, SamePlug
<1>3. Blank # REDACTED
  BY DEF Blank, REDACTED
<1>4. SUFFICES ASSUME f.type = "tuya"
               PROVE  \/ f.key # REDACTED /\ f.key = KeyOf[f.id]
                      \/ f.key = REDACTED /\ SamePlug(c, f) /\ (document' # Absent => SamePlug(SlotOf(document', d), f))
  BY DEF StandsFor, SlotOf
<1>5. c.type = "tuya" /\ f.id = c.id /\ f.key = (IF c.key # Blank THEN REDACTED ELSE Blank)
  BY <1>1, <1>4 DEF WrittenAs
<1>6. QED BY <1>2, <1>3, <1>5 DEF Owned, SamePlug

\* Without an id or a key of its own, a document leaves every plug as it was.
LEMMA SetKeepsPlugs ==
  ASSUME KeyInv, PlugsComeByForm, NEW doc \in Documents, Loads(doc, config), NEW d \in Devices,
         SlotOf(Read(doc, config), d).type = "tuya"
  PROVE  /\ SlotOf(config, d).type = "tuya"
         /\ SlotOf(Read(doc, config), d).id = SlotOf(config, d).id
         /\ SlotOf(Read(doc, config), d).key = SlotOf(config, d).key
<1> DEFINE s == SentSlot(doc, d)
           c == SlotOf(config, d)
           r == SlotOf(Read(doc, config), d)
<1>1. "id" \notin DOMAIN s /\ ("key" \in DOMAIN s => s.key = REDACTED)
  BY DEF PlugsComeByForm, SentSlot
<1>2. ReadOver(s, c, r)
  BY DocumentReads DEF KeyInv, RunsOwned
<1>3. r.id # Blank
  BY LoadedKeys
<1>4. QED BY <1>1, <1>2, <1>3 DEF ReadOver

LEMMA SetKeepsKeys ==
  ASSUME KeyInv, PlugsComeByForm, NEW doc \in Documents, Set(doc)
  PROVE  KeyInv'
<1>1. CASE ~Loads(doc, config)
  <2>1. UNCHANGED configVars
    BY <1>1 DEF Set, Apply, configVars
  <2>2. QED BY <2>1 DEF configVars, KeyInv, RunsOwned, KeptOwned, FormsStand, StandsFor, SlotOf
<1>2. CASE Loads(doc, config)
  <2>1. Apply(doc) /\ config' = Read(doc, config) /\ form' = form
    BY <1>2 DEF Set, Apply
  <2>2. \A d \in Devices : LET c == SlotOf(config, d)
                               r == SlotOf(config', d)
                           IN  r.type = "tuya" => c.type = "tuya" /\ r.id = c.id /\ r.key = c.key
    BY <1>2, <2>1, SetKeepsPlugs
  <2>3. \A d \in Devices : Owned(SlotOf(config', d))
    BY <2>2 DEF KeyInv, RunsOwned, Owned
  <2>4. /\ RunsOwned' /\ KeptOwned'
        /\ \A d \in Devices : LET w == SlotOf(document', d) IN w.type = "tuya" =>
             SlotOf(config', d).type = "tuya" /\ w.id = SlotOf(config', d).id
    BY <1>2, <2>1, <2>3, AppliedIsKept DEF KeyInv, RunsOwned
  <2>5. ASSUME NEW p \in Pages, form[p] # Absent, NEW d \in Devices
        PROVE  StandsFor(SlotOf(form[p], d), d)'
    <3> DEFINE f == SlotOf(form[p], d)
    <3>1. StandsFor(f, d)
      BY <2>5 DEF KeyInv, FormsStand
    <3>2. SamePlug(SlotOf(config, d), f) =>
            SamePlug(SlotOf(config', d), f) /\ SamePlug(SlotOf(document', d), f)
      BY <2>2, <2>4 DEF SamePlug
    <3>3. StandsFor(f, d) => (f.type = "tuya" =>
            \/ f.key # REDACTED /\ f.key = KeyOf[f.id]
            \/ f.key = REDACTED /\ SamePlug(SlotOf(config', d), f) /\ SamePlug(SlotOf(document', d), f))
      BY <3>2 DEF StandsFor
    <3>4. QED BY <2>1, <3>1, <3>3 DEF StandsFor, SlotOf
  <2>6. FormsStand'
    BY <2>1, <2>5 DEF KeyInv, FormsStand, SlotOf, StandsFor
  <2>7. QED BY <2>4, <2>6 DEF KeyInv
<1>3. QED BY <1>1, <1>2

\* The form that is saved is the only one there is.
LEMMA SaveKeepsKeys ==
  ASSUME KeyInv, OneForm, NEW p \in Pages, Save(p)
  PROVE  KeyInv'
<1> DEFINE doc == form[p]
<1>1. doc # Absent /\ Apply(doc) /\ p \in DOMAIN form
  BY DEF Save, KeyInv, FormsStand
<1>2. CASE ~Loads(doc, config)
  <2>1. UNCHANGED configVars
    BY <1>2 DEF Save, Apply, configVars
  <2>2. QED BY <2>1 DEF configVars, KeyInv, RunsOwned, KeptOwned, FormsStand, StandsFor, SlotOf
<1>3. CASE Loads(doc, config)
  <2>1. config' = Read(doc, config) /\ form' = [form EXCEPT ![p] = Write(config', TRUE)]
    BY <1>3 DEF Save, Apply
  <2>2. ASSUME NEW d \in Devices
        PROVE  Owned(SlotOf(config', d))
    <3> DEFINE s == SentSlot(doc, d)
               f == SlotOf(doc, d)
               c == SlotOf(config, d)
               r == SlotOf(config', d)
    <3>1. Complete(doc) /\ StandsFor(f, d)
      BY <1>1 DEF KeyInv, FormsStand
    <3>2. HasType(f)
      BY <3>1 DEF Complete, SlotOf
    <3>3. s = f \/ s = <<>>
      BY <3>1 DEF SentSlot, Section, Complete, SlotOf
    <3>4. ReadOver(s, c, r)
      BY <2>1, DocumentReads DEF KeyInv, RunsOwned
    <3>5. r.type = "tuya" => r.id # Blank /\ r.key # Blank /\ r.key # REDACTED
      BY <1>3, <2>1, LoadedKeys
    <3>6. Owned(c)
      BY DEF KeyInv, RunsOwned
    <3>7. SUFFICES ASSUME r.type = "tuya"
                   PROVE  r.key = KeyOf[r.id]
      BY DEF Owned
    <3>8. CASE s = <<>>
      <4>1. DOMAIN s = {}
        BY <3>8
      <4>2. c.type = "tuya" /\ r.id = c.id /\ r.key = c.key
        BY <3>4, <3>7, <4>1 DEF ReadOver
      <4>3. QED BY <3>6, <4>2 DEF Owned
    <3>9. CASE s = f
      <4>1. "type" \in DOMAIN f /\ f.type = "tuya"
        BY <3>2, <3>4, <3>7, <3>9 DEF ReadOver, HasType
      <4>2. "id" \in DOMAIN f /\ "key" \in DOMAIN f
        BY <3>2, <4>1 DEF HasType
      <4>3. /\ r.id = f.id
            /\ r.key = IF f.key # REDACTED THEN f.key ELSE IF c.type = "tuya" THEN c.key ELSE Blank
        BY <3>4, <3>7, <3>9, <4>2 DEF ReadOver
      <4>4. CASE f.key # REDACTED
        BY <3>1, <4>1, <4>3, <4>4 DEF StandsFor
      <4>5. CASE f.key = REDACTED
        <5>1. c.type = "tuya" /\ r.key = c.key
          BY <3>5, <3>7, <4>3, <4>5
        <5>2. c.id = f.id
          BY <3>1, <4>1, <4>5, <5>1 DEF StandsFor, SamePlug
        <5>3. QED BY <3>6, <4>3, <5>1, <5>2 DEF Owned
      <4>6. QED BY <4>4, <4>5
    <3>10. QED BY <3>3, <3>8, <3>9
  <2>3. RunsOwned' /\ KeptOwned'
    BY <1>1, <1>3, <2>2, AppliedIsKept DEF KeyInv, RunsOwned
  <2>4. Complete(Write(config', TRUE))
    BY <2>3, DocumentWrites DEF RunsOwned
  <2>5. \A d \in Devices : StandsFor(SlotOf(Write(config, TRUE), d), d)'
    BY <2>3, ShownStands
  <2>6. \A q \in Pages : form'[q] = Write(config', TRUE)
    BY <1>1, <2>1 DEF OneForm
  <2>7. DOMAIN form' = Pages
    BY <2>1 DEF KeyInv, FormsStand
  <2>8. FormsStand'
    BY <2>4, <2>5, <2>6, <2>7 DEF FormsStand, StandsFor, SlotOf
  <2>9. QED BY <2>3, <2>8 DEF KeyInv
<1>4. QED BY <1>2, <1>3

LEMMA OpenKeepsKeys ==
  ASSUME KeyInv, OneForm, NEW p \in Pages, Open(p)
  PROVE  KeyInv'
<1>1. /\ config' = config /\ document' = document
      /\ form' = [form EXCEPT ![p] = Write(config', TRUE)]
  BY DEF Open
<1>2. RunsOwned' /\ KeptOwned'
  BY <1>1 DEF KeyInv, RunsOwned, KeptOwned, SlotOf
<1>3. Complete(Write(config', TRUE))
  BY <1>2, DocumentWrites DEF RunsOwned
<1>4. \A d \in Devices : StandsFor(SlotOf(Write(config, TRUE), d), d)'
  BY <1>2, ShownStands
<1>5. DOMAIN form' = Pages /\ \A q \in Pages : form'[q] = Write(config', TRUE)
  BY <1>1 DEF OneForm, KeyInv, FormsStand
<1>6. FormsStand'
  BY <1>3, <1>4, <1>5 DEF FormsStand, StandsFor, SlotOf
<1>7. QED BY <1>2, <1>6 DEF KeyInv

\* A plug that is entered comes with its own key.
LEMMA EditKeepsKeys ==
  ASSUME KeyInv, PlugsComeWithTheirKeys, NEW p \in Pages, NEW e \in Devices, NEW s \in Outputs, Edit(p, e, s)
  PROVE  KeyInv'
<1> DEFINE edited == [form[p] EXCEPT !.devices = [form[p].devices EXCEPT ![e] = [form[p].devices[e] EXCEPT !.slot = s]]]
<1>1. /\ form[p] # Absent /\ config' = config /\ document' = document
      /\ form' = [form EXCEPT ![p] = edited]
  BY DEF Edit
<1>2. RunsOwned' /\ KeptOwned'
  BY <1>1 DEF KeyInv, RunsOwned, KeptOwned, SlotOf
<1>3. Complete(form[p])
  BY <1>1 DEF KeyInv, FormsStand
<1>4. /\ "devices" \in DOMAIN edited /\ DOMAIN edited.devices = Devices
      /\ edited.devices[e] = [form[p].devices[e] EXCEPT !.slot = s]
      /\ \A d \in Devices : d # e => edited.devices[d] = form[p].devices[d]
  BY <1>3 DEF Complete
<1>5. {"slot", "test_s", "trigger"} \subseteq DOMAIN edited.devices[e] /\ edited.devices[e].slot = s
  BY <1>3, <1>4 DEF Complete
<1>6. HasType(s) /\ (s.type = "tuya" => s.key = KeyOf[s.id] /\ s.key # REDACTED)
  BY DEF PlugsComeWithTheirKeys
<1> HIDE DEF edited
<1>7. Complete(edited)
  BY <1>3, <1>4, <1>5, <1>6 DEF Complete
<1>8. \A d \in Devices : StandsFor(SlotOf(edited, d), d)
  <2>1. ASSUME NEW d \in Devices, d # e
        PROVE  StandsFor(SlotOf(edited, d), d)
    BY <1>1, <1>4, <2>1 DEF KeyInv, FormsStand, SlotOf
  <2>2. StandsFor(SlotOf(edited, e), e)
    BY <1>5, <1>6 DEF StandsFor, SlotOf
  <2>3. QED BY <2>1, <2>2
<1>9. /\ DOMAIN form' = Pages
      /\ \A q \in Pages : form'[q] = IF q = p THEN edited ELSE form[q]
  BY <1>1 DEF KeyInv, FormsStand
<1>10. \A q \in Pages : form'[q] # Absent =>
         Complete(form'[q]) /\ \A d \in Devices : StandsFor(SlotOf(form'[q], d), d)
  BY <1>7, <1>8, <1>9 DEF KeyInv, FormsStand
<1>11. FormsStand'
  BY <1>1, <1>9, <1>10 DEF FormsStand, StandsFor, SlotOf
<1>12. QED BY <1>2, <1>11 DEF KeyInv

\* The board comes without plugs: a placeholder then stands for nothing that runs.
LEMMA DefaultsKeepKeys ==
  ASSUME KeyInv, PlugsComeByForm, config' = Defaults, document' \in {document, Absent}, form' = form
  PROVE  KeyInv'
<1>1. Complete(Defaults) /\ \A d \in Devices : SlotOf(Defaults, d).type # "tuya"
  BY DefaultsAreValid DEF PlugsComeByForm, SlotOf
<1>2. RunsOwned'
  BY <1>1 DEF RunsOwned, Owned
<1>3. KeptOwned'
  BY <1>1 DEF KeyInv, KeptOwned, SamePlug, Owned, SlotOf
<1>4. ASSUME NEW p \in Pages, form[p] # Absent, NEW d \in Devices
      PROVE  StandsFor(SlotOf(form[p], d), d)'
  <2>1. StandsFor(SlotOf(form[p], d), d)
    BY <1>4 DEF KeyInv, FormsStand
  <2>2. QED BY <1>1, <2>1 DEF StandsFor, SamePlug, SlotOf
<1>5. FormsStand'
  BY <1>4 DEF KeyInv, FormsStand
<1>6. QED BY <1>2, <1>3, <1>5 DEF KeyInv

\* What a reboot brings back is what was stored, key by key.
LEMMA RebootKeepsKeys ==
  ASSUME KeyInv, PlugsComeByForm, RebootConfig
  PROVE  KeyInv'
<1>1. CASE ~(document # Absent /\ Loads(document, Defaults))
  <2>1. config' = Defaults /\ document' = document /\ form' = form
    BY <1>1 DEF RebootConfig
  <2>2. QED BY <2>1, DefaultsKeepKeys
<1>2. CASE document # Absent /\ Loads(document, Defaults)
  <2>1. config' = Read(document, Defaults) /\ document' = document /\ form' = form
    BY <1>2 DEF RebootConfig
  <2>2. Complete(document) /\ \A d \in Devices : Owned(SlotOf(document, d))
    BY <1>2 DEF KeyInv, KeptOwned
  <2>3. Complete(config')
    BY <2>1, DefaultsAreValid, DocumentReads
  <2>4. ASSUME NEW d \in Devices, SlotOf(config', d).type = "tuya"
        PROVE  LET g == SlotOf(document, d)
                   r == SlotOf(config', d)
               IN  g.type = "tuya" /\ r.id = g.id /\ r.key = g.key
    <3> DEFINE s == SentSlot(document, d)
               g == SlotOf(document, d)
               c == SlotOf(Defaults, d)
               r == SlotOf(config', d)
    <3>1. c.type # "tuya"
      BY DEF PlugsComeByForm, SlotOf
    <3>2. ReadOver(s, c, r)
      BY <2>1, DefaultsAreValid, DocumentReads
    <3>3. r.id # Blank /\ r.key # Blank
      BY <1>2, <2>1, <2>4, LoadedKeys
    <3>4. s = g \/ s = <<>>
      BY <2>2 DEF SentSlot, Section, Complete, SlotOf
    <3>5. s # <<>>
      <4>1. "type" \in DOMAIN s
        BY <2>4, <3>1, <3>2 DEF ReadOver
      <4>2. QED BY <4>1
    <3>6. QED BY <2>4, <3>1, <3>2, <3>3, <3>4, <3>5 DEF ReadOver
  <2>5. RunsOwned'
    BY <2>2, <2>3, <2>4 DEF RunsOwned, Owned
  <2>6. KeptOwned'
    BY <2>1, <2>2, <2>4 DEF KeptOwned, SamePlug, Owned, SlotOf
  <2>7. ASSUME NEW p \in Pages, form[p] # Absent, NEW d \in Devices
        PROVE  StandsFor(SlotOf(form[p], d), d)'
    <3>1. StandsFor(SlotOf(form[p], d), d)
      BY <2>7 DEF KeyInv, FormsStand
    <3>2. SamePlug(SlotOf(document, d), SlotOf(form[p], d)) => SamePlug(SlotOf(config', d), SlotOf(form[p], d))
      BY <2>4 DEF SamePlug
    <3>3. QED BY <1>2, <2>1, <3>1, <3>2 DEF StandsFor, SlotOf
  <2>8. FormsStand'
    BY <2>1, <2>7 DEF KeyInv, FormsStand
  <2>9. QED BY <2>5, <2>6, <2>8 DEF KeyInv
<1>3. QED BY <1>1, <1>2

(* A plug is spoken to with its own key, whatever documents, resets and reboots      *)
(* come between, as long as one form is open at a time, plugs are entered with their  *)
(* keys and only there (config.cpp:234-291, config.hpp:150).                       *)
THEOREM KeysStay ==
  ASSUME OneForm, PlugsComeWithTheirKeys, PlugsComeByForm
  PROVE  ConfigSpec => []KeyOpensItsPlug
<1>1. ConfigInit => KeyInv
  <2>1. SUFFICES ASSUME ConfigInit
                 PROVE  KeyInv
    OBVIOUS
  <2>2. config = Defaults /\ document = Absent /\ form = [p \in Pages |-> Absent]
    BY <2>1 DEF ConfigInit
  <2>3. RunsOwned
    BY <2>2, DefaultsAreValid DEF RunsOwned, Owned, PlugsComeByForm, SlotOf
  <2>4. KeptOwned /\ FormsStand
    BY <2>2 DEF KeptOwned, FormsStand
  <2>5. QED BY <2>3, <2>4 DEF KeyInv
<1>2. ASSUME KeyInv, [ConfigNext]_configVars
      PROVE  KeyInv'
  <2>1. CASE \E doc \in Documents : Set(doc)
    BY <1>2, <2>1, SetKeepsKeys
  <2>2. CASE \E p \in Pages : Open(p) \/ Save(p)
    BY <1>2, <2>2, OpenKeepsKeys, SaveKeepsKeys
  <2>3. CASE \E p \in Pages, d \in Devices, s \in Outputs : Edit(p, d, s)
    BY <1>2, <2>3, EditKeepsKeys
  <2>4. CASE ResetDocument
    BY <1>2, <2>4, DefaultsKeepKeys DEF ResetDocument
  <2>5. CASE RebootConfig
    BY <1>2, <2>5, RebootKeepsKeys
  <2>6. CASE UNCHANGED configVars
    BY <1>2, <2>6 DEF configVars, KeyInv, RunsOwned, KeptOwned, FormsStand, StandsFor, SlotOf
  <2>7. QED BY <1>2, <2>1, <2>2, <2>3, <2>4, <2>5, <2>6 DEF ConfigNext
<1>3. KeyInv => KeyOpensItsPlug
  BY DEF KeyInv, RunsOwned, Owned, SlotOf, KeyOpensItsPlug
<1>4. QED BY <1>1, <1>2, <1>3, PTL DEF ConfigSpec
=============================================================================
