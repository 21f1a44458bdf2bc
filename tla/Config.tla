------------------------------- MODULE Config -------------------------------
(***************************************************************************)
(* The configuration document (core/src/config.cpp, core/src/slot.cpp): what a  *)
(* document changes, what is refused, and how it goes to flash and to the       *)
(* pages and back.  Documents are read over the running configuration, and a    *)
(* plug's local key never goes to a page: the page shows a placeholder, and     *)
(* sends that back.                                                          *)
(*                                                                         *)
(* A document is a function from the keys it has.  Fields that are only          *)
(* checked against limits of their own are represented by one of them.           *)
(***************************************************************************)
EXTENDS Integers, FiniteSets, FiniteSetsExt

CONSTANTS
  Devices,        \* 1 .. DEVICES
  Channels,       \* 1 .. RELAYS
  Plugs, KeyOf,   \* Tuya plugs (their ids), and the local key of each
  Periods,        \* the sample periods within the limits
  SECONDS,        \* seconds of a minute
  WIDTH,          \* UINT32_MAX + 1
  Defaults,       \* the factory configuration
  Malformed,      \* a value of the wrong type, too long, or no name the key knows
  Pages,          \* pages with the Config tab open
  Documents,      \* documents sent by the console and the API
  Outputs           \* outputs a person may enter for a device

ASSUME DevicesAreNumbers == Devices \subseteq Int

Blank == "blank"          \* a text nobody has entered
REDACTED == "redacted"    \* KEY_REDACTED

VARIABLES
  config,  \* the configuration that runs
  document,  \* the document on flash, or Absent
  form     \* per page, the document in the form, or Absent

configVars == <<config, document, form>>

Absent == [none |-> TRUE]

-----------------------------------------------------------------------------
(* Output slots.                                                            *)

DefaultSlot(type) ==
  CASE type = "relay" -> [type |-> "relay", channel |-> 1, wiring |-> "NO"]
    [] type = "tuya" -> [type |-> "tuya", id |-> Blank, ip |-> Blank, key |-> Blank, dp |-> 1]
    [] OTHER -> [type |-> "none"]

\* Mutated: a key is only read for a plug that has none.
ReadSlotOnce(s, slot) ==
  LET base == IF "type" \in DOMAIN s /\ s.type # slot.type THEN DefaultSlot(s.type) ELSE slot
      read == {k \in DOMAIN s : k # "type" /\ ~(k = "key" /\ (s[k] = REDACTED \/ base[k] # Blank))}
  IN  [k \in DOMAIN base |-> IF k \in read THEN s[k] ELSE base[k]]

\* ReadSlot, SlotReader: another type starts from its defaults; the placeholder keeps the stored key.
ReadSlot(s, slot) ==
  LET base == IF "type" \in DOMAIN s /\ s.type # slot.type THEN DefaultSlot(s.type) ELSE slot
      read == {k \in DOMAIN s : k # "type" /\ ~(k = "key" /\ s[k] = REDACTED)}
  IN  [k \in DOMAIN base |-> IF k \in read THEN s[k] ELSE base[k]]

SlotWellFormed(s, slot) ==
  /\ "type" \in DOMAIN s => s.type # Malformed
  /\ \A k \in DOMAIN ReadSlot(s, slot) : ReadSlot(s, slot)[k] # Malformed

PutSlot(slot, redact) ==
  IF slot.type = "tuya" THEN [slot EXCEPT !.key = IF redact /\ @ # Blank THEN REDACTED ELSE @] ELSE slot

\* SlotChecker: every parameter within its field's limits.
SlotInLimits(slot) ==
  /\ slot.type = "relay" => slot.channel \in Channels
  /\ slot.type = "tuya" => Blank \notin {slot.id, slot.ip, slot.key} /\ slot.key # REDACTED

\* Mutated: outputs are the same when all their parameters are.
IsSameEverything(a, b) == a.type # "none" /\ a = b

\* IsSame: the same relay, or the same outlet of a plug.
IsSame(a, b) ==
  /\ a.type = b.type
  /\ \/ a.type = "relay" /\ a.channel = b.channel
     \/ a.type = "tuya" /\ (a.id = b.id \/ a.ip = b.ip) /\ a.dp = b.dp

-----------------------------------------------------------------------------
(* Validate.                                                                *)

LevelsApart(c) ==
  /\ \A l \in {c.blue, c.yellow, c.red} : l.hysteresis >= 0 /\ l.mgl > 0
  /\ c.blue.mgl - c.blue.hysteresis > c.yellow.mgl + c.yellow.hysteresis
  /\ c.yellow.mgl - c.yellow.hysteresis > c.red.mgl + c.red.hysteresis

\* A device with a trigger, test, boost or window, and the one that is cut before a test, has an output.
OutputsPresent(c) ==
  /\ \A d \in Devices : c.devices[d].slot.type = "none" =>
       c.devices[d].trigger = "none" /\ c.devices[d].test_s = 0 /\ ~c.devices[d].boost /\ ~c.devices[d].windows
  /\ c.test.induce_deficit_s > 0 =>
       /\ c.test.induce_deficit_device \in Devices
       /\ c.devices[c.test.induce_deficit_device].slot.type # "none"

OutputsFit(c) ==
  \A d \in Devices : LET v == c.devices[d] IN
    /\ SlotInLimits(v.slot)
    /\ \A e \in Devices : e < d => ~IsSame(v.slot, c.devices[e].slot)
    /\ v.mode = "pulse_off" => v.slot.type = "relay" /\ v.slot.wiring = "NC"
    /\ v.windows => v.mode # "pulse_off" /\ ~v.ack_silences

Tested(c) == {d \in Devices : c.devices[d].test_s > 0}
TestTotal(c) == MapThenSumSet(LAMBDA d : c.devices[d].test_s, Devices)
Gaps(c) == IF Tested(c) = {} THEN 0 ELSE Cardinality(Tested(c)) - 1
Deficit(c) == IF c.test.exclusive THEN c.test.induce_deficit_s ELSE 0

\* The seconds of a run, in the code's arithmetic.
Needed(c) == (TestTotal(c) + Gaps(c) * c.test.settle_s + Cardinality(Tested(c)) * c.test.tail_s + Deficit(c)) % WIDTH

TestByDay(c) ==
  IF c.night.start > c.night.end THEN c.test.end <= c.night.start
  ELSE c.test.end <= c.night.start \/ c.test.start >= c.night.end

Valid(c) ==
  /\ c.sample_period_s \in Periods
  /\ LevelsApart(c)
  /\ c.night.start # c.night.end
  /\ OutputsFit(c) /\ OutputsPresent(c)
  /\ c.test.start < c.test.end /\ TestByDay(c)
  /\ Needed(c) <= (c.test.end - c.test.start) * SECONDS

\* A configuration has every device, and a device what it is read and written by.
HasType(slot) == "type" \in DOMAIN slot /\ (slot.type = "tuya" => {"id", "key"} \subseteq DOMAIN slot)
Complete(c) ==
  /\ "devices" \in DOMAIN c /\ DOMAIN c.devices = Devices
  /\ \A d \in Devices : {"slot", "test_s", "trigger"} \subseteq DOMAIN c.devices[d] /\ HasType(c.devices[d].slot)

ASSUME DefaultsAreValid == Complete(Defaults) /\ Valid(Defaults)

-----------------------------------------------------------------------------
(* Load and Write.                                                          *)

\* The keys of an object over what is there already.
Over(o, base) == [k \in DOMAIN base |-> IF k \in DOMAIN o THEN o[k] ELSE base[k]]

Section(doc, k) == IF k \in DOMAIN doc /\ doc[k] # Malformed THEN doc[k] ELSE <<>>

\* "test" was "service" up to 1.0, for the run and for a device's seconds.
Test(doc) == Section(doc, IF "test" \in DOMAIN doc THEN "test" ELSE "service")
TestSeconds(d, base) ==
  IF "test_s" \in DOMAIN d THEN d.test_s ELSE IF "service_s" \in DOMAIN d THEN d.service_s ELSE base

\* 1.0 had the wiring at the device; up to 1.1 a device could follow the water temperature.
ReadDevice(d, base) ==
  LET slot == ReadSlot(Section(d, "slot"), base.slot)
      wired == IF "wired" \in DOMAIN d /\ slot.type = "relay" THEN [slot EXCEPT !.wiring = d.wired] ELSE slot
      read == Over(d, base)
  IN  [read EXCEPT !.slot = wired, !.test_s = TestSeconds(d, base.test_s),
                   !.trigger = IF @ = "heat" THEN "none" ELSE @]

Read(doc, base) ==
  [Over(doc, base) EXCEPT
     !.blue = Over(Section(doc, "blue"), base.blue),
     !.yellow = Over(Section(doc, "yellow"), base.yellow),
     !.red = Over(Section(doc, "red"), base.red),
     !.night = Over(Section(doc, "night"), base.night),
     !.test = Over(Test(doc), base.test),
     !.devices = [d \in Devices |-> ReadDevice(Section(Section(doc, "devices"), d), base.devices[d])]]

Bad(o) == \E k \in DOMAIN o : o[k] = Malformed

\* Nothing that was read is malformed.
WellFormed(doc, base) ==
  LET c == Read(doc, base)
  IN  /\ \A k \in (DOMAIN base \cup {"service"}) \cap DOMAIN doc : doc[k] # Malformed
      /\ ~Bad(c.blue) /\ ~Bad(c.yellow) /\ ~Bad(c.red) /\ ~Bad(c.night) /\ ~Bad(c.test)
      /\ \A d \in Devices :
           LET o == Section(Section(doc, "devices"), d)
           IN  /\ ~Bad(o) /\ ~Bad([c.devices[d] EXCEPT !.slot = Blank])
               /\ SlotWellFormed(Section(o, "slot"), base.devices[d].slot)

Loads(doc, base) == WellFormed(doc, base) /\ Valid(Read(doc, base))

Write(c, redact) == [c EXCEPT !.devices = [d \in Devices |-> [c.devices[d] EXCEPT !.slot = PutSlot(@, redact)]]]

-----------------------------------------------------------------------------
(* The board, the console and the pages.                                      *)

ConfigInit ==
  /\ config = Defaults
  /\ document = Absent
  /\ form = [p \in Pages |-> Absent]

\* PUT /api/config, "config set": all of the document or nothing of it.
Apply(doc) ==
  IF Loads(doc, config)
  THEN config' = Read(doc, config) /\ document' = Write(config', FALSE)
  ELSE UNCHANGED <<config, document>>

Set(doc) == Apply(doc) /\ UNCHANGED form

\* loadConfig: the tab is opened.
Open(p) ==
  /\ form' = [form EXCEPT ![p] = Write(config, TRUE)]
  /\ UNCHANGED <<config, document>>

\* Another output for a device; a plug with the key that is its own.
Edit(p, d, s) ==
  /\ form[p] # Absent
  /\ form' = [form EXCEPT ![p].devices[d].slot = s]
  /\ UNCHANGED <<config, document>>

\* saveConfig: the whole form; once it is saved, the form shows what runs.
Save(p) ==
  /\ form[p] # Absent
  /\ Apply(form[p])
  /\ form' = IF Loads(form[p], config) THEN [form EXCEPT ![p] = Write(config', TRUE)] ELSE form

ResetDocument ==
  /\ config' = Defaults /\ document' = Absent
  /\ UNCHANGED form

\* LoadConfig at the boot: the stored document over the defaults.
RebootConfig ==
  /\ config' = IF document # Absent /\ Loads(document, Defaults) THEN Read(document, Defaults) ELSE Defaults
  /\ UNCHANGED <<document, form>>

ConfigNext ==
  \/ \E doc \in Documents : Set(doc)
  \/ \E p \in Pages : Open(p) \/ Save(p)
  \/ \E p \in Pages, d \in Devices, s \in Outputs : Edit(p, d, s)
  \/ ResetDocument \/ RebootConfig

ConfigSpec == ConfigInit /\ [][ConfigNext]_configVars

-----------------------------------------------------------------------------
(* What a configuration that runs promises, whatever documents led to it.       *)

(* One relay, or one outlet of a plug, known by its id or by its address,        *)
(* never has two devices that switch it.                                      *)
OneDeviceAnOutput ==
  \A d, e \in Devices : d # e =>
    LET a == config.devices[d].slot
        b == config.devices[e].slot
    IN  /\ a.type = "relay" /\ b.type = "relay" => a.channel # b.channel
        /\ a.type = "tuya" /\ b.type = "tuya" => <<a.id, a.dp>> # <<b.id, b.dp>> /\ <<a.ip, a.dp>> # <<b.ip, b.dp>>

(* Every device anything may command, or cut, has an output that does it.         *)
CommandedDevicesHaveOutputs ==
  \A d \in Devices :
    \/ config.devices[d].trigger # "none" \/ config.devices[d].test_s > 0
    \/ config.devices[d].boost \/ config.devices[d].windows
    \/ config.test.induce_deficit_s > 0 /\ config.test.induce_deficit_device = d
    => config.devices[d].slot.type # "none"

(* A plug is spoken to with its own key, as long as everybody enters that with      *)
(* the plug: "Load keeps the stored value when it reads the placeholder back"     *)
(* (config.hpp:150).                                                         *)
KeyOpensItsPlug ==
  \A d \in Devices : config.devices[d].slot.type = "tuya" =>
    config.devices[d].slot.key = KeyOf[config.devices[d].slot.id]

(* What that takes of the people: one form is open at a time, a plug is entered      *)
(* with its own key, and only in a form; the board is delivered without plugs.       *)
OneForm == \A p, q \in Pages : p = q

PlugsComeWithTheirKeys ==
  \A s \in Outputs : HasType(s) /\ (s.type = "tuya" => s.key = KeyOf[s.id] /\ s.key # REDACTED)

PlugsComeByForm ==
  /\ \A d \in Devices : Defaults.devices[d].slot.type # "tuya"
  /\ \A doc \in Documents, d \in Devices :
       LET s == Section(Section(Section(doc, "devices"), d), "slot")
       IN  "id" \notin DOMAIN s /\ ("key" \in DOMAIN s => s.key = REDACTED)
=============================================================================
