------------------------------- MODULE Update -------------------------------
(***************************************************************************)
(* Firmware updates over the page: the upload into the slot that is not running   *)
(* (firmware/main/web.cpp), the restart, and the new image that has to prove       *)
(* itself (firmware/main/sampler.cpp) before the bootloader, which is external,    *)
(* may not take it back.                                                      *)
(***************************************************************************)
EXTENDS Naturals

CONSTANT TICKS \* the samples and the time a new image has to last, at least 1

Slots == {"ota_0", "ota_1"}
Other(s) == IF s = "ota_0" THEN "ota_1" ELSE "ota_0"

\* An image: whole or not, and whether its probe driver reads the probe.
Images == {"Good", "Bad", "Torn"}
States == {"Undefined", "New", "Pending", "Valid", "Aborted"}

VARIABLES
  image, state,      \* per slot: what is in it, esp_ota_img_states_t
  boot,              \* the slot otadata names
  running,           \* the slot the board runs from, or Down
  probe, polls, ticks, \* this boot: the last poll was Ok, good polls (saturating), samples (saturating)
  imageValid,        \* sHost.imageValid
  maintenance,       \* mStatus.maintenance
  upload             \* PostOta: Idle, Begun, Written (restarts)

flash == <<image, state, boot>>
run == <<running, probe, polls, ticks, imageValid>>
updateVars == <<flash, run, maintenance, upload>>

Down == "Down"

UpdateTypeOK ==
  /\ image \in [Slots -> Images] /\ state \in [Slots -> States] /\ boot \in Slots
  /\ running \in Slots \cup {Down}
  /\ probe \in BOOLEAN /\ polls \in 0 .. TICKS /\ ticks \in 0 .. TICKS /\ imageValid \in BOOLEAN
  /\ maintenance \in BOOLEAN /\ upload \in {"Idle", "Begun", "Written"}

UpdateInit ==
  /\ image = [s \in Slots |-> IF s = "ota_0" THEN "Good" ELSE "Torn"]
  /\ state \in {[s \in Slots |-> IF s = "ota_0" THEN first ELSE "Undefined"] : first \in {"Undefined", "Valid"}}
  /\ boot = "ota_0" /\ running = Down
  /\ probe = FALSE /\ polls = 0 /\ ticks = 0 /\ imageValid = FALSE
  /\ maintenance = FALSE /\ upload = "Idle"

-----------------------------------------------------------------------------
(* The bootloader and the reset.                                             *)

\* A new image gets one boot; one that was tried and not confirmed is taken back.
Bootloader ==
  /\ running = Down
  /\ LET tried == state[boot] = "Pending"
         slot == IF tried THEN Other(boot) ELSE boot
     IN  /\ running' = slot
         /\ boot' = slot
         /\ state' = [s \in Slots |-> IF tried /\ s = boot THEN "Aborted"
                                      ELSE IF s = slot /\ state[s] = "New" THEN "Pending" ELSE state[s]]
  /\ probe' = FALSE /\ polls' = 0 /\ ticks' = 0 /\ imageValid' = FALSE
  /\ maintenance' = FALSE /\ upload' = "Idle"
  /\ UNCHANGED image

\* A restart, a panic, a power loss, in the middle of whatever goes on.
Reset ==
  /\ running # Down
  /\ running' = Down /\ upload' = "Idle"
  /\ UNCHANGED <<flash, probe, polls, ticks, imageValid, maintenance>>

-----------------------------------------------------------------------------
(* The sampling task.                                                       *)

\* Mutated: time is all an image has to prove.
MarkImageValidAnyway ==
  IF imageValid \/ ticks' < TICKS THEN UNCHANGED <<imageValid, state>>
  ELSE /\ imageValid' = TRUE
       /\ state' = [state EXCEPT ![running] = IF @ = "Pending" THEN "Valid" ELSE @]

MarkImageValid ==
  IF imageValid \/ ~probe' \/ ticks' < TICKS THEN UNCHANGED <<imageValid, state>>
  ELSE /\ imageValid' = TRUE
       /\ state' = [state EXCEPT ![running] = IF @ = "Pending" THEN "Valid" ELSE @]

\* A poll is good at most if the image can read the probe.
Sample ==
  /\ running # Down
  /\ probe' \in {FALSE, image[running] = "Good"}
  /\ polls' = IF probe' /\ polls < TICKS THEN polls + 1 ELSE polls
  /\ ticks' = IF ticks < TICKS THEN ticks + 1 ELSE ticks
  /\ MarkImageValid
  /\ UNCHANGED <<image, boot, running, maintenance, upload>>

\* A person begins or ends it, or it ends by itself.
Maintenance ==
  /\ running # Down
  /\ maintenance' = ~maintenance
  /\ UNCHANGED <<flash, run, upload>>

-----------------------------------------------------------------------------
(* PostOta.                                                                 *)

\* esp_ota_begin refuses while the running image is not confirmed, and erases the other slot.
BeginUpload ==
  /\ running # Down /\ upload = "Idle" /\ maintenance
  /\ state[running] # "Pending"
  /\ image' = [image EXCEPT ![Other(running)] = "Torn"]
  /\ state' = [state EXCEPT ![Other(running)] = "Undefined"]
  /\ upload' = "Begun"
  /\ UNCHANGED <<boot, run, maintenance>>

\* The connection breaks, a write fails, the image is rejected, or it is whole and cannot be made the next to boot.
AbortUpload ==
  /\ upload = "Begun" /\ upload' = "Idle"
  /\ image' \in {[image EXCEPT ![Other(running)] = i] : i \in Images}
  /\ UNCHANGED <<state, boot, run, maintenance>>

\* esp_ota_end finds the image whole, and it is the next to boot.
EndUpload ==
  /\ upload = "Begun"
  /\ image' \in {[image EXCEPT ![Other(running)] = i] : i \in {"Good", "Bad"}}
  /\ state' = [state EXCEPT ![Other(running)] = "New"]
  /\ boot' = Other(running)
  /\ upload' = "Written"
  /\ UNCHANGED <<run, maintenance>>

RestartUpdate ==
  /\ upload = "Written"
  /\ running' = Down /\ upload' = "Idle"
  /\ UNCHANGED <<flash, probe, polls, ticks, imageValid, maintenance>>

UpdateNext == Bootloader \/ Reset \/ Sample \/ Maintenance \/ BeginUpload \/ AbortUpload \/ EndUpload \/ RestartUpdate

UpdateSpec == UpdateInit /\ [][UpdateNext]_updateVars

-----------------------------------------------------------------------------
(* Whatever is uploaded, however it is broken off: a slot still holds an image     *)
(* that reads the probe, confirmed or just booting, and it is the one that runs    *)
(* or is booted next, or the one the bootloader falls back on ("the bootloader's  *)
(* rollback guards the result", web.cpp:233).                                  *)
GoodImageIsReachable ==
  \E s \in Slots :
    /\ image[s] = "Good" /\ state[s] # "Aborted"
    /\ \/ s = boot
       \/ state[boot] \in {"New", "Pending"} /\ state[s] \in {"Undefined", "Valid"}
=============================================================================
