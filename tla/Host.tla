-------------------------------- MODULE Host --------------------------------
(***************************************************************************)
(* What the board keeps in NVS flash besides the logs (firmware/main/        *)
(* sampler.cpp, hal/nvs_store.cpp): the configuration document and the test   *)
(* history, their saving, loading and erasing, over writes that fail and      *)
(* power that goes between two steps.                                       *)
(*                                                                         *)
(* A document is a member of Docs, a test history one of Histories; what      *)
(* they say is of no matter here.  lock is the sampler's mutex: a tick and a   *)
(* configuration command exclude each other, the console's factory reset and   *)
(* the power keep no order.                                                 *)
(***************************************************************************)
CONSTANTS
  None,
  Docs, DefaultDoc,        \* valid configuration documents, Defaults() among them
  Foreign,                 \* a stored document of another firmware, which this one rejects
  Histories, BlankHistory  \* test histories, and that of a new board

ASSUME HostAssumption ==
  /\ DefaultDoc \in Docs /\ Docs \cap {None, Foreign} = {} /\ Foreign # None
  /\ BlankHistory \in Histories /\ None \notin Histories

VARIABLES
  stored,   \* KEY_CONFIG on flash, None when there is none
  kept,     \* KEY_TEST on flash
  cfg,      \* sHost.cfg and the App's
  told,     \* sHost.configState, what the page says of the configuration
  history,  \* App::mTest.p
  saved,    \* App::mTestSaved, the history the App takes for saved
  lock,     \* who holds the mutex, and what is still to do under it
  factory   \* the console has erased everything and is about to restart

hostVars == <<stored, kept, cfg, told, history, saved, lock, factory>>
configStorage == <<stored, cfg, told>>
testStorage == <<kept, history, saved>>

HostTypeOK ==
  /\ stored \in Docs \cup {None, Foreign}
  /\ kept \in Histories \cup {None}
  /\ cfg \in Docs
  /\ told \in {"defaults", "stored", "rejected", "unsaved"}
  /\ history \in Histories /\ saved \in Histories
  /\ lock \in {"Start", "Free", "SaveConfig", "EraseConfig", "SaveTest"}
  /\ factory \in BOOLEAN

\* LoadConfig and LoadTest; the App's copy of the saved history is not restored with it.
Load(doc, hist) ==
  /\ cfg' = IF doc \in Docs THEN doc ELSE DefaultDoc
  /\ told' = IF doc \in Docs THEN "stored" ELSE IF doc = None THEN "defaults" ELSE "rejected"
  /\ history' = IF hist = None THEN BlankHistory ELSE hist
  /\ saved' = BlankHistory
  /\ lock' = "Start" /\ factory' = FALSE

HostInit ==
  /\ stored \in Docs \cup {None, Foreign}
  /\ kept \in Histories \cup {None}
  /\ cfg = IF stored \in Docs THEN stored ELSE DefaultDoc
  /\ told = IF stored \in Docs THEN "stored" ELSE IF stored = None THEN "defaults" ELSE "rejected"
  /\ history = IF kept = None THEN BlankHistory ELSE kept
  /\ saved = BlankHistory
  /\ lock = "Start" /\ factory = FALSE

-----------------------------------------------------------------------------
(* hal::nvs: set and commit, erase and commit.  An operation that fails may   *)
(* have been done all the same.                                             *)

SetBlob(key, value, ok) == key' \in (IF ok THEN {value} ELSE {key, value})
EraseKey(key, ok) == key' \in (IF ok THEN {None} ELSE {key, None})

-----------------------------------------------------------------------------
(* Configuration commands, from the page and the console.                    *)

ApplyConfigJson(d) ==
  /\ lock = "Free"
  /\ cfg' = d
  /\ lock' = "SaveConfig"
  /\ UNCHANGED <<stored, told, testStorage, factory>>

\* Mutated: what runs is taken for stored, whatever became of the write.
SaveConfigUnchecked ==
  /\ lock = "SaveConfig"
  /\ \E ok \in BOOLEAN : SetBlob(stored, cfg, ok)
  /\ told' = "stored"
  /\ lock' = "Free"
  /\ UNCHANGED <<cfg, testStorage, factory>>

SaveConfig ==
  /\ lock = "SaveConfig"
  /\ \E ok \in BOOLEAN :
       /\ SetBlob(stored, cfg, ok)
       /\ told' = IF ok THEN "stored" ELSE "unsaved"
  /\ lock' = "Free"
  /\ UNCHANGED <<cfg, testStorage, factory>>

ResetConfig ==
  /\ lock = "Free"
  /\ cfg' = DefaultDoc /\ told' = "defaults"
  /\ lock' = "EraseConfig"
  /\ UNCHANGED <<stored, testStorage, factory>>

EraseConfig ==
  /\ lock = "EraseConfig"
  /\ \E ok \in BOOLEAN : EraseKey(stored, ok)
  /\ lock' = "Free"
  /\ UNCHANGED <<cfg, told, testStorage, factory>>

-----------------------------------------------------------------------------
(* The test history: the self test changes it in a tick, a person by clearing *)
(* a failure, and the tick that finds it changed saves it, once.              *)

ClearFailure(h) ==
  /\ lock = "Free"
  /\ history' = h
  /\ UNCHANGED <<configStorage, kept, saved, lock, factory>>

\* App::Tick, then TestPersistentChanged, which calls the history saved before it is.
TickHistory(h) ==
  /\ lock \in {"Start", "Free"}
  /\ history' = h
  /\ saved' = h
  /\ lock' = IF h # saved THEN "SaveTest" ELSE "Free"
  /\ UNCHANGED <<configStorage, kept, factory>>

SaveTest ==
  /\ lock = "SaveTest"
  /\ \E ok \in BOOLEAN : SetBlob(kept, history, ok)
  /\ lock' = "Free"
  /\ UNCHANGED <<configStorage, history, saved, factory>>

-----------------------------------------------------------------------------
(* Boots: the first tick runs before any other task.                         *)

Boot == Load(stored, kept) /\ UNCHANGED <<stored, kept>>

\* Init: an NVS that cannot be used is erased.
BootUnusable == stored' = None /\ kept' = None /\ Load(None, None)

\* The console's factory reset, whether the erasing succeeds or not; no mutex is taken.
CmdFactory ==
  /\ ~factory
  /\ \E ok \in BOOLEAN : EraseKey(stored, ok) /\ EraseKey(kept, ok)
  /\ factory' = TRUE
  /\ UNCHANGED <<cfg, told, history, saved, lock>>

RestartFactory == factory /\ Boot

ConfigCommand == ResetConfig \/ \E d \in Docs : ApplyConfigJson(d)
Store == SaveConfig \/ EraseConfig \/ SaveTest
Work == \E h \in Histories : ClearFailure(h) \/ TickHistory(h)

HostNext == ConfigCommand \/ Store \/ Work \/ Boot \/ BootUnusable \/ CmdFactory \/ RestartFactory

HostSpec == HostInit /\ [][HostNext]_hostVars

-----------------------------------------------------------------------------
(* A page that says "stored" tells the truth: what runs is what a reboot      *)
(* brings back.                                                             *)
StoredIsWhatRuns == told = "stored" /\ lock # "SaveConfig" /\ ~factory => stored = cfg
=============================================================================
