------------------------------ MODULE MCBoard -------------------------------
(* What the board keeps and what restarts it, checked in one run: its flash    *)
(* (Host), the configuration document (Config), firmware updates (Update) and  *)
(* the restarts (Restarts).  They share no modelled state; a behaviour is one  *)
(* of one of them, chosen at the start, with the others standing still.        *)
EXTENDS Restarts, Host, Config, Update, TLC

VARIABLE part \* the module whose behaviour this is

-----------------------------------------------------------------------------
(* Config: two devices on relays and plugs, entered into one form; a plug that *)
(* was paired anew has another id and key at the same address.  Documents are   *)
(* partial, of an older version, malformed, or bring levels, outputs or the     *)
(* test out of order.                                                       *)

OwnKey == [p \in Plugs |-> IF p = "p1" THEN "key1" ELSE "key2"]
Plug(p, ip, dp) == [type |-> "tuya", id |-> p, ip |-> ip, key |-> OwnKey[p], dp |-> dp]
Channel(n, w) == [type |-> "relay", channel |-> n, wiring |-> w]

Entered ==
  {Channel(1, "NO"), Channel(1, "NC"), [type |-> "none"]}
    \cup {Plug(p, "here", dp) : p \in Plugs, dp \in 1 .. 2}
    \cup {Plug(p, "there", 1) : p \in Plugs}

Delivered ==
  [sample_period_s |-> 10,
   blue |-> [mgl |-> 6, hysteresis |-> 0], yellow |-> [mgl |-> 4, hysteresis |-> 0], red |-> [mgl |-> 2, hysteresis |-> 0],
   night |-> [start |-> 5, end |-> 1],
   test |-> [start |-> 2, end |-> 4, settle_s |-> 1, tail_s |-> 1, induce_deficit_s |-> 0,
             induce_deficit_device |-> 0, exclusive |-> TRUE],
   devices |-> [d \in 1 .. 2 |->
     [slot |-> Channel(d, "NO"), trigger |-> "none", mode |-> "on", ack_silences |-> FALSE,
      test_s |-> 0, boost |-> FALSE, windows |-> FALSE]]]

OfDevice(d, o) == [devices |-> (d :> o)]

Sent ==
  {OfDevice(1, [slot |-> [type |-> "tuya", dp |-> 2]]), OfDevice(2, [slot |-> [key |-> "redacted"]]),
   OfDevice(2, [trigger |-> "heat"]), OfDevice(2, [wired |-> "NO", mode |-> "pulse_off"]), OfDevice(2, [service_s |-> 30]),
   OfDevice(1, [slot |-> [type |-> Malformed]]), OfDevice(2, [wired |-> Malformed]),
   [yellow |-> [hysteresis |-> 2]], [blue |-> Malformed], [sample_period_s |-> 4],
   [service |-> [start |-> 4]], [test |-> [induce_deficit_s |-> 1]], [night |-> [start |-> 3]]}

\* What the theorem about keys assumes of the people.
ASSUME KeysAreEntered == OneForm /\ PlugsComeWithTheirKeys /\ PlugsComeByForm

-----------------------------------------------------------------------------

allVars == <<part, updateVars, hostVars, configVars, restartVars>>

\* The state in which the parts that do not move stand still.
Still ==
  /\ part # "Restarts" => quiet /\ left = 0
  /\ part # "Host" => stored = None /\ kept = None
  /\ part # "Update" => state["ota_0"] = "Valid"

BInit ==
  /\ part \in {"Restarts", "Host", "Config", "Update"}
  /\ UpdateInit /\ HostInit /\ ConfigInit /\ RestartsInit
  /\ Still

BNext ==
  \/ part = "Update" /\ UpdateNext /\ UNCHANGED <<part, hostVars, configVars, restartVars>>
  \/ part = "Host" /\ HostNext /\ UNCHANGED <<part, updateVars, configVars, restartVars>>
  \/ part = "Config" /\ ConfigNext /\ UNCHANGED <<part, updateVars, hostVars, restartVars>>
  \/ part = "Restarts" /\ RestartsNext /\ UNCHANGED <<part, updateVars, hostVars, configVars>>

\* The fairness of Restarts, for the part that moves.
InRestarts(A) == part = "Restarts" /\ A

BSpec ==
  /\ BInit /\ [][BNext]_allVars
  /\ WF_restartVars(InRestarts(Watch)) /\ WF_restartVars(InRestarts(Restart))
  /\ WF_restartVars(InRestarts(RestartDaily)) /\ WF_restartVars(InRestarts(Minute))
  /\ WF_restartVars(InRestarts(BusyScope /\ busy))
=============================================================================
