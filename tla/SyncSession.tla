----------------------------- MODULE SyncSession -----------------------------
(***************************************************************************)
(* What a wallet's SPV sync promises: one session at a time, which runs    *)
(* one syncer from the moment the wallet says it is syncing until before   *)
(* it says that it no longer is.                                           *)
(***************************************************************************)
CONSTANT Sessions

VARIABLES
  mode,     \* what the wallet shows: "off", "syncing" or "synced"
  running   \* the sessions whose syncer runs

session == <<mode, running>>

Init == mode = "off" /\ running = {}

Start(s) ==
  /\ mode = "off" /\ running = {}
  /\ mode' = "syncing" /\ running' = {s}

Complete ==
  /\ mode = "syncing" /\ running # {}
  /\ mode' = "synced" /\ UNCHANGED running

Stop ==
  /\ running # {}
  /\ running' = {} /\ UNCHANGED mode

SwitchOff ==
  /\ mode # "off" /\ running = {}
  /\ mode' = "off" /\ UNCHANGED running

Next == (\E s \in Sessions : Start(s)) \/ Complete \/ Stop \/ SwitchOff

Spec == Init /\ [][Next]_session
=============================================================================
