----------------------------- MODULE MCMqttBridge -----------------------------
(***************************************************************************)
(* Instances of MqttBridge for TLC: two workers, so that one waits for     *)
(* mtx_ while the other streams, and one request of each interesting kind. *)
(***************************************************************************)
EXTENDS MqttBridge, TLC

CONSTANTS w1, w2, r1, r2, r3, r4

Mixed == (r1 :> "stream") @@ (r2 :> "admin") @@ (r3 :> "bad") @@ (r4 :> "empty")

===============================================================================
