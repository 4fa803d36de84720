---------------------------- MODULE MCEnvMonitor ----------------------------
(***************************************************************************)
(* Instances of EnvMonitor for TLC: three sensors and a frame of three     *)
(* timestamps.                                                             *)
(***************************************************************************)
EXTENDS EnvMonitor

MCCallbacks == {env_on_dht_data}
=============================================================================
