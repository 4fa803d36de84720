---------------------------- MODULE MCWifiManager ----------------------------
(* The WiFi manager for TLC. *)
EXTENDS WifiManager
=============================================================================
