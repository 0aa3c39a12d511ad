----------------------------- MODULE MCWifiLink -----------------------------
(* Small instances of WifiLink for TLC. *)
EXTENDS WifiLink
=============================================================================
