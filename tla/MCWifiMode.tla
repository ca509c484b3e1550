----------------------------- MODULE MCWifiMode -----------------------------
(* WifiMode for TLC: a small queue of radio events; see the .cfg files. *)
EXTENDS WifiMode

=============================================================================
