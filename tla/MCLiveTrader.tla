---------------------------- MODULE MCLiveTrader ----------------------------
(* Small instances of LiveTrader: the configurations bound the bars, the   *)
(* failures, the thin matches and the movements by others.                 *)
EXTENDS LiveTrader
=============================================================================
