------------------------- MODULE MCTimestampPinger -------------------------
(* TimestampPinger for TLC; its constants are numbers given in the cfgs.   *)
EXTENDS TimestampPinger
=============================================================================
