----------------------------- MODULE MCHeartbeat -----------------------------
(* Small instance of Heartbeat: the tightest times that fit (TimesFit) for a *)
(* throttle of two ticks, one lost write and one tick of waiting.            *)
EXTENDS Heartbeat
=============================================================================
