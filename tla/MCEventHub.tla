----------------------------- MODULE MCEventHub ------------------------------
(* Small instances of EventHub: a channel of one event, so that the broadcast *)
(* drops, and two refetches of one page under way at a time.                  *)
EXTENDS EventHub
=============================================================================
