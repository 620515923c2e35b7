------------------------------ MODULE MCExecute ------------------------------
(* Small instances of Execute: two workers of one slot each that share a     *)
(* cache volume (Shared), or a single slot (Single).                         *)
EXTENDS Execute, TLC

CONSTANTS x1, x2, p1, p2

SharedProcessOf == x1 :> p1 @@ x2 :> p2
SingleProcessOf == x1 :> p1
=============================================================================
