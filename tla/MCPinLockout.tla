---------------------------- MODULE MCPinLockout ----------------------------
(* PinLockout with a short schedule, in units of the shortest lockout. *)
EXTENDS PinLockout

MCBackoff == <<1, 2, 4>>
==============================================================================
