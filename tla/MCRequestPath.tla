---------------------------- MODULE MCRequestPath ----------------------------
(***************************************************************************)
(* Three requests for two slots, two of them for pages, one extraction     *)
(* permit and one runtime; one failure opens the breaker, and the clock    *)
(* reaches the end of its cooldown, so that the second call can be the     *)
(* probe while the first call's failure is late.                           *)
(***************************************************************************)
EXTENDS RequestPathProperties
=============================================================================
