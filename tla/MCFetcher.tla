------------------------------ MODULE MCFetcher ------------------------------
(***************************************************************************)
(* Two crawls, two page permits and two domains, with one bucket between   *)
(* them; one redirect, two attempts, and a deadline of two ticks.          *)
(***************************************************************************)
EXTENDS FetcherProperties
=============================================================================
