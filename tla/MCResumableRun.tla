--------------------------- MODULE MCResumableRun ---------------------------
(***************************************************************************)
(* Seven pages in batches of three, so that the last batch is shorter;     *)
(* four crashes.                                                           *)
(***************************************************************************)
EXTENDS ResumableRunProperties
=============================================================================
