--------------------------- MODULE MCRecursiveJob ---------------------------
(***************************************************************************)
(* A site of two hosts and ten pages, more than the page budget allows.   *)
(* One link goes back to a seed, one leaves the site, and a4 is reached by *)
(* a path of three links and by a path of two, in either order.            *)
(***************************************************************************)
EXTENDS RecursiveJobProperties, TLC

U(h, t) == [host |-> h, path |-> "/", query |-> None, calendar |-> None, trap |-> t]

MCHost == {"a", "b", "x"}
MCUrl == {"a1", "a2", "a3", "a4", "a5", "a6", "a7", "b1", "b2", "b3", "x1"}
MCLink == MCUrl \cup {"A1"}
MCCanonical == [l \in MCLink |-> IF l = "A1" THEN "a1" ELSE l]
MCInfo == [u \in MCUrl |-> CASE u \in {"b1", "b2", "b3"} -> U("b", FALSE)
                             [] u = "x1" -> U("x", FALSE)
                             [] OTHER -> U("a", FALSE)]
MCHostRank == "a" :> 1 @@ "b" :> 2 @@ "x" :> 3
MCPageLinks == [u \in MCUrl |-> CASE u = "a1" -> <<"a2", "a5", "a7", "a3">>
                                  [] u = "b1" -> <<"b2", "x1">>
                                  [] u = "b2" -> <<"A1", "b3">>
                                  [] u = "b3" -> <<"a4", "a6">>
                                  [] u = "a3" -> <<"a4">>
                                  [] OTHER -> << >>]
Limits(pages) ==
  [maxDepth |-> 3, maxUrls |-> pages, maxUrlsPerHost |-> pages,
   maxFetchAttempts |-> pages, maxFetchAttemptsPerHost |-> pages,
   maxAttemptsPerUrl |-> 1, allowSubdomains |-> FALSE,
   hostDelay |-> 0, backoffBase |-> 1, maxRetryDelay |-> 120,
   maxQueryVariants |-> 32, maxCalendarVariants |-> 24]
NinePages == Limits(9)
MCSeedLinks == <<"A1", "b1">>
AnyOutcome == [u \in MCUrl |-> CASE u = "a1" -> {"ok", "failed", "cancelled"}
                                 [] u = "b2" -> {"ok", "robots", "rejected"}
                                 [] OTHER -> {"ok", "failed"}]
AllOk == [u \in MCUrl |-> {"ok"}]
=============================================================================
