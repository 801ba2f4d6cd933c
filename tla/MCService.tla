------------------------------ MODULE MCService ------------------------------
(***************************************************************************)
(* Three parts of the service in one specification: the connection to the  *)
(* result cache, one call of map_site, and one answer of /crawl.  They     *)
(* share no state, so no order of their steps can matter; one of them      *)
(* moves, and the others stay where they begin.                            *)
(*                                                                         *)
(* The cache: three calls share a client, so that one that fails late      *)
(* meets one that connects anew and one that waits for the lock; the       *)
(* second failure in a row reaches the longest cooldown, the one after     *)
(* overflows.                                                              *)
(*                                                                         *)
(* The map: a site whose robots.txt names more sitemaps than a call may    *)
(* fetch, and whose /sitemap.xml, used when robots.txt does not arrive, is *)
(* the index of a cycle.  One sitemap is off the site, one is compressed   *)
(* and grows when it is unpacked, one grows too large.                     *)
(*                                                                         *)
(* The answer: three URLs, one of them too long to be echoed when the      *)
(* answer is full; texts below and above the cap, plain and escaped; a     *)
(* budget that holds some pairs of results and not others, and all notices.*)
(***************************************************************************)
EXTENDS RedisCacheProperties, SiteMapProperties, BatchProperties

VARIABLE part

serviceVars == <<part, cacheVars, mapVars, batchVars>>

ServiceInit ==
  /\ part \in {"cache", "map", "answer"}
  /\ CacheInit /\ MapInit /\ BatchInit

ServiceNext ==
  /\ UNCHANGED part
  /\ \/ part = "cache" /\ CacheNext /\ UNCHANGED <<mapVars, batchVars>>
     \/ part = "map" /\ MapNext /\ UNCHANGED <<cacheVars, batchVars>>
     \/ part = "answer" /\ BatchNext /\ UNCHANGED <<cacheVars, mapVars>>

ServiceSpec ==
  /\ ServiceInit /\ [][ServiceNext]_serviceVars
  /\ MapFairness
-----------------------------------------------------------------------------
Urls == <<1, 4, 2>>

Of(bytes, inflated, index, locs) ==
  [bytes |-> bytes, inflated |-> inflated, index |-> index, locs |-> locs]

SiteUrls ==
  {"robots", "home", "main", "news", "blog", "gz", "bomb", "more", "away", "a", "b", "c", "d", "e", "f", "ad"}

TheSite ==
  [u \in SiteUrls |->
     CASE u = "robots" -> Of(2, 2, FALSE, <<"gz", "away", "blog", "gz", "bomb", "more", "news", "main">>)
       [] u = "main"   -> Of(1, 1, TRUE, <<"news", "main", "gz">>)
       [] u = "news"   -> Of(3, 3, FALSE, <<"a", "blog", "ad", "b">>)
       [] u = "blog"   -> Of(2, 2, FALSE, <<"b", "main", "c">>)
       [] u = "gz"     -> Of(1, 3, FALSE, <<"c", "a", "e">>)
       [] u = "bomb"   -> Of(1, 9, FALSE, <<"d">>)
       [] u = "more"   -> Of(3, 3, FALSE, <<"e", "d", "f">>)
       [] u = "home"   -> Of(1, 1, FALSE, <<"a", "d", "away", "e", "f">>)
       [] OTHER        -> Of(0, 0, FALSE, << >>)]

Sitemaps == {"main", "news", "blog", "gz", "bomb", "more"}
SameSite == SiteUrls \ {"away", "ad"}
Matching == SiteUrls \ {"e"}
=============================================================================
