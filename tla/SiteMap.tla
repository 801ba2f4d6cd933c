------------------------------- MODULE SiteMap -------------------------------
(***************************************************************************)
(* One call of map_site, src/app/services/site_map.py: the sitemaps that   *)
(* robots.txt names, and those that they name, are fetched batch by batch  *)
(* under one budget of bytes and one deadline; if the list of pages is not *)
(* full, the links of the home page follow.                                *)
(*                                                                         *)
(* Addresses, redirects and decoding are the environment's answer: a       *)
(* document arrives piece by piece, or does not.                           *)
(***************************************************************************)
EXTENDS Integers, SequencesExt

CONSTANTS
  Url,
  Robots, Home, Default,  \* /robots.txt, the root, /sitemap.xml
  Site,           \* per URL: the document behind it
  XmlPath,        \* URLs whose path ends like a sitemap's
  OnSite,         \* URLs that _same_site accepts
  Wanted,         \* URLs that match the search text
  PageLimit,          \* pages asked for
  MaxSitemaps,    \* _MAX_SITEMAPS
  Concurrency,    \* _SITEMAP_CONCURRENCY
  MaxBytes,       \* map_max_download_bytes
  MaxDocument,    \* _MAX_DISCOVERY_BYTES
  MaxChunk        \* bound: the longest piece in which a document arrives

Document ==
  [bytes : Nat, inflated : Nat, index : BOOLEAN, locs : Seq(Url)]

ASSUME SiteAssumption ==
  /\ {Robots, Home, Default} \subseteq Url
  /\ XmlPath \subseteq Url /\ OnSite \subseteq Url /\ Wanted \subseteq Url
  /\ \A u \in Url : Site[u] \in Document
  /\ {PageLimit, MaxSitemaps, Concurrency, MaxBytes, MaxDocument, MaxChunk} \subseteq Nat \ {0}

VARIABLES
  phase,      \* where _map_site_bounded is
  toParse,    \* to_parse
  seen,       \* seen_sitemaps
  batch,      \* batch
  fetched,    \* fetched
  found,      \* found (seen holds the same URLs)
  gets,       \* calls of _get in the order of their start
  remaining,  \* remaining_bytes
  crowded     \* history: a sitemap was not queued for want of room

mapVars == <<phase, toParse, seen, batch, fetched, found, gets, remaining, crowded>>

MapInit ==
  /\ phase = "idle"
  /\ toParse = << >> /\ seen = {} /\ batch = << >> /\ fetched = 0 /\ found = << >>
  /\ gets = << >>
  /\ remaining = MaxBytes /\ crowded = FALSE

Get(u) == [url |-> u, stage |-> "loading", got |-> 0]
Loading == {i \in DOMAIN gets : gets[i].stage = "loading"}

\* The documents of the batch that was fetched last and arrived.
Arrived == {gets[i].url : i \in {j \in Len(gets) - Len(batch) + 1 .. Len(gets) : gets[j].stage = "kept"}}

(* _get: a document arrives ************************************************)

Becomes(i, stage, got) ==
  gets' = [gets EXCEPT ![i].stage = stage, ![i].got = got]

\* consume: bytes are charged, or the budget is exhausted for everybody.
Charge(i, n, stage) ==
  IF n > remaining
  THEN remaining' = 0 /\ Becomes(i, "failed", 0)
  ELSE remaining' = remaining - n /\ Becomes(i, stage, gets[i].got + n)

Chunk(i) ==
  LET d == Site[gets[i].url] IN
  /\ i \in Loading
  /\ \E n \in 1 .. MaxChunk :
       /\ gets[i].got + n <= d.bytes
       /\ IF gets[i].got + n > MaxDocument
          THEN Becomes(i, "failed", 0) /\ UNCHANGED remaining
          ELSE Charge(i, n, "loading")
  /\ UNCHANGED <<phase, toParse, seen, batch, fetched, found, crowded>>

\* Mutant: what a compressed document grows to is not charged.
InflateFree(i, n) == UNCHANGED remaining /\ Becomes(i, "kept", gets[i].got + n)
Inflate(i, n) == Charge(i, n, "kept")

\* The whole body is there; a compressed one is unpacked within bounds.
Arrives(i) ==
  LET d == Site[gets[i].url] IN
  /\ i \in Loading /\ gets[i].got = d.bytes
  /\ CASE d.inflated > MaxDocument -> Becomes(i, "failed", 0) /\ UNCHANGED remaining
       [] d.inflated \in d.bytes + 1 .. MaxDocument -> Inflate(i, d.inflated - d.bytes)
       [] OTHER -> Becomes(i, "kept", d.bytes) /\ UNCHANGED remaining
  /\ UNCHANGED <<phase, toParse, seen, batch, fetched, found, crowded>>

\* An address is refused, a redirect leaves the site, the server does not answer.
NotServed(i) ==
  /\ i \in Loading
  /\ Becomes(i, "failed", 0) /\ UNCHANGED remaining
  /\ UNCHANGED <<phase, toParse, seen, batch, fetched, found, crowded>>

(* _map_site_bounded *******************************************************)

\* map_site is called.
MapCalled ==
  /\ phase = "idle" /\ phase' = "robots"
  /\ gets' = <<Get(Robots)>>
  /\ UNCHANGED <<toParse, seen, batch, fetched, found, remaining, crowded>>

\* The address is no http URL, or private.
MapRefused ==
  /\ phase = "idle" /\ phase' = "done"
  /\ UNCHANGED <<toParse, seen, batch, fetched, found, gets, remaining, crowded>>

Answered == Loading = {}

\* _discover_sitemaps
ReadRobots ==
  /\ phase = "robots" /\ Answered
  /\ toParse' = IF gets[1].stage = "kept" /\ Site[Robots].locs # << >> THEN Site[Robots].locs ELSE <<Default>>
  /\ phase' = "fill"
  /\ UNCHANGED <<seen, batch, fetched, found, gets, remaining, crowded>>

\* The inner loop goes on.
RoomInBatch == fetched + Len(batch) < MaxSitemaps

Filling == toParse # << >> /\ Len(batch) < Concurrency /\ RoomInBatch

\* Mutant: a candidate that is skipped stays where it is.
RestTaken == IF Head(toParse) \in OnSite \ seen THEN Tail(toParse) ELSE toParse
Rest == Tail(toParse)

\* There is no await while a batch is filled: no deadline falls in between.
FillOne ==
  LET u == Head(toParse) IN
  /\ phase = "fill" /\ Filling
  /\ toParse' = Rest
  /\ IF u \in OnSite \ seen
     THEN seen' = seen \cup {u} /\ batch' = Append(batch, u)
     ELSE UNCHANGED <<seen, batch>>
  /\ UNCHANGED <<phase, fetched, found, gets, remaining, crowded>>

StartBatch ==
  /\ phase = "fill" /\ ~Filling /\ batch # << >>
  /\ gets' = gets \o [i \in DOMAIN batch |-> Get(batch[i])]
  /\ phase' = "batch"
  /\ UNCHANGED <<toParse, seen, batch, fetched, found, remaining, crowded>>

\* add
Added(list, u) ==
  IF u \in Range(list) \/ u \notin OnSite \cap Wanted THEN list ELSE Append(list, u)

\* One <loc> of a document, unless the list is full: a sitemap is queued if
\* there is room, a page is added.
ReadLoc(acc, index, u) ==
  CASE Len(acc.found) >= PageLimit -> acc
    [] Len(acc.found) < PageLimit /\ (index \/ u \in XmlPath) ->
         IF Len(acc.queue) + fetched + Len(batch) < MaxSitemaps
         THEN [acc EXCEPT !.queue = Append(@, u)]
         ELSE [acc EXCEPT !.crowded = TRUE]
    [] OTHER -> [acc EXCEPT !.found = Added(@, u)]

ReadDocument(acc, u) ==
  IF u \in Arrived
  THEN FoldLeft(LAMBDA a, v : ReadLoc(a, Site[u].index, v), acc, Site[u].locs)
  ELSE acc

\* Mutant: documents are read as they come in, say the shortest first.
InOrderOfArrival(s) == SortSeq(s, LAMBDA u, v : Site[u].bytes < Site[v].bytes)
\* gather returns the documents in the order of the batch.
InOrder(s) == s

ReadBatch ==
  LET acc == FoldLeft(ReadDocument, [queue |-> toParse, found |-> found, crowded |-> crowded], InOrder(batch))
      more == acc.queue # << >> /\ Len(acc.found) < PageLimit /\ fetched + Len(batch) < MaxSitemaps
  IN /\ phase = "batch" /\ Answered
     /\ toParse' = acc.queue /\ found' = acc.found /\ crowded' = acc.crowded
     /\ fetched' = fetched + Len(batch)
     /\ batch' = << >>
     /\ phase' = IF more THEN "fill" ELSE "full"
     /\ UNCHANGED <<seen, gets, remaining>>

\* Only skipped candidates were left.
NothingToFetch ==
  /\ phase = "fill" /\ ~Filling /\ batch = << >>
  /\ phase' = "full"
  /\ UNCHANGED <<toParse, seen, batch, fetched, found, gets, remaining, crowded>>

\* The sitemaps are done; the home page supplements a list that is not full.
StartHome ==
  /\ phase = "full" /\ Len(found) < PageLimit
  /\ gets' = Append(gets, Get(Home))
  /\ phase' = "home"
  /\ UNCHANGED <<toParse, seen, batch, fetched, found, remaining, crowded>>

Full ==
  /\ phase = "full" /\ Len(found) >= PageLimit
  /\ phase' = "done"
  /\ UNCHANGED <<toParse, seen, batch, fetched, found, gets, remaining, crowded>>

ReadHome ==
  /\ phase = "home" /\ Answered
  /\ found' = IF gets[Len(gets)].stage = "failed" THEN found
              ELSE FoldLeft(LAMBDA f, u : IF Len(f) >= PageLimit THEN f ELSE Added(f, u), found, Site[Home].locs)
  /\ phase' = "done"
  /\ UNCHANGED <<toParse, seen, batch, fetched, gets, remaining, crowded>>

\* The deadline falls into an await: what is loading is cancelled, the answer
\* is empty.
Deadline ==
  /\ phase \in {"robots", "batch", "home"}
  /\ phase' = "late" /\ found' = << >>
  /\ gets' = [i \in DOMAIN gets |-> IF i \in Loading THEN [gets[i] EXCEPT !.stage = "failed", !.got = 0] ELSE gets[i]]
  /\ UNCHANGED <<toParse, seen, batch, fetched, remaining, crowded>>

Owner ==
  \/ ReadRobots \/ FillOne \/ StartBatch \/ ReadBatch \/ NothingToFetch
  \/ StartHome \/ Full \/ ReadHome

MapNext ==
  \/ MapCalled \/ MapRefused \/ Owner \/ Deadline
  \/ \E i \in DOMAIN gets : Chunk(i) \/ Arrives(i) \/ NotServed(i)

MapSpec == MapInit /\ [][MapNext]_mapVars
MapFairness == WF_mapVars(Owner) /\ WF_mapVars(Deadline)
=============================================================================
