-------------------------- MODULE RecursiveJobProofs --------------------------
(***************************************************************************)
(* Proofs about the crawl frontier, for every set of hosts and URLs, every *)
(* configuration and every sequence of calls; and, in the second part,     *)
(* about one recursive crawl and the frontier it owns, for every site,     *)
(* every outcome of its pages, every budget and every concurrency.         *)
(***************************************************************************)
EXTENDS RecursiveJobProperties, FrontierProperties, Facts, SequenceTheorems

(* Part one: the frontier **************************************************)

\* The configuration is made of natural numbers, and so are its limits.
LEMMA ConfigIsNat ==
  /\ Config.maxDepth \in Nat
  /\ Config.maxUrls \in Nat \ {0}
  /\ Config.maxUrlsPerHost \in Nat \ {0}
  /\ Config.maxAttemptsPerUrl \in Nat \ {0}
  /\ Config.hostDelay \in Nat
  /\ Config.backoffBase \in Nat
  /\ Config.maxRetryDelay \in Nat
  /\ GlobalFetchLimit \in Nat
  /\ HostFetchLimit \in Nat
BY DataAssumption DEF ConfigType, GlobalFetchLimit, HostFetchLimit

\* A power of two is a natural number: it counts the subsets of 1 .. n.
LEMMA PowerOfTwo == \A n \in Nat : 2^n \in Nat
<1> SUFFICES ASSUME NEW n \in Nat PROVE 2^n \in Nat
  OBVIOUS
<1>1. IsFiniteSet(1 .. n) /\ Cardinality(1 .. n) = n
  BY FS_Interval
<1>2. IsFiniteSet(SUBSET (1 .. n)) /\ Cardinality(SUBSET (1 .. n)) = 2^n
  BY <1>1, FS_SUBSET
<1> QED BY <1>2, FS_CardinalityType

\* Delays before a retry are natural numbers of seconds.
LEMMA RetryDelayIsNat ==
  ASSUME NEW n \in Nat \ {0}, NEW ra \in RetryAfters
  PROVE  RetryDelay(n, ra) \in Nat /\ RetryAfterSeconds(ra) \in Nat
<1>1. RetryAfterSeconds(ra) \in Nat
  BY ConfigIsNat, DataAssumption DEF RetryAfterSeconds, EarlierOf
<1>2. EarlierOf(n - 1, 62) \in Nat
  BY DEF EarlierOf
<1>3. Backoff(n) \in Nat
  <2> DEFINE p == 2^EarlierOf(n - 1, 62)
  <2>1. p \in Nat
    BY <1>2, PowerOfTwo
  <2> HIDE DEF p
  <2>2. Config.backoffBase * p \in Nat
    BY <2>1, ConfigIsNat
  <2>3. EarlierOf(Config.maxRetryDelay, Config.backoffBase * p) \in Nat
    BY <2>2, ConfigIsNat DEF EarlierOf
  <2> QED BY <2>3 DEF Backoff, p
<1>4. RetryDelay(n, ra) \in Nat
  BY <1>1, <1>3, ConfigIsNat DEF RetryDelay, EarlierOf, LaterOf
<1> QED BY <1>1, <1>4

\* Records keep their type under the updates that the frontier makes.
LEMMA RequeueType ==
  ASSUME NEW e \in Entry, NEW g \in Nat, NEW at \in Nat, NEW s \in PendingStates
  PROVE  [e EXCEPT !.generation = g, !.readyAt = at, !.state = s] \in Entry
BY DEF Entry

\* The same for a termination.
LEMMA TerminateType ==
  ASSUME NEW e \in Entry, NEW g \in Nat, NEW r \in TerminalReasons
  PROVE  [e EXCEPT !.state = "TERMINAL", !.reason = r, !.generation = g] \in Entry
BY DEF Entry

\* The same for a lease.
LEMMA LeaseType ==
  ASSUME NEW e \in Entry, NEW n \in Nat
  PROVE  [e EXCEPT !.state = "IN_FLIGHT", !.attempts = n] \in Entry
BY DEF Entry

\* The same for a better discovery.
LEMMA ReprioritizeType ==
  ASSUME NEW e \in Entry, NEW d \in Nat, NEW par \in Url \cup {None}, NEW p \in Int
  PROVE  [e EXCEPT !.depth = d, !.parent = par, !.priority = p] \in Entry
BY DEF Entry

\* The same for an answer.
LEMMA AnsweredRecord ==
  ASSUME NEW e \in Entry, NEW attempt \in Nat
  PROVE  /\ Answered(e, attempt) \in Entry
         /\ Answered(e, attempt).answered = attempt
         /\ Answered(e, attempt).state = e.state
         /\ Answered(e, attempt).generation = e.generation
         /\ Answered(e, attempt).attempts = e.attempts
         /\ Answered(e, attempt).order = e.order
         /\ Answered(e, attempt).depth = e.depth
         /\ Answered(e, attempt).priority = e.priority
         /\ Answered(e, attempt).parent = e.parent
         /\ Answered(e, attempt).readyAt = e.readyAt
         /\ Answered(e, attempt).reason = e.reason
<1>1. Answered(e, attempt) \in Entry
  BY DEF Answered, Entry
<1>2. /\ Answered(e, attempt).answered = attempt
      /\ Answered(e, attempt).state = e.state
      /\ Answered(e, attempt).generation = e.generation
      /\ Answered(e, attempt).attempts = e.attempts
      /\ Answered(e, attempt).order = e.order
      /\ Answered(e, attempt).depth = e.depth
      /\ Answered(e, attempt).priority = e.priority
      /\ Answered(e, attempt).parent = e.parent
      /\ Answered(e, attempt).readyAt = e.readyAt
      /\ Answered(e, attempt).reason = e.reason
  BY DEF Answered, Entry
<1> QED BY <1>1, <1>2

\* A re-queued record is pending, newer, and otherwise itself.
LEMMA EnqueuedRecord ==
  ASSUME NEW e \in Entry, NEW at \in Nat
  PROVE  /\ Enqueued(e, at) \in Entry
         /\ Enqueued(e, at).state \in PendingStates
         /\ Enqueued(e, at).generation = e.generation + 1
         /\ Enqueued(e, at).readyAt = at
         /\ Enqueued(e, at).attempts = e.attempts
         /\ Enqueued(e, at).order = e.order
         /\ Enqueued(e, at).depth = e.depth
         /\ Enqueued(e, at).priority = e.priority
         /\ Enqueued(e, at).parent = e.parent
         /\ Enqueued(e, at).answered = e.answered
<1> DEFINE g == e.generation + 1
           s == IF e.attempts > 0 THEN "RETRY_WAIT" ELSE "QUEUED"
<1>1. Enqueued(e, at) = [e EXCEPT !.generation = g, !.readyAt = at, !.state = s]
  BY DEF Enqueued
<1>2. g \in Nat /\ s \in PendingStates
  BY DEF Entry, PendingStates
<1> HIDE DEF g, s
<1>3. Enqueued(e, at) \in Entry
  <2>1. [e EXCEPT !.generation = g, !.readyAt = at, !.state = s] \in Entry
    BY <1>2, RequeueType
  <2> QED BY <1>1, <2>1
<1>4. /\ Enqueued(e, at).state = s
      /\ Enqueued(e, at).generation = g
      /\ Enqueued(e, at).readyAt = at
      /\ Enqueued(e, at).attempts = e.attempts
      /\ Enqueued(e, at).order = e.order
      /\ Enqueued(e, at).depth = e.depth
      /\ Enqueued(e, at).priority = e.priority
      /\ Enqueued(e, at).parent = e.parent
      /\ Enqueued(e, at).answered = e.answered
  BY <1>1 DEF Entry
<1> QED BY <1>2, <1>3, <1>4 DEF g

\* A terminated record is newer and otherwise keeps what its lease was given.
LEMMA TerminatedRecord ==
  ASSUME NEW e \in Entry, NEW reason \in TerminalReasons
  PROVE  /\ Terminated(e, reason) \in Entry
         /\ Terminated(e, reason).state = "TERMINAL"
         /\ Terminated(e, reason).reason = reason
         /\ Terminated(e, reason).generation = e.generation + 1
         /\ Terminated(e, reason).attempts = e.attempts
         /\ Terminated(e, reason).order = e.order
         /\ Terminated(e, reason).depth = e.depth
         /\ Terminated(e, reason).priority = e.priority
         /\ Terminated(e, reason).parent = e.parent
         /\ Terminated(e, reason).answered = e.answered
<1> DEFINE g == e.generation + 1
<1>1. Terminated(e, reason) =
        [e EXCEPT !.state = "TERMINAL", !.reason = reason, !.generation = g]
  BY DEF Terminated
<1>2. g \in Nat
  BY DEF Entry
<1> HIDE DEF g
<1>3. Terminated(e, reason) \in Entry
  BY <1>1, <1>2, TerminateType
<1>4. /\ Terminated(e, reason).state = "TERMINAL"
      /\ Terminated(e, reason).reason = reason
      /\ Terminated(e, reason).generation = g
      /\ Terminated(e, reason).attempts = e.attempts
      /\ Terminated(e, reason).order = e.order
      /\ Terminated(e, reason).depth = e.depth
      /\ Terminated(e, reason).priority = e.priority
      /\ Terminated(e, reason).parent = e.parent
      /\ Terminated(e, reason).answered = e.answered
  BY <1>1 DEF Entry
<1> QED BY <1>3, <1>4 DEF g

\* A record settled by the outcome of a lease is terminated, and has it answered.
LEMMA SettledRecord ==
  ASSUME NEW e \in Entry, NEW attempt \in Nat, NEW reason \in TerminalReasons
  PROVE  /\ Settled(e, attempt, reason) \in Entry
         /\ Settled(e, attempt, reason).state = "TERMINAL"
         /\ Settled(e, attempt, reason).reason = reason
         /\ Settled(e, attempt, reason).generation = e.generation + 1
         /\ Settled(e, attempt, reason).attempts = e.attempts
         /\ Settled(e, attempt, reason).order = e.order
         /\ Settled(e, attempt, reason).depth = e.depth
         /\ Settled(e, attempt, reason).priority = e.priority
         /\ Settled(e, attempt, reason).parent = e.parent
         /\ Settled(e, attempt, reason).readyAt = e.readyAt
         /\ Settled(e, attempt, reason).answered = attempt
<1> DEFINE f == Answered(e, attempt)
<1>1. Settled(e, attempt, reason) = Terminated(f, reason)
  BY DEF Settled
<1>2. /\ f \in Entry /\ f.answered = attempt /\ f.generation = e.generation
      /\ f.attempts = e.attempts /\ f.order = e.order /\ f.depth = e.depth
      /\ f.priority = e.priority /\ f.parent = e.parent /\ f.readyAt = e.readyAt
  BY AnsweredRecord
<1> HIDE DEF f
<1>3. Terminated(f, reason).readyAt = f.readyAt
  BY <1>2 DEF Terminated, Entry
<1>4. /\ Terminated(f, reason) \in Entry
      /\ Terminated(f, reason).state = "TERMINAL"
      /\ Terminated(f, reason).reason = reason
      /\ Terminated(f, reason).generation = f.generation + 1
      /\ Terminated(f, reason).attempts = f.attempts
      /\ Terminated(f, reason).order = f.order
      /\ Terminated(f, reason).depth = f.depth
      /\ Terminated(f, reason).priority = f.priority
      /\ Terminated(f, reason).parent = f.parent
      /\ Terminated(f, reason).answered = f.answered
  BY <1>2, TerminatedRecord
<1> QED BY <1>1, <1>2, <1>3, <1>4

\* A new record is queued, in its first generation, and never attempted.
LEMMA NewEntryRecord ==
  ASSUME NEW d \in Nat, NEW p \in Int, NEW par \in Url \cup {None},
         NEW ord \in Nat, NEW at \in Nat
  PROVE  /\ NewEntry(d, p, par, ord, at) \in Entry
         /\ NewEntry(d, p, par, ord, at).state \in PendingStates
         /\ NewEntry(d, p, par, ord, at).generation = 1
         /\ NewEntry(d, p, par, ord, at).readyAt = at
         /\ NewEntry(d, p, par, ord, at).attempts = 0
         /\ NewEntry(d, p, par, ord, at).answered = 0
         /\ NewEntry(d, p, par, ord, at).order = ord
         /\ NewEntry(d, p, par, ord, at).depth = d
         /\ NewEntry(d, p, par, ord, at).parent = par
<1> DEFINE e == [depth |-> d, priority |-> p, parent |-> par, order |-> ord,
                 state |-> "QUEUED", attempts |-> 0, readyAt |-> 0,
                 generation |-> 0, reason |-> None, answered |-> 0]
<1>1. e \in Entry
  BY DEF Entry, PendingStates
<1>2. NewEntry(d, p, par, ord, at) = Enqueued(e, at)
  BY DEF NewEntry
<1>3. e.generation = 0 /\ e.attempts = 0 /\ e.order = ord /\ e.depth = d
      /\ e.parent = par /\ e.answered = 0
  OBVIOUS
<1> HIDE DEF e
<1>4. /\ Enqueued(e, at) \in Entry
      /\ Enqueued(e, at).state \in PendingStates
      /\ Enqueued(e, at).generation = e.generation + 1
      /\ Enqueued(e, at).readyAt = at
      /\ Enqueued(e, at).attempts = e.attempts
      /\ Enqueued(e, at).answered = e.answered
      /\ Enqueued(e, at).order = e.order
      /\ Enqueued(e, at).depth = e.depth
      /\ Enqueued(e, at).parent = e.parent
  BY <1>1, EnqueuedRecord
<1> QED BY <1>2, <1>3, <1>4
-----------------------------------------------------------------------------
(* Heaps *)

\* What becomes of the heaps of host h when they advance to those of H: an
\* item of the ready heap was there before, or was waiting and no longer is.
HeapsAdvance(h, H) ==
  /\ H \in HostState
  /\ H.waiting \subseteq hosts[h].waiting
  /\ IsFiniteSet(H.ready)
  /\ \A i \in H.ready :
       \/ i \in hosts[h].ready
       \/ \E j \in hosts[h].waiting \ H.waiting :
            /\ SameGeneration(i, j)
            /\ i.priority = entries[j.url].priority
            /\ j.at <= now

\* Advancing to H loses no live item of the URLs in S.
HeapsKeep(h, H, S) ==
  \A i \in hosts[h].waiting \cup hosts[h].ready :
    i.url \in S /\ Live(i) =>
      \E j \in H.waiting \cup H.ready : SameGeneration(j, i)

\* A seed is ready at once.
LEMMA SeedReady ==
  ASSUME NEW p \in Int, NEW par \in Url \cup {None}, NEW ord \in Nat
  PROVE  NewEntry(0, p, par, ord, 0).readyAt = 0
BY NewEntryRecord

\* Items are determined by their fields.
LEMMA ItemsAreRecords ==
  /\ \A i \in ReadyItem : /\ i.url \in Url /\ i.priority \in Int /\ i.generation \in Nat
                           /\ i = [url |-> i.url, priority |-> i.priority,
                                  generation |-> i.generation]
  /\ \A i \in WaitingItem : /\ i.url \in Url /\ i.at \in Nat /\ i.generation \in Nat
                             /\ i = [url |-> i.url, at |-> i.at,
                                    generation |-> i.generation]
BY DEF ReadyItem, WaitingItem

\* Advancing keeps the heaps sound.
LEMMA AdvancedHeaps ==
  ASSUME TypeOK, HeapsSound, NEW h \in Host, NEW H, HeapsAdvance(h, H)
  PROVE  HeapsKnown(h, H) /\ HeapsDistinct(H)
<1>1. hosts[h] \in HostState /\ H \in HostState
  BY DEF TypeOK, HeapsAdvance
<1>2. HeapsKnown(h, hosts[h]) /\ HeapsDistinct(hosts[h])
  BY DEF HeapsSound
<1>3. IsFiniteSet(H.waiting) /\ IsFiniteSet(H.ready)
  BY <1>2, FS_Subset DEF HeapsAdvance, HeapsKnown
<1>4. ASSUME NEW i \in H.waiting \cup H.ready
      PROVE  /\ i.url \in DOMAIN entries
             /\ Info[i.url].host = h
             /\ i.generation <= entries[i.url].generation
  BY <1>2, <1>4 DEF HeapsAdvance, HeapsKnown, SameGeneration
<1>5. \A i, j \in H.waiting : SameGeneration(i, j) => i = j
  BY <1>2 DEF HeapsAdvance, HeapsDistinct
<1>6. ASSUME NEW i \in H.ready, NEW j \in H.ready, SameGeneration(i, j) PROVE i = j
  <2>1. i \in ReadyItem /\ j \in ReadyItem
    BY <1>1 DEF HostState
  <2>2. CASE i \in hosts[h].ready /\ j \in hosts[h].ready
    BY <1>2, <1>6, <2>2 DEF HeapsDistinct
  <2>3. CASE i \notin hosts[h].ready /\ j \notin hosts[h].ready
    <3>1. PICK v \in hosts[h].waiting :
            SameGeneration(i, v) /\ i.priority = entries[v.url].priority
      BY <2>3 DEF HeapsAdvance
    <3>2. PICK w \in hosts[h].waiting :
            SameGeneration(j, w) /\ j.priority = entries[w.url].priority
      BY <2>3 DEF HeapsAdvance
    <3>3. i.priority = j.priority
      BY <1>6, <3>1, <3>2 DEF SameGeneration
    <3> QED BY <1>6, <2>1, <3>3, ItemsAreRecords DEF SameGeneration
  <2>4. CASE i \in hosts[h].ready /\ j \notin hosts[h].ready
    <3>1. PICK w \in hosts[h].waiting : SameGeneration(j, w)
      BY <2>4 DEF HeapsAdvance
    <3> QED BY <1>2, <1>6, <2>4, <3>1 DEF HeapsDistinct, SameGeneration
  <2>5. CASE i \notin hosts[h].ready /\ j \in hosts[h].ready
    <3>1. PICK v \in hosts[h].waiting : SameGeneration(i, v)
      BY <2>5 DEF HeapsAdvance
    <3> QED BY <1>2, <1>6, <2>5, <3>1 DEF HeapsDistinct, SameGeneration
  <2> QED BY <2>2, <2>3, <2>4, <2>5
<1>7. ASSUME NEW i \in H.waiting, NEW j \in H.ready, SameGeneration(i, j) PROVE FALSE
  <2>1. i \in hosts[h].waiting
    BY DEF HeapsAdvance
  <2>2. CASE j \in hosts[h].ready
    BY <1>2, <1>7, <2>1, <2>2 DEF HeapsDistinct
  <2>3. CASE j \notin hosts[h].ready
    <3>1. PICK w \in hosts[h].waiting \ H.waiting : SameGeneration(j, w)
      BY <2>3 DEF HeapsAdvance
    <3>2. i = w
      BY <1>2, <1>7, <2>1, <3>1 DEF HeapsDistinct, SameGeneration
    <3> QED BY <3>1, <3>2
  <2> QED BY <2>2, <2>3
<1> QED BY <1>3, <1>4, <1>5, <1>6, <1>7 DEF HeapsKnown, HeapsDistinct

\* The heaps as they are advance to themselves.
LEMMA SameHeapsAdvance ==
  ASSUME TypeOK, HeapsSound, NEW h \in Host
  PROVE  HeapsAdvance(h, hosts[h])
BY DEF TypeOK, HeapsSound, HeapsKnown, HeapsAdvance

\* Promotion moves due items to the ready heap, and stale ones nowhere.
LEMMA PromotedAdvance ==
  ASSUME TypeOK, HeapsSound, NEW h \in Host, NEW t \in Nat, t <= now
  PROVE  /\ HeapsAdvance(h, Promoted(hosts[h], t))
         /\ HeapsKeep(h, Promoted(hosts[h], t), Url)
         /\ Promoted(hosts[h], t).fetches = hosts[h].fetches
         /\ Promoted(hosts[h], t).admitted = hosts[h].admitted
<1> DEFINE H == hosts[h]
           due == {i \in H.waiting : i.at <= t}
           alive == {j \in due : Live(j)}
           item == [i \in alive |-> [url |-> i.url,
                                     priority |-> entries[i.url].priority,
                                     generation |-> i.generation]]
           P == [H EXCEPT !.waiting = H.waiting \ due,
                          !.ready = H.ready \cup {item[i] : i \in alive}]
<1>1. H \in HostState /\ HeapsKnown(h, H)
  BY DEF TypeOK, HeapsSound
<1>2. Promoted(hosts[h], t) = P
  BY DEF Promoted
<1>3. P.waiting = H.waiting \ due /\ P.ready = H.ready \cup {item[i] : i \in alive}
  BY <1>1 DEF HostState
<1>4. P.fetches = H.fetches /\ P.admitted = H.admitted
  BY <1>1 DEF HostState
<1>5. IsFiniteSet({item[i] : i \in alive})
  <2>1. IsFiniteSet(alive)
    BY <1>1, FS_Subset DEF HeapsKnown
  <2> HIDE DEF item, alive
  <2> QED BY <2>1, FiniteImage
<1>6. IsFiniteSet(P.ready)
  <2>1. IsFiniteSet(H.ready)
    BY <1>1 DEF HeapsKnown
  <2> HIDE DEF item, alive, P
  <2>2. IsFiniteSet(H.ready \cup {item[i] : i \in alive})
    BY <2>1, <1>5, FS_Union
  <2> QED BY <2>2, <1>3
<1>7. ASSUME NEW i \in alive
      PROVE  /\ item[i] \in ReadyItem
             /\ SameGeneration(item[i], i)
             /\ item[i].priority = entries[i.url].priority
  <2>1. i \in WaitingItem /\ i.url \in DOMAIN entries
    BY <1>1 DEF HostState, HeapsKnown
  <2>2. entries[i.url].priority \in Int
    BY <2>1 DEF TypeOK, Entry
  <2> QED BY <2>1, <2>2, ItemsAreRecords DEF ReadyItem, SameGeneration
<1>8. P \in HostState
  <2> DEFINE W == H.waiting \ due
             R == H.ready \cup {item[i] : i \in alive}
  <2>1. W \in SUBSET WaitingItem /\ R \in SUBSET ReadyItem
    BY <1>1, <1>7 DEF HostState
  <2> HIDE DEF W, R
  <2>2. [H EXCEPT !.waiting = W, !.ready = R] \in HostState
    BY <1>1, <2>1 DEF HostState
  <2> QED BY <2>2 DEF W, R
<1>9. ASSUME NEW i \in P.ready, i \notin H.ready
      PROVE  \E j \in H.waiting \ P.waiting :
               /\ SameGeneration(i, j)
               /\ i.priority = entries[j.url].priority
               /\ j.at <= now
  <2>1. PICK j \in alive : i = item[j]
    BY <1>3, <1>9
  <2>2. j \in H.waiting \ P.waiting
    BY <1>3
  <2>3. j.at <= now
    <3>1. j.at \in Nat /\ now \in Nat /\ j.at <= t
      BY <1>1, ItemsAreRecords DEF HostState, TypeOK
    <3> QED BY <3>1
  <2> QED BY <1>7, <2>1, <2>2, <2>3
<1>10. HeapsAdvance(h, P)
  <2> HIDE DEF P
  <2> QED BY <1>3, <1>6, <1>8, <1>9 DEF HeapsAdvance
<1>11. HeapsKeep(h, P, Url)
  <2> SUFFICES ASSUME NEW i \in H.waiting \cup H.ready, Live(i)
               PROVE  \E j \in P.waiting \cup P.ready : SameGeneration(j, i)
    BY DEF HeapsKeep
  <2>1. CASE i \in H.ready \/ i \notin due
    <3>1. i \in P.waiting \cup P.ready
      BY <1>3, <2>1
    <3> QED BY <3>1 DEF SameGeneration
  <2>2. CASE i \in due
    <3>1. i \in alive
      BY <2>2
    <3>2. item[i] \in P.ready
      BY <1>3, <3>1
    <3> QED BY <1>7, <3>1, <3>2
  <2> QED BY <2>1, <2>2
<1> HIDE DEF P
<1> QED BY <1>2, <1>4, <1>10, <1>11

\* Heaps that lose items have advanced as well.
LEMMA FewerItemsAdvance ==
  ASSUME NEW h \in Host, NEW H, HeapsAdvance(h, H), NEW R \in SUBSET H.ready
  PROVE  /\ HeapsAdvance(h, [H EXCEPT !.ready = R])
         /\ [H EXCEPT !.ready = R].fetches = H.fetches
         /\ [H EXCEPT !.ready = R].admitted = H.admitted
         /\ [H EXCEPT !.ready = R].ready = R
         /\ [H EXCEPT !.ready = R].waiting = H.waiting
<1>1. H \in HostState
  BY DEF HeapsAdvance
<1>2. [H EXCEPT !.ready = R] \in HostState
  BY <1>1 DEF HostState
<1>3. /\ [H EXCEPT !.ready = R].fetches = H.fetches
      /\ [H EXCEPT !.ready = R].admitted = H.admitted
      /\ [H EXCEPT !.ready = R].ready = R
      /\ [H EXCEPT !.ready = R].waiting = H.waiting
  BY <1>1 DEF HostState
<1>4. IsFiniteSet(R)
  BY FS_Subset DEF HeapsAdvance
<1> HIDE DEF HostState
<1> QED BY <1>2, <1>3, <1>4 DEF HeapsAdvance

\* Heaps that keep the live items of heaps that keep them.
LEMMA LiveItemsKept ==
  ASSUME NEW h \in Host, NEW H, NEW S, HeapsKeep(h, H, S), NEW G, NEW T \in SUBSET S,
         \A j \in H.waiting \cup H.ready :
           j.url \in T /\ Live(j) => j \in G.waiting \cup G.ready
  PROVE  HeapsKeep(h, G, T)
<1> SUFFICES ASSUME NEW i \in hosts[h].waiting \cup hosts[h].ready, i.url \in T, Live(i)
             PROVE  \E j \in G.waiting \cup G.ready : SameGeneration(j, i)
  BY DEF HeapsKeep
<1>1. PICK j \in H.waiting \cup H.ready : SameGeneration(j, i)
  BY DEF HeapsKeep
<1>2. j.url \in T /\ Live(j)
  BY <1>1 DEF SameGeneration, Live
<1> QED BY <1>1, <1>2

\* A scan of a host promotes and drops items and changes no counter.
LEMMA ScannedAdvance ==
  ASSUME TypeOK, HeapsSound, NEW h \in Host, NEW t \in Nat, t <= now
  PROVE  /\ HeapsAdvance(h, Scanned(h, t))
         /\ HeapsKeep(h, Scanned(h, t), Url)
         /\ Scanned(h, t).fetches = hosts[h].fetches
         /\ Scanned(h, t).admitted = hosts[h].admitted
<1> DEFINE P == Promoted(hosts[h], t)
           R == {i \in P.ready : \/ Live(i)
                                 \/ \E j \in P.ready : Live(j) /\ ReadyBefore(j, i)}
<1>1. Scanned(h, t) = [P EXCEPT !.ready = R]
  BY DEF Scanned, Peeked
<1>2. R \in SUBSET P.ready /\ \A j \in P.ready : Live(j) => j \in R
  OBVIOUS
<1> HIDE DEF R, P
<1>3. /\ HeapsAdvance(h, P) /\ HeapsKeep(h, P, Url)
      /\ P.fetches = hosts[h].fetches
      /\ P.admitted = hosts[h].admitted
  BY PromotedAdvance DEF P
<1> DEFINE Q == [P EXCEPT !.ready = R]
<1>4. /\ HeapsAdvance(h, Q) /\ Q.waiting = P.waiting /\ Q.ready = R
      /\ Q.fetches = P.fetches /\ Q.admitted = P.admitted
  BY <1>2, <1>3, FewerItemsAdvance
<1> HIDE DEF Q
<1>5. HeapsKeep(h, Q, Url)
  <2>1. \A j \in P.waiting \cup P.ready : Live(j) => j \in Q.waiting \cup Q.ready
    BY <1>2, <1>4
  <2> QED BY <1>3, <2>1, LiveItemsKept
<1> QED BY <1>1, <1>3, <1>4, <1>5 DEF Q

\* So does the pruning of the waiting heap.
LEMMA PrunedAdvance ==
  ASSUME TypeOK, HeapsSound, NEW h \in Host, NEW H, HeapsAdvance(h, H),
         HeapsKeep(h, H, Url)
  PROVE  /\ HeapsAdvance(h, Pruned(H))
         /\ HeapsKeep(h, Pruned(H), Url)
         /\ Pruned(H).fetches = H.fetches
         /\ Pruned(H).admitted = H.admitted
<1>1. CASE H.ready # {}
  BY <1>1 DEF Pruned
<1>2. CASE H.ready = {}
  <2>1. PICK W \in SUBSET H.waiting : /\ Pruned(H) = [H EXCEPT !.waiting = W]
                                      /\ \A i \in H.waiting : Live(i) => i \in W
    BY <1>2 DEF Pruned
  <2>2. H \in HostState
    BY DEF HeapsAdvance
  <2>3. [H EXCEPT !.waiting = W] \in HostState
    BY <2>2 DEF HostState
  <2>4. /\ [H EXCEPT !.waiting = W].fetches = H.fetches
        /\ [H EXCEPT !.waiting = W].admitted = H.admitted
        /\ [H EXCEPT !.waiting = W].ready = {}
        /\ [H EXCEPT !.waiting = W].waiting = W
    BY <1>2, <2>2 DEF HostState
  <2>5. HeapsKeep(h, [H EXCEPT !.waiting = W], Url)
    <3> DEFINE G == [H EXCEPT !.waiting = W]
    <3>1. \A j \in H.waiting \cup H.ready : Live(j) => j \in G.waiting \cup G.ready
      BY <1>2, <2>1, <2>4
    <3> HIDE DEF G
    <3>2. HeapsKeep(h, G, Url)
      BY <3>1, LiveItemsKept
    <3> QED BY <3>2 DEF G
  <2> QED BY <2>1, <2>3, <2>4, <2>5, FS_EmptySet DEF HeapsAdvance
<1> QED BY <1>1, <1>2

-----------------------------------------------------------------------------
(* Claims *)

\* In sound heaps the items of a ready heap are strictly and totally ordered.
LEMMA ReadyOrder ==
  ASSUME TypeOK, OrdersDistinct, NEW h \in Host, NEW H,
         H \in HostState, HeapsKnown(h, H), HeapsDistinct(H)
  PROVE  /\ \A i \in H.ready : ~ReadyBefore(i, i)
         /\ \A i, j, k \in H.ready :
              ReadyBefore(i, j) /\ ReadyBefore(j, k) => ReadyBefore(i, k)
         /\ \A i, j \in H.ready : i # j => ReadyBefore(i, j) \/ ReadyBefore(j, i)
<1>1. ASSUME NEW i \in H.ready
      PROVE  /\ i.url \in DOMAIN entries
             /\ i.priority \in Int
             /\ i.generation \in Nat
             /\ entries[i.url].order \in Nat
  <2>1. i.url \in DOMAIN entries /\ i \in ReadyItem
    BY DEF HeapsKnown, HostState
  <2> QED BY <2>1, ItemsAreRecords DEF TypeOK, Entry
<1>2. \A i, j \in H.ready :
        entries[i.url].order = entries[j.url].order /\ i.generation = j.generation => i = j
  BY <1>1 DEF OrdersDistinct, HeapsDistinct, SameGeneration
<1>3. \A i \in H.ready : ~ReadyBefore(i, i)
  BY <1>1 DEF ReadyBefore
<1>4. \A i, j, k \in H.ready :
        ReadyBefore(i, j) /\ ReadyBefore(j, k) => ReadyBefore(i, k)
  BY <1>1 DEF ReadyBefore
<1>5. \A i, j \in H.ready : i # j => ReadyBefore(i, j) \/ ReadyBefore(j, i)
  BY <1>1, <1>2 DEF ReadyBefore
<1> QED BY <1>3, <1>4, <1>5

\* The top of a ready heap is its first item.
LEMMA TopIsFirst ==
  ASSUME TypeOK, OrdersDistinct, NEW h \in Host, NEW H,
         H \in HostState, HeapsKnown(h, H), HeapsDistinct(H), H.ready # {}
  PROVE  /\ HeapTop(H.ready) \in H.ready
         /\ \A j \in H.ready \ {HeapTop(H.ready)} : ReadyBefore(HeapTop(H.ready), j)
<1> DEFINE S == H.ready
           R == {p \in S \X S : ReadyBefore(p[1], p[2])}
<1>1. /\ \A x \in S : <<x, x>> \notin R
      /\ \A x, y, z \in S : <<x, y>> \in R /\ <<y, z>> \in R => <<x, z>> \in R
      /\ \A x, y \in S : x # y => <<x, y>> \in R \/ <<y, x>> \in R
      /\ \A x, y \in S : <<x, y>> \in R => ReadyBefore(x, y)
  BY ReadyOrder
<1>2. IsFiniteSet(S) /\ S # {}
  BY DEF HeapsKnown
<1>3. \E x \in S : \A y \in S : <<y, x>> \notin R
  <2> HIDE DEF R, S
  <2> QED BY <1>1, <1>2, FiniteMinimum
<1>4. \E x \in S : \A y \in S \ {x} : ReadyBefore(x, y)
  <2> HIDE DEF R, S
  <2> QED BY <1>1, <1>3
<1> QED BY <1>4 DEF HeapTop

\* What a scan leaves on top of a ready heap is the item of a pending URL.
LEMMA ScannedTop ==
  ASSUME FrontierInv, NEW h \in Host, NEW t \in Nat, t <= now, Scanned(h, t).ready # {},
         NEW top, top = HeapTop(Scanned(h, t).ready)
  PROVE  /\ top \in Scanned(h, t).ready /\ Live(top)
         /\ top.priority \in Int
         /\ top.url \in Pending
         /\ Info[top.url].host = h
         /\ \A j \in Scanned(h, t).ready \ {top} : ReadyBefore(top, j)
<1> DEFINE H == Scanned(h, t)
           P == Promoted(hosts[h], t)
<1> USE DEF FrontierInv
<1>1. HeapsAdvance(h, H) /\ HeapsAdvance(h, P)
  BY ScannedAdvance, PromotedAdvance
<1>2. /\ HeapsKnown(h, H) /\ HeapsDistinct(H) /\ H \in HostState
      /\ HeapsKnown(h, P) /\ HeapsDistinct(P) /\ P \in HostState
  BY <1>1, AdvancedHeaps DEF HeapsAdvance
<1>3. H.ready = {i \in P.ready : \/ Live(i)
                                 \/ \E j \in P.ready : Live(j) /\ ReadyBefore(j, i)}
  <2> HIDE DEF P
  <2>1. H = Peeked(P)
    BY DEF Scanned, P
  <2> QED BY <1>2, <2>1 DEF Peeked, HostState
<1> HIDE DEF H, P
<1>4. top \in H.ready /\ \A j \in H.ready \ {top} : ReadyBefore(top, j)
  BY <1>2, TopIsFirst DEF H
<1>5. Live(top)
  <2> SUFFICES ASSUME ~Live(top) PROVE FALSE
    OBVIOUS
  <2>1. PICK j \in P.ready : Live(j) /\ ReadyBefore(j, top)
    BY <1>3, <1>4
  <2>2. j \in H.ready \ {top}
    BY <1>3, <2>1
  <2>3. ReadyBefore(top, j)
    BY <1>4, <2>2
  <2> QED BY <1>2, <1>4, <2>1, <2>2, <2>3, ReadyOrder
<1>6. top.url \in DOMAIN entries /\ Info[top.url].host = h /\ top \in ReadyItem
  BY <1>2, <1>4 DEF HeapsKnown, HostState
<1>7. top.url \in Pending
  BY <1>5, <1>6 DEF Live, Pending
<1> QED BY <1>4, <1>5, <1>6, <1>7, ItemsAreRecords DEF H

\* The candidates are finitely many hosts.
LEMMA CandidatesFinite ==
  ASSUME FrontierInv
  PROVE  IsFiniteSet(Candidates(now)) /\ Candidates(now) \subseteq Host
<1> DEFINE hostOf == [u \in Url |-> Info[u].host]
<1>1. IsFiniteSet({hostOf[u] : u \in Url})
  <2> HIDE DEF hostOf
  <2> QED BY FiniteImage, DataAssumption
<1>2. ASSUME NEW h \in Candidates(now) PROVE h \in {hostOf[u] : u \in Url}
  <2>1. h \in Host /\ Scanned(h, now).ready # {} /\ now \in Nat
    BY DEF Candidates, FrontierInv, TypeOK
  <2>2. PICK u \in Pending : Info[u].host = h
    BY <2>1, ScannedTop
  <2> QED BY <2>2 DEF Pending, FrontierInv, TypeOK
<1>3. Candidates(now) \in SUBSET {hostOf[u] : u \in Url}
  BY <1>2
<1> QED BY <1>1, <1>3, FS_Subset DEF Candidates

\* The selected host is a candidate, and comes before every other.
LEMMA SelectedIsFirst ==
  ASSUME FrontierInv, Candidates(now) # {}
  PROVE  /\ SelectedHost \in Candidates(now)
         /\ \A g \in Candidates(now) \ {SelectedHost} : ServedBefore(SelectedHost, g)
<1> DEFINE C == Candidates(now)
           prio(h) == HeapTop(Scanned(h, now).ready).priority
           R == {p \in C \X C : ServedBefore(p[1], p[2])}
<1>1. ASSUME NEW h \in C
      PROVE  /\ prio(h) \in Int
             /\ hosts[h].lastServed \in Int
             /\ HostRank[h] \in Nat
  <2>1. h \in Host /\ Scanned(h, now).ready # {} /\ now \in Nat /\ hosts[h] \in HostState
    BY DEF Candidates, FrontierInv, TypeOK
  <2>2. prio(h) \in Int
    BY <2>1, ScannedTop
  <2> QED BY <2>1, <2>2, DataAssumption DEF HostState
<1>2. \A g, h \in C : HostRank[g] = HostRank[h] => g = h
  BY CandidatesFinite, DataAssumption
<1>3. \A g, h \in C : ServedBefore(g, h) <=>
        \/ hosts[g].lastServed < hosts[h].lastServed
        \/ /\ hosts[g].lastServed = hosts[h].lastServed
           /\ prio(g) > prio(h) \/ (prio(g) = prio(h) /\ HostRank[g] < HostRank[h])
  BY DEF ServedBefore
<1> HIDE DEF prio
<1>4. /\ \A x \in C : <<x, x>> \notin R
      /\ \A x, y, z \in C : <<x, y>> \in R /\ <<y, z>> \in R => <<x, z>> \in R
      /\ \A x, y \in C : x # y => <<x, y>> \in R \/ <<y, x>> \in R
      /\ \A x, y \in C : <<x, y>> \in R => ServedBefore(x, y)
  <2> HIDE DEF C
  <2> QED BY <1>1, <1>2, <1>3
<1>5. IsFiniteSet(C) /\ C # {}
  BY CandidatesFinite
<1> HIDE DEF R, C
<1>6. \E x \in C : \A y \in C : <<y, x>> \notin R
  BY <1>4, <1>5, FiniteMinimum
<1>7. \E x \in C : \A y \in C \ {x} : ServedBefore(x, y)
  BY <1>4, <1>6
<1> QED BY <1>7 DEF SelectedHost, C

-----------------------------------------------------------------------------
(* Steps *)

\* What a step that admits and re-queues nothing may do to a record.
RecordAdvances(e, f) ==
  /\ f \in Entry
  /\ f.generation >= e.generation
  /\ f.order = e.order
  /\ f.depth = e.depth
  /\ f.attempts <= Config.maxAttemptsPerUrl
  /\ f.state \in PendingStates => f.attempts < Config.maxAttemptsPerUrl
  /\ f.state = "IN_FLIGHT" => f.attempts >= 1
  /\ f.state \in PendingStates => f = e
  /\ LeaseAnswered(f)

\* The same for a step that leases nothing.
RecordSettles(e, f) == RecordAdvances(e, f) /\ f.attempts = e.attempts

\* The records as they are, those of pending URLs terminated, and those of
\* leased URLs settled by the outcome of their lease.
LEMMA RecordsAdvance ==
  ASSUME FrontierInv, NEW u \in DOMAIN entries
  PROVE  /\ RecordSettles(entries[u], entries[u])
         /\ u \in Pending => \A r \in TerminalReasons :
              RecordSettles(entries[u], Terminated(entries[u], r))
         /\ u \in InFlight => \A r \in TerminalReasons :
              RecordSettles(entries[u], Settled(entries[u], entries[u].attempts, r))
<1>1. entries[u] \in Entry
  BY DEF FrontierInv, TypeOK
<1>2. /\ entries[u].attempts <= Config.maxAttemptsPerUrl
      /\ entries[u].state \in PendingStates =>
           entries[u].attempts < Config.maxAttemptsPerUrl
      /\ entries[u].state = "IN_FLIGHT" => entries[u].attempts >= 1
      /\ LeaseAnswered(entries[u])
  BY DEF FrontierInv, WithinBudgets, Pending, InFlightAttempted, InFlight, LeasesAnswered
<1>3. /\ entries[u].generation \in Nat /\ entries[u].order \in Nat
      /\ entries[u].depth \in Nat /\ entries[u].attempts \in Nat
      /\ entries[u].answered \in Nat
  BY <1>1 DEF Entry
<1>4. RecordSettles(entries[u], entries[u])
  BY <1>1, <1>2, <1>3 DEF RecordSettles, RecordAdvances
<1>5. ASSUME NEW f \in Entry, f.state = "TERMINAL",
             f.generation = entries[u].generation + 1,
             f.attempts = entries[u].attempts, f.order = entries[u].order,
             f.depth = entries[u].depth, f.answered = entries[u].attempts
      PROVE  RecordSettles(entries[u], f)
  BY <1>2, <1>3, <1>5 DEF RecordSettles, RecordAdvances, PendingStates, LeaseAnswered
<1>6. ASSUME u \in Pending, NEW r \in TerminalReasons
      PROVE  RecordSettles(entries[u], Terminated(entries[u], r))
  <2> DEFINE f == Terminated(entries[u], r)
  <2>1. /\ f \in Entry /\ f.state = "TERMINAL"
        /\ f.generation = entries[u].generation + 1
        /\ f.attempts = entries[u].attempts
        /\ f.order = entries[u].order
        /\ f.depth = entries[u].depth
        /\ f.answered = entries[u].answered
    BY <1>1, TerminatedRecord
  <2>2. entries[u].answered = entries[u].attempts
    BY <1>2, <1>3, <1>6 DEF LeaseAnswered, Pending, PendingStates
  <2> HIDE DEF f
  <2>3. RecordSettles(entries[u], f)
    BY <1>5, <2>1, <2>2
  <2> QED BY <2>3 DEF f
<1>7. ASSUME u \in InFlight, NEW r \in TerminalReasons
      PROVE  RecordSettles(entries[u], Settled(entries[u], entries[u].attempts, r))
  <2> DEFINE e == entries[u]
             n == e.attempts
             f == Settled(e, n, r)
  <2>0. e \in Entry /\ n \in Nat
    BY <1>1, <1>3
  <2> HIDE DEF e, n
  <2>1. /\ f \in Entry /\ f.state = "TERMINAL"
        /\ f.generation = e.generation + 1
        /\ f.attempts = e.attempts
        /\ f.order = e.order
        /\ f.depth = e.depth
        /\ f.answered = n
    BY <1>7, <2>0, SettledRecord
  <2> HIDE DEF f
  <2>2. RecordSettles(entries[u], f)
    BY <1>5, <2>1 DEF e, n
  <2> QED BY <2>2 DEF e, n, f
<1> QED BY <1>4, <1>6, <1>7

\* A step that admits and re-queues nothing, and stays within the fetch
\* budgets, preserves the invariant.
LEMMA QuietStep ==
  ASSUME FrontierInv,
         hosts' \in [Host -> HostState],
         \A h \in Host : /\ HeapsAdvance(h, hosts'[h])
                         /\ HeapsKeep(h, hosts'[h], Pending')
                         /\ hosts'[h].admitted = hosts[h].admitted
                         /\ hosts'[h].fetches <= HostFetchLimit,
         DOMAIN entries' = DOMAIN entries,
         \A u \in DOMAIN entries : RecordAdvances(entries[u], entries'[u]),
         admitted' = admitted,
         claimed' \in Nat, claimed' <= GlobalFetchLimit,
         now' \in Nat, now' >= now,
         CountersExact'
  PROVE  FrontierInv'
<1> USE DEF FrontierInv
<1>1. TypeOK'
  BY DEF TypeOK, RecordAdvances
<1>2. ASSUME NEW u \in DOMAIN entries
      PROVE  entries[u].generation \in Nat /\ entries'[u].generation \in Nat
  BY DEF TypeOK, RecordAdvances, Entry
<1>3. HeapsSound'
  <2> SUFFICES ASSUME NEW h \in Host
               PROVE  HeapsKnown(h, hosts[h])' /\ HeapsDistinct(hosts[h])'
    BY DEF HeapsSound
  <2>1. HeapsKnown(h, hosts'[h]) /\ HeapsDistinct(hosts'[h])
    BY AdvancedHeaps
  <2>2. HeapsKnown(h, hosts[h])'
    <3>1. IsFiniteSet(hosts'[h].waiting) /\ IsFiniteSet(hosts'[h].ready)
      BY <2>1 DEF HeapsKnown
    <3>2. ASSUME NEW i \in hosts'[h].waiting \cup hosts'[h].ready
          PROVE  /\ i.url \in DOMAIN entries'
                 /\ Info[i.url].host = h
                 /\ i.generation <= entries'[i.url].generation
      <4>1. /\ i.url \in DOMAIN entries /\ Info[i.url].host = h
            /\ i.generation <= entries[i.url].generation
        BY <2>1 DEF HeapsKnown
      <4>2. i.generation \in Nat
        BY <1>1, ItemsAreRecords DEF TypeOK, HostState
      <4>3. entries'[i.url].generation >= entries[i.url].generation
        BY <4>1 DEF RecordAdvances
      <4> QED BY <1>2, <4>1, <4>2, <4>3
    <3> QED BY <3>1, <3>2 DEF HeapsKnown
  <2>3. HeapsDistinct(hosts[h])'
    BY <2>1 DEF HeapsDistinct
  <2> QED BY <2>2, <2>3
<1>4. OrdersDistinct'
  BY DEF OrdersDistinct, RecordAdvances
<1>5. InFlightAttempted' /\ LeasesAnswered'
  BY DEF InFlightAttempted, InFlight, RecordAdvances, LeasesAnswered
<1>6. WithinBudgets'
  BY DEF WithinBudgets, Pending, RecordAdvances
<1>7. \A u \in Pending' : u \in Pending /\ entries'[u] = entries[u]
  BY DEF Pending, RecordAdvances
<1>8. HeapsComplete'
  <2> SUFFICES ASSUME NEW h \in Host PROVE HeapsIndex(h, hosts[h])'
    BY DEF HeapsComplete
  <2>1. HeapsIndex(h, hosts[h]) /\ HeapsAdvance(h, hosts'[h]) /\ HeapsKeep(h, hosts'[h], Pending')
    BY DEF HeapsComplete
  <2>2. \A i \in hosts'[h].waiting \cup hosts'[h].ready :
          Live(i)' => i.url \in Pending' /\ Live(i) /\ entries'[i.url] = entries[i.url]
    <3> SUFFICES ASSUME NEW i \in hosts'[h].waiting \cup hosts'[h].ready, Live(i)'
                 PROVE  i.url \in Pending' /\ Live(i) /\ entries'[i.url] = entries[i.url]
      OBVIOUS
    <3>1. i.url \in DOMAIN entries'
      BY <1>3 DEF HeapsSound, HeapsKnown
    <3>2. i.url \in Pending'
      BY <3>1 DEF Live, Pending
    <3> QED BY <1>7, <3>2 DEF Live
  <2>3. ASSUME NEW u \in Pending', Info[u].host = h
        PROVE  \E i \in hosts'[h].waiting \cup hosts'[h].ready : i.url = u /\ Live(i)'
    <3>1. u \in Pending /\ entries'[u] = entries[u]
      BY <1>7
    <3>2. PICK i \in hosts[h].waiting \cup hosts[h].ready : i.url = u /\ Live(i)
      BY <2>1, <2>3, <3>1 DEF HeapsIndex
    <3>3. PICK j \in hosts'[h].waiting \cup hosts'[h].ready : SameGeneration(j, i)
      BY <2>1, <3>2 DEF HeapsKeep
    <3> QED BY <3>1, <3>2, <3>3 DEF SameGeneration, Live
  <2>4. ASSUME NEW i \in hosts'[h].waiting, Live(i)'
        PROVE  i.at = entries'[i.url].readyAt
    <3>1. i \in hosts[h].waiting
      BY <2>1 DEF HeapsAdvance
    <3> QED BY <2>1, <2>2, <2>4, <3>1 DEF HeapsIndex
  <2>5. ASSUME NEW i \in hosts'[h].ready, Live(i)'
        PROVE  /\ i.priority = entries'[i.url].priority
               /\ entries'[i.url].readyAt <= now'
    <3>1. Live(i) /\ entries'[i.url] = entries[i.url] /\ i.url \in DOMAIN entries
      BY <1>7, <2>2, <2>5 DEF Pending
    <3>2. i.priority = entries[i.url].priority /\ entries[i.url].readyAt <= now
      <4>1. CASE i \in hosts[h].ready
        BY <2>1, <3>1, <4>1 DEF HeapsIndex
      <4>2. CASE i \notin hosts[h].ready
        <5>1. PICK j \in hosts[h].waiting : /\ SameGeneration(i, j)
                                            /\ i.priority = entries[j.url].priority
                                            /\ j.at <= now
          BY <2>1, <4>2 DEF HeapsAdvance
        <5> QED BY <2>1, <3>1, <5>1 DEF HeapsIndex, SameGeneration, Live
      <4> QED BY <4>1, <4>2
    <3>3. entries[i.url].readyAt \in Nat /\ now \in Nat
      BY <3>1 DEF TypeOK, Entry
    <3> QED BY <3>1, <3>2, <3>3
  <2> QED BY <2>3, <2>4, <2>5 DEF HeapsIndex
<1> QED BY <1>1, <1>3, <1>4, <1>5, <1>6, <1>8

-----------------------------------------------------------------------------
(* The counters *)

\* What the counters add up: finitely many URLs, and natural numbers.
LEMMA AttemptsAreNat ==
  ASSUME TypeOK
  PROVE  /\ IsFiniteSet(DOMAIN entries)
         /\ \A h : IsFiniteSet(OnHost(DOMAIN entries, h))
         /\ \A u \in DOMAIN entries : /\ Attempts[u] = entries[u].attempts
                                      /\ entries[u].attempts \in Nat
<1>1. IsFiniteSet(DOMAIN entries)
  BY DataAssumption, FS_Subset DEF TypeOK
<1>2. \A h : IsFiniteSet(OnHost(DOMAIN entries, h))
  BY <1>1, FS_Subset DEF OnHost
<1> QED BY <1>1, <1>2 DEF Attempts, TypeOK, Entry

\* They stay exact when no URL is admitted or attempted.
LEMMA CountersKept ==
  ASSUME FrontierInv,
         DOMAIN entries' = DOMAIN entries,
         \A u \in DOMAIN entries : entries'[u].attempts = entries[u].attempts,
         \A h \in Host : /\ hosts'[h].admitted = hosts[h].admitted
                         /\ hosts'[h].fetches = hosts[h].fetches,
         admitted' = admitted, claimed' = claimed
  PROVE  CountersExact'
<1>1. Attempts' = Attempts
  BY DEF Attempts
<1> QED BY <1>1 DEF FrontierInv, CountersExact, AttemptsOf

\* When u is attempted, its host's count and the count of all fetches move.
LEMMA CountersLeased ==
  ASSUME FrontierInv, NEW u \in DOMAIN entries,
         DOMAIN entries' = DOMAIN entries,
         entries'[u].attempts = entries[u].attempts + 1,
         \A v \in DOMAIN entries \ {u} : entries'[v].attempts = entries[v].attempts,
         \A h \in Host : /\ hosts'[h].admitted = hosts[h].admitted
                         /\ h # Info[u].host => hosts'[h].fetches = hosts[h].fetches,
         hosts'[Info[u].host].fetches = hosts[Info[u].host].fetches + 1,
         admitted' = admitted, claimed' = claimed + 1
  PROVE  CountersExact'
<1>1. /\ IsFiniteSet(DOMAIN entries) /\ \A h : IsFiniteSet(OnHost(DOMAIN entries, h))
      /\ \A v \in DOMAIN entries : /\ Attempts[v] = entries[v].attempts
                                   /\ Attempts[v] \in Nat
      /\ CountersExact
  BY AttemptsAreNat DEF FrontierInv
<1>2. \A v \in DOMAIN entries : /\ Attempts'[v] = entries'[v].attempts
                                /\ Attempts'[v] = IF v = u THEN Attempts[v] + 1 ELSE Attempts[v]
                                /\ Attempts'[v] \in Nat
  BY <1>1 DEF Attempts
<1> DEFINE f == Attempts
           g == Attempts'
<1>3. ASSUME NEW S \in SUBSET DOMAIN entries, IsFiniteSet(S)
      PROVE  /\ u \in S => SumFunctionOnSet(g, S) = SumFunctionOnSet(f, S) + 1
             /\ u \notin S => SumFunctionOnSet(g, S) = SumFunctionOnSet(f, S)
  <2>1. \A v \in DOMAIN entries : /\ f[v] \in Nat
                                  /\ g[v] = IF v = u THEN f[v] + 1 ELSE f[v]
    BY <1>1, <1>2
  <2> HIDE DEF f, g
  <2>2. CASE u \in S
    <3>1. \A v \in S : f[v] \in Int /\ g[v] \in Int
      BY <2>1
    <3>2. \A v \in S \ {u} : f[v] = g[v]
      BY <2>1
    <3>3. g[u] - f[u] = 1
      BY <2>1
    <3> QED BY <1>3, <2>2, <3>1, <3>2, <3>3, SumChange
  <2>3. CASE u \notin S
    <3>1. \A v \in S : f[v] = g[v]
      BY <2>1, <2>3
    <3> QED BY <1>3, <2>3, <3>1, SumSame
  <2> QED BY <2>2, <2>3
<1>4. AttemptsOf(DOMAIN entries)' = AttemptsOf(DOMAIN entries) + 1
  BY <1>1, <1>3 DEF AttemptsOf
<1>5. ASSUME NEW h \in Host
      PROVE  /\ h = Info[u].host =>
                  AttemptsOf(OnHost(DOMAIN entries, h))' = AttemptsOf(OnHost(DOMAIN entries, h)) + 1
             /\ h # Info[u].host =>
                  AttemptsOf(OnHost(DOMAIN entries, h))' = AttemptsOf(OnHost(DOMAIN entries, h))
  <2> DEFINE S == OnHost(DOMAIN entries, h)
  <2>1. /\ S \in SUBSET DOMAIN entries /\ IsFiniteSet(S)
        /\ u \in S <=> h = Info[u].host
    BY <1>1 DEF OnHost
  <2>2. S' = S
    BY DEF OnHost
  <2> HIDE DEF S
  <2>3. /\ u \in S => SumFunctionOnSet(g, S) = SumFunctionOnSet(f, S) + 1
        /\ u \notin S => SumFunctionOnSet(g, S) = SumFunctionOnSet(f, S)
    BY <1>3, <2>1
  <2>4. AttemptsOf(S)' = SumFunctionOnSet(g, S) /\ AttemptsOf(S) = SumFunctionOnSet(f, S)
    BY <2>2 DEF AttemptsOf
  <2>5. /\ h = Info[u].host => AttemptsOf(S)' = AttemptsOf(S) + 1
        /\ h # Info[u].host => AttemptsOf(S)' = AttemptsOf(S)
    BY <2>1, <2>3, <2>4
  <2> QED BY <2>5 DEF S
<1>6. ASSUME NEW h \in Host
      PROVE  /\ hosts'[h].admitted = Cardinality(OnHost(DOMAIN entries', h))
             /\ hosts'[h].fetches = AttemptsOf(OnHost(DOMAIN entries, h))'
  BY <1>1, <1>5, <1>6 DEF CountersExact
<1> QED BY <1>1, <1>4, <1>6 DEF CountersExact

\* A new URL is counted, and has not been attempted.
LEMMA CountersAdmitted ==
  ASSUME FrontierInv, NEW u \in Url, u \notin DOMAIN entries,
         DOMAIN entries' = DOMAIN entries \cup {u},
         entries'[u].attempts = 0,
         \A v \in DOMAIN entries : entries'[v].attempts = entries[v].attempts,
         \A h \in Host : /\ hosts'[h].fetches = hosts[h].fetches
                         /\ h # Info[u].host => hosts'[h].admitted = hosts[h].admitted,
         hosts'[Info[u].host].admitted = hosts[Info[u].host].admitted + 1,
         admitted' = admitted + 1, claimed' = claimed
  PROVE  CountersExact'
<1>1. /\ IsFiniteSet(DOMAIN entries) /\ \A h : IsFiniteSet(OnHost(DOMAIN entries, h))
      /\ \A v \in DOMAIN entries : /\ Attempts[v] = entries[v].attempts
                                   /\ Attempts[v] \in Nat
      /\ CountersExact
  BY AttemptsAreNat DEF FrontierInv
<1>2. Attempts'[u] = 0 /\ \A v \in DOMAIN entries : Attempts'[v] = Attempts[v]
  BY <1>1 DEF Attempts
<1> DEFINE f == Attempts
           g == Attempts'
<1>3. ASSUME NEW S \in SUBSET DOMAIN entries, IsFiniteSet(S)
      PROVE  /\ SumFunctionOnSet(g, S) = SumFunctionOnSet(f, S)
             /\ SumFunctionOnSet(g, S \cup {u}) = SumFunctionOnSet(f, S)
             /\ Cardinality(S \cup {u}) = Cardinality(S) + 1
  <2>1. /\ \A v \in S : f[v] = g[v]
        /\ \A v \in S \cup {u} : g[v] \in Int
        /\ g[u] = 0
    BY <1>1, <1>2
  <2> HIDE DEF f, g
  <2>2. u \notin S
    OBVIOUS
  <2>3. /\ SumFunctionOnSet(g, S) \in Int
        /\ SumFunctionOnSet(g, S \cup {u}) = SumFunctionOnSet(g, S) + g[u]
    BY <1>3, <2>1, <2>2, SumAdd
  <2>4. SumFunctionOnSet(f, S) = SumFunctionOnSet(g, S)
    BY <1>3, <2>1, SumSame
  <2>5. SumFunctionOnSet(g, S \cup {u}) = SumFunctionOnSet(g, S)
    BY <2>1, <2>3
  <2>6. Cardinality(S \cup {u}) = Cardinality(S) + 1
    BY <1>3, <2>2, FS_AddElement
  <2> QED BY <2>4, <2>5, <2>6
<1>4. /\ AttemptsOf(DOMAIN entries)' = AttemptsOf(DOMAIN entries)
      /\ Cardinality(DOMAIN entries') = Cardinality(DOMAIN entries) + 1
  BY <1>1, <1>3 DEF AttemptsOf
<1>5. ASSUME NEW h \in Host
      PROVE  /\ AttemptsOf(OnHost(DOMAIN entries, h))' = AttemptsOf(OnHost(DOMAIN entries, h))
             /\ Cardinality(OnHost(DOMAIN entries', h)) =
                  IF h = Info[u].host THEN Cardinality(OnHost(DOMAIN entries, h)) + 1
                  ELSE Cardinality(OnHost(DOMAIN entries, h))
  <2> DEFINE S == OnHost(DOMAIN entries, h)
  <2>1. /\ S \in SUBSET DOMAIN entries /\ IsFiniteSet(S)
        /\ S' = IF h = Info[u].host THEN S \cup {u} ELSE S
        /\ S' = OnHost(DOMAIN entries', h)
    BY <1>1 DEF OnHost
  <2> HIDE DEF S
  <2>2. /\ SumFunctionOnSet(g, S) = SumFunctionOnSet(f, S)
        /\ SumFunctionOnSet(g, S \cup {u}) = SumFunctionOnSet(f, S)
        /\ Cardinality(S \cup {u}) = Cardinality(S) + 1
    BY <1>3, <2>1
  <2>3. AttemptsOf(S)' = SumFunctionOnSet(g, S') /\ AttemptsOf(S) = SumFunctionOnSet(f, S)
    BY DEF AttemptsOf
  <2>4. /\ AttemptsOf(S)' = AttemptsOf(S)
        /\ Cardinality(S') = IF h = Info[u].host THEN Cardinality(S) + 1 ELSE Cardinality(S)
    BY <2>1, <2>2, <2>3
  <2> QED BY <2>1, <2>4 DEF S
<1>6. ASSUME NEW h \in Host
      PROVE  /\ hosts'[h].admitted = Cardinality(OnHost(DOMAIN entries', h))
             /\ hosts'[h].fetches = AttemptsOf(OnHost(DOMAIN entries, h))'
  BY <1>1, <1>5, <1>6 DEF CountersExact
<1> QED BY <1>1, <1>4, <1>6 DEF CountersExact
-----------------------------------------------------------------------------
(* Steps of a claim, an outcome, a cancellation *)

\* Terminating pending records preserves the invariant.
LEMMA PendingTerminatedRecords ==
  ASSUME FrontierInv, NEW H, NEW reason \in TerminalReasons
  PROVE  /\ DOMAIN PendingTerminated(H, reason) = DOMAIN entries
         /\ \A u \in DOMAIN entries :
              RecordSettles(entries[u], PendingTerminated(H, reason)[u])
BY RecordsAdvance DEF PendingTerminated

\* When hosts and claims do not change, only the records matter.
LEMMA TerminationStep ==
  ASSUME FrontierInv,
         DOMAIN entries' = DOMAIN entries,
         \A u \in DOMAIN entries : RecordSettles(entries[u], entries'[u]),
         UNCHANGED <<hosts, admitted, claimed>>,
         now' \in Nat, now' >= now
  PROVE  FrontierInv'
<1>1. \A h \in Host : /\ HeapsAdvance(h, hosts'[h])
                      /\ HeapsKeep(h, hosts'[h], Pending')
                      /\ hosts'[h].admitted = hosts[h].admitted
                      /\ hosts'[h].fetches <= HostFetchLimit
  BY SameHeapsAdvance DEF FrontierInv, WithinBudgets, HeapsKeep, SameGeneration
<1>2. /\ hosts' \in [Host -> HostState] /\ claimed' \in Nat
      /\ claimed' <= GlobalFetchLimit /\ admitted' = admitted
  BY DEF FrontierInv, TypeOK, WithinBudgets
<1>3. CountersExact'
  BY CountersKept DEF RecordSettles
<1> QED BY <1>1, <1>2, <1>3, QuietStep DEF RecordSettles

\* A cancellation of the job's queue preserves the invariant.
LEMMA CancelPendingStep ==
  ASSUME FrontierInv, CancelPending, UNCHANGED now
  PROVE  FrontierInv'
<1>1. "CANCELLED" \in TerminalReasons
  BY DEF TerminalReasons, FailureReasons
<1>2. /\ DOMAIN entries' = DOMAIN entries
      /\ \A u \in DOMAIN entries : RecordSettles(entries[u], entries'[u])
  BY <1>1, PendingTerminatedRecords DEF CancelPending
<1> QED BY <1>2, TerminationStep DEF CancelPending, FrontierInv, TypeOK

\* So does a claim over the global fetch budget.
LEMMA ClaimOverBudgetStep ==
  ASSUME FrontierInv, ClaimOverBudget, UNCHANGED now
  PROVE  FrontierInv'
<1>1. "GLOBAL_FETCH_BUDGET" \in TerminalReasons
  BY DEF TerminalReasons
<1>2. /\ DOMAIN entries' = DOMAIN entries
      /\ \A u \in DOMAIN entries : RecordSettles(entries[u], entries'[u])
  BY <1>1, PendingTerminatedRecords DEF ClaimOverBudget
<1> QED BY <1>2, TerminationStep DEF ClaimOverBudget, FrontierInv, TypeOK

\* An outcome that settles a URL preserves the invariant.
LEMMA FinishStep ==
  ASSUME FrontierInv, NEW u, NEW attempt, NEW reason \in TerminalReasons,
         Holds(u, attempt), Finish(u, attempt, reason), UNCHANGED now
  PROVE  FrontierInv'
<1>1. /\ DOMAIN entries' = DOMAIN entries
      /\ \A v \in DOMAIN entries : RecordSettles(entries[v], entries'[v])
  BY RecordsAdvance DEF Finish, Holds
<1> QED BY <1>1, TerminationStep DEF Finish, FrontierInv, TypeOK

\* The pass over the hosts that every claim makes.
LEMMA ScannedHostsAdvance ==
  ASSUME FrontierInv
  PROVE  /\ ScannedHosts \in [Host -> HostState]
         /\ \A h \in Host : /\ HeapsAdvance(h, ScannedHosts[h])
                            /\ HeapsKeep(h, ScannedHosts[h], Url)
                            /\ ScannedHosts[h].admitted = hosts[h].admitted
                            /\ ScannedHosts[h].fetches = hosts[h].fetches
<1> SUFFICES ASSUME NEW h \in Host
             PROVE  /\ HeapsAdvance(h, ScannedHosts[h])
                    /\ HeapsKeep(h, ScannedHosts[h], Url)
                    /\ ScannedHosts[h].admitted = hosts[h].admitted
                    /\ ScannedHosts[h].fetches = hosts[h].fetches
  BY DEF ScannedHosts, HeapsAdvance
<1>1. now \in Nat /\ TypeOK /\ HeapsSound
  BY DEF FrontierInv, TypeOK
<1>2. CASE Exhausted(h)
  BY <1>1, <1>2, SameHeapsAdvance DEF ScannedHosts, HeapsKeep, SameGeneration
<1>3. CASE ~Exhausted(h)
  BY <1>1, <1>3, ScannedAdvance DEF ScannedHosts
<1> QED BY <1>2, <1>3

\* Hosts out of budget are drained.
LEMMA DrainedRecords ==
  ASSUME FrontierInv
  PROVE  /\ DOMAIN DrainedEntries = DOMAIN entries
         /\ \A u \in DOMAIN entries : RecordSettles(entries[u], DrainedEntries[u])
<1>1. "HOST_FETCH_BUDGET" \in TerminalReasons
  BY DEF TerminalReasons
<1> QED BY <1>1, PendingTerminatedRecords DEF DrainedEntries

\* A claim that finds no work preserves the invariant.
LEMMA ClaimNothingStep ==
  ASSUME FrontierInv, ClaimNothing, UNCHANGED now
  PROVE  FrontierInv'
<1>1. hosts' = ScannedHosts /\ entries' = DrainedEntries
      /\ admitted' = admitted /\ claimed' = claimed /\ now' = now
  BY DEF ClaimNothing
<1>2. /\ hosts' \in [Host -> HostState]
      /\ \A h \in Host : /\ HeapsAdvance(h, hosts'[h])
                         /\ HeapsKeep(h, hosts'[h], Url)
                         /\ hosts'[h].admitted = hosts[h].admitted
                         /\ hosts'[h].fetches <= HostFetchLimit
                         /\ hosts'[h].fetches = hosts[h].fetches
  BY <1>1, ScannedHostsAdvance DEF FrontierInv, WithinBudgets
<1>3. /\ DOMAIN entries' = DOMAIN entries
      /\ \A u \in DOMAIN entries : RecordSettles(entries[u], entries'[u])
  BY <1>1, DrainedRecords
<1>5. \A h \in Host : HeapsKeep(h, hosts'[h], Pending')
  BY <1>2, <1>3 DEF HeapsKeep, Pending, FrontierInv, TypeOK
<1>4. /\ claimed' \in Nat /\ claimed' <= GlobalFetchLimit
      /\ now' \in Nat /\ now' >= now
  BY <1>1 DEF FrontierInv, TypeOK, WithinBudgets
<1>6. CountersExact'
  BY <1>1, <1>2, <1>3, CountersKept DEF RecordSettles
<1> QED BY <1>1, <1>2, <1>3, <1>4, <1>5, <1>6, QuietStep DEF RecordSettles

\* What a claim leases is a pending URL of a host within its fetch budget.
LEMMA LeasedUrl ==
  ASSUME FrontierInv, Candidates(now) # {},
         NEW h, h = SelectedHost,
         NEW top, top = HeapTop(Scanned(h, now).ready)
  PROVE  /\ h \in Host
         /\ ~Exhausted(h)
         /\ top.url \in Pending
         /\ Info[top.url].host = h
         /\ DrainedEntries[top.url] = entries[top.url]
<1>1. h \in Candidates(now)
  BY SelectedIsFirst
<1>2. h \in Host /\ ~Exhausted(h) /\ Scanned(h, now).ready # {} /\ now \in Nat
  BY <1>1 DEF Candidates, FrontierInv, TypeOK
<1>3. top.url \in Pending /\ Info[top.url].host = h
  BY <1>2, ScannedTop
<1>4. DrainedEntries[top.url] = entries[top.url]
  BY <1>2, <1>3 DEF DrainedEntries, PendingTerminated, Pending
<1> QED BY <1>2, <1>3, <1>4

\* The host's record after the lease.
LEMMA LeasedHostRecord ==
  ASSUME TypeOK, NEW h \in Host, NEW H, HeapsAdvance(h, H), HeapsKeep(h, H, Url), NEW top
  PROVE  /\ LeasedHost(H, top) \in HostState
         /\ HeapsKeep(h, LeasedHost(H, top), Url \ {top.url})
         /\ HeapsAdvance(h, LeasedHost(H, top))
         /\ LeasedHost(H, top).fetches = H.fetches + 1
         /\ LeasedHost(H, top).admitted = H.admitted
<1> DEFINE R == H.ready \ {top}
           n == H.fetches + 1
           t == LaterOf(H.nextAllowed, now + Config.hostDelay)
           L == [H EXCEPT !.ready = R, !.fetches = n, !.lastServed = claimed,
                          !.nextAllowed = t]
<1>1. H \in HostState
  BY DEF HeapsAdvance
<1>2. n \in Nat /\ t \in Nat /\ claimed \in Nat /\ R \in SUBSET ReadyItem
  BY <1>1, ConfigIsNat DEF HostState, TypeOK, LaterOf
<1>3. LeasedHost(H, top) = L
  BY DEF LeasedHost
<1>4. IsFiniteSet(R) /\ R \subseteq H.ready
  BY FS_Subset DEF HeapsAdvance
<1> HIDE DEF R, n, t
<1>5. L \in HostState
  BY <1>1, <1>2 DEF HostState
<1>6. L.waiting = H.waiting /\ L.ready = R /\ L.fetches = n /\ L.admitted = H.admitted
  BY <1>1 DEF HostState
<1> HIDE DEF L
<1>7. HeapsAdvance(h, L)
  BY <1>4, <1>5, <1>6 DEF HeapsAdvance
<1>8. HeapsKeep(h, L, Url \ {top.url})
  <2>1. \A j \in H.waiting \cup H.ready :
          j.url \in Url \ {top.url} => j \in L.waiting \cup L.ready
    BY <1>6 DEF R
  <2> QED BY <2>1, LiveItemsKept
<1> QED BY <1>3, <1>5, <1>6, <1>7, <1>8 DEF n

\* The URL's record after the lease.
LEMMA LeasedRecord ==
  ASSUME FrontierInv, NEW u \in Pending
  PROVE  RecordAdvances(entries[u], [entries[u] EXCEPT !.state = "IN_FLIGHT",
                                                       !.attempts = @ + 1])
<1> DEFINE e == entries[u]
           n == e.attempts + 1
<1>1. u \in DOMAIN entries /\ e.state \in PendingStates
  BY DEF Pending
<1>2. e \in Entry /\ e.attempts < Config.maxAttemptsPerUrl /\ LeaseAnswered(e)
  BY <1>1 DEF FrontierInv, TypeOK, WithinBudgets, LeasesAnswered
<1>3. e.attempts \in Nat /\ e.generation \in Nat /\ e.attempts = e.answered
      /\ e.answered \in Nat
  BY <1>1, <1>2 DEF Entry, LeaseAnswered, PendingStates
<1>4. n \in Nat /\ n >= 1 /\ n <= Config.maxAttemptsPerUrl /\ n = e.answered + 1
  BY <1>2, <1>3, ConfigIsNat
<1> HIDE DEF n, e
<1> DEFINE f == [e EXCEPT !.state = "IN_FLIGHT", !.attempts = n]
<1>5. f \in Entry
  BY <1>2, <1>4, LeaseType
<1>6. /\ f.state = "IN_FLIGHT" /\ f.attempts = n
      /\ f.generation = e.generation /\ f.order = e.order /\ f.depth = e.depth
      /\ f.answered = e.answered
  BY <1>2 DEF Entry
<1>7. RecordAdvances(e, f)
  <2> HIDE DEF f
  <2> QED BY <1>3, <1>4, <1>5, <1>6 DEF RecordAdvances, PendingStates, LeaseAnswered
<1> QED BY <1>7 DEF e, n

\* A claim that leases a URL preserves the invariant.
LEMMA ClaimLeaseStep ==
  ASSUME FrontierInv, ClaimLease, UNCHANGED now
  PROVE  FrontierInv'
<1> DEFINE h == SelectedHost
           top == HeapTop(Scanned(h, now).ready)
           u == top.url
<1>1. /\ h \in Host /\ ~Exhausted(h) /\ u \in Pending
      /\ Info[u].host = h /\ DrainedEntries[u] = entries[u]
  BY LeasedUrl DEF ClaimLease
<1>2. /\ entries' = [DrainedEntries EXCEPT ![u].state = "IN_FLIGHT",
                                           ![u].attempts = @ + 1]
      /\ hosts' = [ScannedHosts EXCEPT ![h] = LeasedHost(ScannedHosts[h], top)]
      /\ claimed' = claimed + 1 /\ claimed < GlobalFetchLimit
      /\ admitted' = admitted /\ now' = now
  BY DEF ClaimLease
<1>0. top.url = u
  OBVIOUS
<1> HIDE DEF h, top, u
<1>3. /\ DOMAIN entries' = DOMAIN entries
      /\ entries'[u] = [entries[u] EXCEPT !.state = "IN_FLIGHT", !.attempts = @ + 1]
      /\ \A v \in DOMAIN entries \ {u} : entries'[v] = DrainedEntries[v]
  <2>1. DOMAIN DrainedEntries = DOMAIN entries /\ u \in DOMAIN entries
    BY <1>1, DrainedRecords DEF Pending
  <2>2. DrainedEntries = [v \in DOMAIN entries |-> DrainedEntries[v]]
    BY <2>1 DEF DrainedEntries, PendingTerminated
  <2> QED BY <1>1, <1>2, <2>1, <2>2
<1>4. \A v \in DOMAIN entries : RecordAdvances(entries[v], entries'[v])
  BY <1>1, <1>3, LeasedRecord, DrainedRecords DEF RecordSettles
<1>5. /\ hosts' \in [Host -> HostState]
      /\ \A g \in Host : /\ HeapsAdvance(g, hosts'[g])
                         /\ HeapsKeep(g, hosts'[g], Pending')
                         /\ hosts'[g].admitted = hosts[g].admitted
                         /\ hosts'[g].fetches <= HostFetchLimit
                         /\ hosts'[g].fetches = IF g = h THEN hosts[g].fetches + 1
                                                ELSE hosts[g].fetches
  <2>1. /\ LeasedHost(ScannedHosts[h], top) \in HostState
        /\ HeapsKeep(h, LeasedHost(ScannedHosts[h], top), Url \ {u})
        /\ HeapsAdvance(h, LeasedHost(ScannedHosts[h], top))
        /\ LeasedHost(ScannedHosts[h], top).fetches = hosts[h].fetches + 1
        /\ LeasedHost(ScannedHosts[h], top).admitted = hosts[h].admitted
    <3> DEFINE S == ScannedHosts[h]
    <3>1. /\ HeapsAdvance(h, S) /\ HeapsKeep(h, S, Url) /\ TypeOK
          /\ S.fetches = hosts[h].fetches /\ S.admitted = hosts[h].admitted
      BY <1>1, ScannedHostsAdvance DEF FrontierInv
    <3> HIDE DEF S
    <3>2. /\ LeasedHost(S, top) \in HostState
          /\ HeapsKeep(h, LeasedHost(S, top), Url \ {top.url})
          /\ HeapsAdvance(h, LeasedHost(S, top))
          /\ LeasedHost(S, top).fetches = S.fetches + 1
          /\ LeasedHost(S, top).admitted = S.admitted
      BY <1>1, <3>1, LeasedHostRecord
    <3> QED BY <1>0, <3>1, <3>2 DEF S
  <2>2. hosts[h].fetches \in Nat /\ hosts[h].fetches + 1 <= HostFetchLimit
    BY <1>1, ConfigIsNat DEF Exhausted, FrontierInv, TypeOK, HostState
  <2>3. hosts' \in [Host -> HostState]
    BY <1>1, <1>2, <2>1, ScannedHostsAdvance
  <2>4. ASSUME NEW g \in Host
        PROVE  /\ HeapsAdvance(g, hosts'[g])
               /\ HeapsKeep(g, hosts'[g], Pending')
               /\ hosts'[g].admitted = hosts[g].admitted
               /\ hosts'[g].fetches <= HostFetchLimit
               /\ hosts'[g].fetches = IF g = h THEN hosts[g].fetches + 1
                                      ELSE hosts[g].fetches
    <3>0. Pending' \subseteq Url \ {u}
      <4>1. u \in DOMAIN entries /\ entries[u] \in Entry
        BY <1>1 DEF Pending, FrontierInv, TypeOK
      <4>2. entries'[u].state = "IN_FLIGHT"
        BY <1>3, <4>1 DEF Entry
      <4> QED BY <1>3, <4>2 DEF Pending, PendingStates, FrontierInv, TypeOK
    <3>1. CASE g = h
      BY <1>1, <1>2, <2>1, <2>2, <3>0, <3>1, ScannedHostsAdvance DEF HeapsKeep
    <3>2. CASE g # h
      BY <1>1, <1>2, <3>0, <3>2, ScannedHostsAdvance DEF FrontierInv, WithinBudgets, HeapsKeep
    <3> QED BY <3>1, <3>2
  <2> QED BY <2>3, <2>4
<1>6. /\ claimed' \in Nat /\ claimed' <= GlobalFetchLimit
      /\ now' \in Nat /\ now' >= now
  BY <1>2, ConfigIsNat DEF FrontierInv, TypeOK
<1>7. CountersExact'
  <2>1. u \in DOMAIN entries /\ Info[u].host = h
    BY <1>1 DEF Pending
  <2>2. entries'[u].attempts = entries[u].attempts + 1
    BY <1>3, <2>1 DEF FrontierInv, TypeOK, Entry
  <2>3. \A v \in DOMAIN entries \ {u} : entries'[v].attempts = entries[v].attempts
    BY <1>3, DrainedRecords DEF RecordSettles
  <2> QED BY <1>1, <1>2, <1>3, <1>5, <2>1, <2>2, <2>3, CountersLeased
<1> QED BY <1>2, <1>3, <1>4, <1>5, <1>6, <1>7, QuietStep

\* Asking for the next wake-up time preserves the invariant.
LEMMA NextWakeAtStep ==
  ASSUME FrontierInv, NextWakeAt, UNCHANGED now
  PROVE  FrontierInv'
<1>1. now \in Nat /\ TypeOK /\ HeapsSound
  BY DEF FrontierInv, TypeOK
<1>2. ASSUME NEW h \in Host
      PROVE  /\ HeapsAdvance(h, hosts'[h])
             /\ HeapsKeep(h, hosts'[h], Url)
             /\ hosts'[h].admitted = hosts[h].admitted
             /\ hosts'[h].fetches = hosts[h].fetches
  <2>1. /\ HeapsAdvance(h, Scanned(h, now))
        /\ HeapsKeep(h, Scanned(h, now), Url)
        /\ Scanned(h, now).fetches = hosts[h].fetches
        /\ Scanned(h, now).admitted = hosts[h].admitted
    BY <1>1, ScannedAdvance
  <2>2. hosts'[h] = Pruned(Scanned(h, now))
    BY DEF NextWakeAt
  <2> QED BY <1>1, <2>1, <2>2, PrunedAdvance
<1>3. hosts' \in [Host -> HostState]
  BY <1>2 DEF NextWakeAt, HeapsAdvance
<1>4. \A u \in DOMAIN entries : RecordSettles(entries[u], entries'[u])
  BY RecordsAdvance DEF NextWakeAt
<1>5. /\ \A h \in Host : hosts'[h].fetches <= HostFetchLimit
      /\ claimed' \in Nat /\ claimed' <= GlobalFetchLimit
      /\ now' \in Nat /\ now' >= now
      /\ admitted' = admitted /\ DOMAIN entries' = DOMAIN entries
  BY <1>2 DEF NextWakeAt, FrontierInv, TypeOK, WithinBudgets
<1>6. \A h \in Host : HeapsKeep(h, hosts'[h], Pending')
  BY <1>2, <1>5 DEF HeapsKeep, Pending, FrontierInv, TypeOK
<1>7. CountersExact'
  BY <1>2, <1>4, <1>5, CountersKept DEF RecordSettles, NextWakeAt
<1> QED BY <1>2, <1>3, <1>4, <1>5, <1>6, <1>7, QuietStep DEF RecordSettles

\* Every URL has its host.
LEMMA HostOfUrl == \A u \in Url : Info[u].host \in Host
BY DataAssumption DEF UrlInfo

\* What is pushed on a host's heap.
LEMMA PushedHost ==
  ASSUME NEW H \in HostState, NEW u \in Url, NEW e \in Entry
  PROVE  /\ Push(H, u, e) \in HostState
         /\ Push(H, u, e).waiting =
              H.waiting \cup {[url |-> u, at |-> e.readyAt, generation |-> e.generation]}
         /\ Push(H, u, e).ready = H.ready
         /\ Push(H, u, e).admitted = H.admitted
         /\ Push(H, u, e).fetches = H.fetches
<1> DEFINE W == H.waiting \cup {[url |-> u, at |-> e.readyAt, generation |-> e.generation]}
<1>1. [url |-> u, at |-> e.readyAt, generation |-> e.generation] \in WaitingItem
  BY DEF Entry, WaitingItem
<1>2. W \in SUBSET WaitingItem
  BY <1>1 DEF HostState
<1>3. Push(H, u, e) = [H EXCEPT !.waiting = W]
  BY DEF Push
<1> HIDE DEF W
<1>4. /\ [H EXCEPT !.waiting = W] \in HostState
      /\ [H EXCEPT !.waiting = W].waiting = W
      /\ [H EXCEPT !.waiting = W].ready = H.ready
      /\ [H EXCEPT !.waiting = W].admitted = H.admitted
      /\ [H EXCEPT !.waiting = W].fetches = H.fetches
  BY <1>2 DEF HostState
<1> QED BY <1>3, <1>4 DEF W

\* Pushing the item of a URL's new record leaves the heaps sound: nothing in
\* them is as new as the item.
LEMMA PushedHeaps ==
  ASSUME FrontierInv, NEW u \in Url, NEW e \in Entry, NEW H \in HostState,
         H.waiting = hosts[Info[u].host].waiting \cup
                       {[url |-> u, at |-> e.readyAt, generation |-> e.generation]},
         H.ready = hosts[Info[u].host].ready,
         u \in DOMAIN entries => e.generation = entries[u].generation + 1,
         hosts' = [hosts EXCEPT ![Info[u].host] = H],
         DOMAIN entries' = DOMAIN entries \cup {u},
         entries'[u] = e,
         \A v \in DOMAIN entries \ {u} : entries'[v] = entries[v]
  PROVE  HeapsSound'
<1> DEFINE h == Info[u].host
           new == [url |-> u, at |-> e.readyAt, generation |-> e.generation]
<1>1. h \in Host
  BY HostOfUrl
<1>2. \A g \in Host : HeapsKnown(g, hosts[g]) /\ HeapsDistinct(hosts[g])
  BY DEF FrontierInv, HeapsSound
<1>3. \A g \in Host : hosts'[g] = IF g = h THEN H ELSE hosts[g]
  BY <1>1 DEF FrontierInv, TypeOK
<1>4. /\ e.generation \in Nat
      /\ \A v \in DOMAIN entries : entries[v].generation \in Nat
  BY DEF FrontierInv, TypeOK, Entry
<1>5. ASSUME NEW g \in Host, NEW i \in hosts[g].waiting \cup hosts[g].ready
      PROVE  /\ i.url \in DOMAIN entries'
             /\ Info[i.url].host = g
             /\ i.generation <= entries'[i.url].generation
             /\ i.url = u => i.generation < e.generation
             /\ i.generation \in Nat
  <2>1. i.generation \in Nat
    BY ItemsAreRecords DEF FrontierInv, TypeOK, HostState
  <2>2. /\ i.url \in DOMAIN entries /\ Info[i.url].host = g
        /\ i.generation <= entries[i.url].generation
    BY <1>2 DEF HeapsKnown
  <2> QED BY <1>4, <2>1, <2>2
<1>6. /\ new.url = u /\ new.generation = e.generation
      /\ H.waiting = hosts[h].waiting \cup {new}
  OBVIOUS
<1> HIDE DEF new
<1>7. HeapsKnown(h, H)' /\ HeapsDistinct(H)
  <2>1. IsFiniteSet(H.waiting) /\ IsFiniteSet(H.ready)
    <3>1. IsFiniteSet(hosts[h].waiting) /\ IsFiniteSet(hosts[h].ready)
      BY <1>1, <1>2 DEF HeapsKnown
    <3>2. IsFiniteSet(hosts[h].waiting \cup {new})
      BY <3>1, FS_AddElement
    <3> QED BY <1>6, <3>1, <3>2
  <2>2. \A i \in H.waiting \cup H.ready :
          /\ i.url \in DOMAIN entries'
          /\ Info[i.url].host = h
          /\ i.generation <= entries'[i.url].generation
    BY <1>1, <1>4, <1>5, <1>6
  <2>3. \A i \in hosts[h].waiting \cup hosts[h].ready : ~SameGeneration(i, new)
    BY <1>1, <1>4, <1>5, <1>6 DEF SameGeneration
  <2>4. \A i \in hosts[h].waiting \cup hosts[h].ready : ~SameGeneration(new, i)
    BY <2>3 DEF SameGeneration
  <2>5. HeapsDistinct(H)
    BY <1>1, <1>2, <1>6, <2>3, <2>4 DEF HeapsDistinct
  <2> QED BY <2>1, <2>2, <2>5 DEF HeapsKnown
<1>8. ASSUME NEW g \in Host, g # h
      PROVE  HeapsKnown(g, hosts[g])' /\ HeapsDistinct(hosts[g])'
  BY <1>2, <1>3, <1>5, <1>8 DEF HeapsKnown, HeapsDistinct
<1>9. HeapsKnown(h, hosts[h])' /\ HeapsDistinct(hosts[h])'
  BY <1>1, <1>3, <1>7 DEF HeapsKnown, HeapsDistinct
<1> QED BY <1>8, <1>9 DEF HeapsSound

\* It also leaves the pending URLs indexed: the item of the new record is live,
\* and no other item of the URL is.
LEMMA PushedIndex ==
  ASSUME FrontierInv, NEW u \in Url, NEW e \in Entry, NEW H \in HostState,
         H.waiting = hosts[Info[u].host].waiting \cup
                       {[url |-> u, at |-> e.readyAt, generation |-> e.generation]},
         H.ready = hosts[Info[u].host].ready,
         u \in DOMAIN entries => e.generation = entries[u].generation + 1,
         e.state \in PendingStates,
         hosts' = [hosts EXCEPT ![Info[u].host] = H],
         DOMAIN entries' = DOMAIN entries \cup {u},
         entries'[u] = e,
         \A v \in DOMAIN entries \ {u} : entries'[v] = entries[v],
         now' = now
  PROVE  HeapsComplete'
<1> DEFINE h == Info[u].host
           new == [url |-> u, at |-> e.readyAt, generation |-> e.generation]
<1>1. h \in Host
  BY HostOfUrl
<1>2. \A g \in Host : HeapsKnown(g, hosts[g]) /\ HeapsIndex(g, hosts[g])
  BY DEF FrontierInv, HeapsSound, HeapsComplete
<1>3. \A g \in Host : hosts'[g] = IF g = h THEN H ELSE hosts[g]
  BY <1>1 DEF FrontierInv, TypeOK
<1>4. new.url = u /\ new.generation = e.generation /\ new.at = e.readyAt
      /\ H.waiting = hosts[h].waiting \cup {new} /\ H.ready = hosts[h].ready
  OBVIOUS
<1> HIDE DEF new
<1>5. Live(new)'
  BY <1>4 DEF Live
<1>6. ASSUME NEW g \in Host, NEW i \in hosts[g].waiting \cup hosts[g].ready
      PROVE  /\ i.url = u => ~Live(i)'
             /\ i.url # u => entries'[i.url] = entries[i.url] /\ Live(i)' = Live(i)
  <2>1. i.url \in DOMAIN entries /\ i.generation <= entries[i.url].generation
    BY <1>2 DEF HeapsKnown
  <2>2. i.generation \in Nat /\ entries[i.url].generation \in Nat
    BY <2>1, ItemsAreRecords DEF FrontierInv, TypeOK, HostState, Entry
  <2>3. CASE i.url = u
    BY <2>1, <2>2, <2>3 DEF Live
  <2>4. CASE i.url # u
    <3>1. entries'[i.url] = entries[i.url]
      BY <2>1, <2>4
    <3> QED BY <2>4, <3>1 DEF Live
  <2> QED BY <2>3, <2>4
<1> SUFFICES ASSUME NEW g \in Host PROVE HeapsIndex(g, hosts[g])'
  BY DEF HeapsComplete
<1>7. ASSUME NEW v \in Pending', Info[v].host = g
      PROVE  \E i \in hosts'[g].waiting \cup hosts'[g].ready : i.url = v /\ Live(i)'
  <2>1. CASE v = u
    BY <1>3, <1>4, <1>5, <1>7, <2>1
  <2>2. CASE v # u
    <3>1. v \in Pending
      BY <2>2 DEF Pending
    <3>2. PICK i \in hosts[g].waiting \cup hosts[g].ready : i.url = v /\ Live(i)
      BY <1>2, <1>7, <3>1 DEF HeapsIndex
    <3>3. i \in hosts'[g].waiting \cup hosts'[g].ready
      BY <1>3, <1>4, <3>2
    <3>4. Live(i)'
      BY <1>6, <2>2, <3>2
    <3> QED BY <3>2, <3>3, <3>4
  <2> QED BY <2>1, <2>2
<1>8. ASSUME NEW i \in hosts'[g].waiting, Live(i)' PROVE i.at = entries'[i.url].readyAt
  <2>1. CASE i = new
    BY <1>4, <2>1
  <2>2. CASE i # new
    <3>1. i \in hosts[g].waiting
      BY <1>3, <1>4, <2>2
    <3> QED BY <1>2, <1>6, <1>8, <3>1 DEF HeapsIndex
  <2> QED BY <2>1, <2>2
<1>9. ASSUME NEW i \in hosts'[g].ready, Live(i)'
      PROVE  i.priority = entries'[i.url].priority /\ entries'[i.url].readyAt <= now'
  <2>1. i \in hosts[g].ready
    BY <1>3, <1>4
  <2> QED BY <1>2, <1>6, <1>9, <2>1 DEF HeapsIndex
<1> QED BY <1>7, <1>8, <1>9 DEF HeapsIndex

\* Putting an admitted URL back in the queue preserves the invariant.
LEMMA RequeueStep ==
  ASSUME FrontierInv, NEW u \in DOMAIN entries, NEW e \in Entry, NEW H \in HostState,
         H.waiting = hosts[Info[u].host].waiting \cup
                       {[url |-> u, at |-> e.readyAt, generation |-> e.generation]},
         H.ready = hosts[Info[u].host].ready,
         H.admitted = hosts[Info[u].host].admitted,
         H.fetches = hosts[Info[u].host].fetches,
         e.generation = entries[u].generation + 1,
         e.order = entries[u].order,
         e.attempts = entries[u].attempts,
         e.depth <= Config.maxDepth,
         e.attempts < Config.maxAttemptsPerUrl,
         e.state \in PendingStates,
         e.answered = e.attempts,
         entries' = [entries EXCEPT ![u] = e],
         hosts' = [hosts EXCEPT ![Info[u].host] = H],
         UNCHANGED <<admitted, claimed, now>>
  PROVE  FrontierInv'
<1> USE DEF FrontierInv
<1>1. u \in Url /\ Info[u].host \in Host
  BY HostOfUrl DEF TypeOK
<1>2. /\ DOMAIN entries' = DOMAIN entries /\ entries'[u] = e
      /\ \A v \in DOMAIN entries \ {u} : entries'[v] = entries[v]
  OBVIOUS
<1>3. TypeOK'
  BY <1>1, <1>2 DEF TypeOK
<1>4. HeapsSound'
  <2>1. DOMAIN entries' = DOMAIN entries \cup {u}
    BY <1>2
  <2> QED BY <1>1, <1>2, <2>1, PushedHeaps
<1>8. HeapsComplete'
  <2>1. DOMAIN entries' = DOMAIN entries \cup {u}
    BY <1>2
  <2> QED BY <1>1, <1>2, <2>1, PushedIndex
<1>5. OrdersDistinct'
  BY <1>2 DEF OrdersDistinct
<1>6. InFlightAttempted' /\ LeasesAnswered'
  <2>1. LeaseAnswered(e)
    BY DEF LeaseAnswered, PendingStates, Entry
  <2> QED BY <1>2, <2>1 DEF InFlightAttempted, InFlight, PendingStates, LeasesAnswered
<1>7. WithinBudgets'
  <2>1. \A g \in Host : /\ hosts'[g].admitted = hosts[g].admitted
                        /\ hosts'[g].fetches = hosts[g].fetches
    BY <1>1 DEF TypeOK
  <2>2. e.attempts \in Nat
    BY DEF Entry
  <2>3. e.attempts <= Config.maxAttemptsPerUrl
    BY <2>2, ConfigIsNat
  <2> QED BY <1>2, <2>1, <2>3 DEF WithinBudgets, Pending
<1>9. CountersExact'
  <2>1. \A g \in Host : /\ hosts'[g].admitted = hosts[g].admitted
                        /\ hosts'[g].fetches = hosts[g].fetches
    BY <1>1 DEF TypeOK
  <2> HIDE DEF FrontierInv
  <2> QED BY <1>2, <2>1, CountersKept
<1> QED BY <1>3, <1>4, <1>5, <1>6, <1>7, <1>8, <1>9

\* A better discovery of a pending URL.
LEMMA ReprioritizeStep ==
  ASSUME FrontierInv, NEW u \in Pending, NEW d \in Nat, NEW p \in Int,
         NEW par \in Url \cup {None}, NEW at \in Nat,
         Reprioritize(u, d, p, par, at), UNCHANGED now
  PROVE  FrontierInv'
<1> DEFINE old == entries[u]
           H == hosts[Info[u].host]
           depth == EarlierOf(d, old.depth)
           parent == IF d < old.depth THEN par ELSE old.parent
           priority == LaterOf(p, old.priority)
           ready == EarlierOf(old.readyAt, at)
           r == [old EXCEPT !.depth = depth, !.parent = parent, !.priority = priority]
           e == Enqueued(r, ready)
<1>1. u \in DOMAIN entries /\ old.state \in PendingStates /\ u \in Url
  BY DEF Pending, FrontierInv, TypeOK
<1>2. /\ old \in Entry /\ H \in HostState
      /\ old.attempts < Config.maxAttemptsPerUrl /\ old.depth <= Config.maxDepth
      /\ LeaseAnswered(old)
  BY <1>1, HostOfUrl DEF FrontierInv, TypeOK, WithinBudgets, LeasesAnswered
<1>13. old.answered = old.attempts
  BY <1>1, <1>2 DEF LeaseAnswered, PendingStates, Entry
<1>3. old.depth \in Nat /\ old.priority \in Int /\ old.parent \in Url \cup {None}
      /\ old.readyAt \in Nat
  BY <1>2 DEF Entry
<1>4. /\ depth \in Nat /\ parent \in Url \cup {None} /\ priority \in Int
      /\ ready \in Nat /\ depth <= Config.maxDepth
  BY <1>2, <1>3, ConfigIsNat DEF EarlierOf, LaterOf
<1>5. entries' = [entries EXCEPT ![u] = e]
      /\ hosts' = [hosts EXCEPT ![Info[u].host] = Push(H, u, e)]
      /\ UNCHANGED <<admitted, claimed, now>>
  BY DEF Reprioritize
<1> HIDE DEF depth, parent, priority, ready
<1>6. r \in Entry
  BY <1>2, <1>4, ReprioritizeType
<1>7. /\ r.attempts = old.attempts /\ r.order = old.order
      /\ r.generation = old.generation /\ r.depth = depth /\ r.answered = old.answered
  BY <1>2 DEF Entry
<1> HIDE DEF r
<1>8. /\ e \in Entry /\ e.state \in PendingStates
      /\ e.generation = r.generation + 1 /\ e.attempts = r.attempts
      /\ e.order = r.order /\ e.depth = r.depth /\ e.answered = r.answered
  BY <1>4, <1>6, EnqueuedRecord
<1> HIDE DEF e
<1>9. /\ Push(H, u, e) \in HostState
      /\ Push(H, u, e).waiting =
           H.waiting \cup {[url |-> u, at |-> e.readyAt, generation |-> e.generation]}
      /\ Push(H, u, e).ready = H.ready
      /\ Push(H, u, e).admitted = H.admitted
      /\ Push(H, u, e).fetches = H.fetches
  BY <1>1, <1>2, <1>8, PushedHost
<1>10. /\ e.generation = entries[u].generation + 1 /\ e.order = entries[u].order
       /\ e.attempts = entries[u].attempts /\ e.answered = e.attempts
       /\ e.depth <= Config.maxDepth /\ e.attempts < Config.maxAttemptsPerUrl
  BY <1>2, <1>4, <1>7, <1>8, <1>13
<1> QED BY <1>1, <1>5, <1>8, <1>9, <1>10, RequeueStep

\* A failed attempt that will be retried.
LEMMA FailRetryStep ==
  ASSUME FrontierInv, NEW u \in DOMAIN entries, NEW attempt, NEW ra \in RetryAfters,
         FailRetry(u, attempt, ra), UNCHANGED now
  PROVE  FrontierInv'
<1> DEFINE old == entries[u]
           H == hosts[Info[u].host]
           at == now + RetryDelay(attempt, ra)
           r == Answered(old, attempt)
           e == Enqueued(r, at)
           allowed == IF ra = None THEN H.nextAllowed
                      ELSE LaterOf(H.nextAllowed, now + RetryAfterSeconds(ra))
           P == Push(H, u, e)
           Q == [P EXCEPT !.nextAllowed = allowed]
<1>1. /\ old \in Entry /\ u \in Url /\ H \in HostState /\ now \in Nat
      /\ old.depth <= Config.maxDepth
  BY HostOfUrl DEF FrontierInv, TypeOK, WithinBudgets
<1>2. /\ old.attempts = attempt /\ attempt < Config.maxAttemptsPerUrl
      /\ old.attempts >= 1 /\ old.attempts \in Nat /\ H.nextAllowed \in Nat
  BY <1>1 DEF FailRetry, Holds, FrontierInv, InFlightAttempted, Entry, HostState
<1>3. attempt \in Nat \ {0}
  BY <1>2
<1>4. RetryDelay(attempt, ra) \in Nat /\ RetryAfterSeconds(ra) \in Nat
  BY <1>3, RetryDelayIsNat
<1>5. at \in Nat /\ allowed \in Nat
  BY <1>1, <1>2, <1>4 DEF LaterOf
<1>6. entries' = [entries EXCEPT ![u] = e]
      /\ hosts' = [hosts EXCEPT ![Info[u].host] = Q]
      /\ UNCHANGED <<admitted, claimed, now>>
  BY DEF FailRetry
<1> HIDE DEF at, allowed
<1>11. /\ r \in Entry /\ r.generation = old.generation /\ r.attempts = old.attempts
       /\ r.order = old.order /\ r.depth = old.depth /\ r.answered = attempt
  BY <1>1, <1>3, AnsweredRecord
<1> HIDE DEF r
<1>7. /\ e \in Entry /\ e.state \in PendingStates
      /\ e.generation = old.generation + 1 /\ e.attempts = old.attempts
      /\ e.order = old.order /\ e.depth = old.depth /\ e.answered = attempt
  BY <1>5, <1>11, EnqueuedRecord
<1> HIDE DEF e
<1>8. /\ P \in HostState
      /\ P.waiting =
           H.waiting \cup {[url |-> u, at |-> e.readyAt, generation |-> e.generation]}
      /\ P.ready = H.ready
      /\ P.admitted = H.admitted
      /\ P.fetches = H.fetches
  BY <1>1, <1>7, PushedHost
<1> HIDE DEF P
<1>9. /\ Q \in HostState /\ Q.waiting = P.waiting /\ Q.ready = P.ready
      /\ Q.admitted = P.admitted /\ Q.fetches = P.fetches
  BY <1>5, <1>8 DEF HostState
<1> HIDE DEF Q
<1>10. /\ e.generation = entries[u].generation + 1 /\ e.order = entries[u].order
       /\ e.depth <= Config.maxDepth /\ e.attempts < Config.maxAttemptsPerUrl
       /\ e.answered = e.attempts
  BY <1>1, <1>2, <1>7
<1> QED BY <1>6, <1>7, <1>8, <1>9, <1>10, RequeueStep

\* The outcome of a lease.
LEMMA ResolveStep ==
  ASSUME FrontierInv, NEW u \in DOMAIN entries, NEW attempt,
         Resolve(u, attempt), UNCHANGED now
  PROVE  FrontierInv'
<1>1. CASE Succeed(u, attempt)
  BY <1>1, FinishStep DEF Succeed, TerminalReasons
<1>2. CASE \E reason \in Reasons : FailPermanently(u, attempt, reason)
  <2>1. PICK reason \in Reasons : Holds(u, attempt) /\ Finish(u, attempt, reason)
    BY <1>2 DEF FailPermanently
  <2>2. reason \in TerminalReasons
    BY DataAssumption DEF TerminalReasons
  <2> QED BY <2>1, <2>2, FinishStep
<1>3. CASE FailExhausted(u, attempt)
  BY <1>3, FinishStep DEF FailExhausted, TerminalReasons
<1>4. CASE \E ra \in RetryAfters : FailRetry(u, attempt, ra)
  BY <1>4, FailRetryStep
<1> QED BY <1>1, <1>2, <1>3, <1>4 DEF Resolve

\* A new URL.
LEMMA AdmitNewStep ==
  ASSUME FrontierInv, NEW u \in Url, NEW d \in Nat, NEW p \in Int,
         NEW par \in Url \cup {None}, NEW at \in Nat,
         Admissible(u, d), AdmitNew(u, d, p, par, at), UNCHANGED now
  PROVE  FrontierInv'
<1> USE DEF FrontierInv
<1> DEFINE H == hosts[Info[u].host]
           ord == admitted + 1
           e == NewEntry(d, p, par, ord, at)
           n == H.admitted + 1
           P == Push(H, u, e)
           Q == [P EXCEPT !.admitted = n]
<1>1. /\ u \notin DOMAIN entries /\ d <= Config.maxDepth /\ admitted < Config.maxUrls
      /\ H.admitted < Config.maxUrlsPerHost
  BY DEF Admissible
<1>2. /\ Info[u].host \in Host /\ H \in HostState /\ ord \in Nat /\ admitted \in Nat
      /\ H.admitted \in Nat /\ n \in Nat /\ H.fetches <= HostFetchLimit
  BY HostOfUrl DEF TypeOK, HostState, WithinBudgets
<1>3. /\ entries' = [v \in DOMAIN entries \cup {u} |-> IF v = u THEN e ELSE entries[v]]
      /\ hosts' = [hosts EXCEPT ![Info[u].host] = [P EXCEPT !.admitted = @ + 1]]
      /\ admitted' = ord
      /\ claimed' = claimed /\ now' = now
  BY DEF AdmitNew
<1> HIDE DEF ord
<1>4. /\ e \in Entry /\ e.state \in PendingStates /\ e.generation = 1
      /\ e.attempts = 0 /\ e.order = ord /\ e.depth = d /\ e.answered = 0
  <2> HIDE DEF FrontierInv
  <2>1. ord \in Nat
    BY <1>2
  <2> QED BY <2>1, NewEntryRecord
<1> HIDE DEF e
<1>5. /\ P \in HostState
      /\ P.waiting =
           H.waiting \cup {[url |-> u, at |-> e.readyAt, generation |-> e.generation]}
      /\ P.ready = H.ready
      /\ P.admitted = H.admitted
      /\ P.fetches = H.fetches
  BY <1>2, <1>4, PushedHost
<1> HIDE DEF P
<1>6. hosts' = [hosts EXCEPT ![Info[u].host] = Q]
  BY <1>3, <1>5
<1> HIDE DEF n
<1>7. /\ Q \in HostState /\ Q.waiting = P.waiting /\ Q.ready = P.ready
      /\ Q.admitted = n /\ Q.fetches = P.fetches
  BY <1>2, <1>5 DEF HostState
<1> HIDE DEF Q
<1>8. /\ DOMAIN entries' = DOMAIN entries \cup {u} /\ entries'[u] = e
      /\ \A v \in DOMAIN entries \ {u} : entries'[v] = entries[v]
  BY <1>3
<1>9. TypeOK'
  BY <1>2, <1>3, <1>4, <1>6, <1>7, <1>8 DEF TypeOK
<1>10. HeapsSound'
  <2>1. /\ Q.waiting = hosts[Info[u].host].waiting \cup
                          {[url |-> u, at |-> e.readyAt, generation |-> e.generation]}
        /\ Q.ready = hosts[Info[u].host].ready
        /\ u \notin DOMAIN entries
    BY <1>1, <1>5, <1>7
  <2>2. Q \in HostState /\ e \in Entry
    BY <1>4, <1>7
  <2> HIDE DEF H, FrontierInv
  <2> QED BY <1>6, <1>8, <2>1, <2>2, PushedHeaps
<1>14. HeapsComplete'
  <2>1. /\ Q.waiting = hosts[Info[u].host].waiting \cup
                          {[url |-> u, at |-> e.readyAt, generation |-> e.generation]}
        /\ Q.ready = hosts[Info[u].host].ready
        /\ u \notin DOMAIN entries
        /\ now' = now
    BY <1>1, <1>3, <1>5, <1>7
  <2> HIDE DEF H, FrontierInv
  <2> QED BY <1>4, <1>6, <1>7, <1>8, <2>1, PushedIndex
<1>11. OrdersDistinct'
  <2>1. \A v \in DOMAIN entries : entries[v].order \in Nat /\ entries[v].order <= admitted
    BY DEF OrdersDistinct, TypeOK, Entry
  <2> QED BY <1>1, <1>2, <1>3, <1>4, <1>8, <2>1 DEF OrdersDistinct, ord
<1>12. InFlightAttempted' /\ LeasesAnswered'
  <2>1. LeaseAnswered(e)
    BY <1>4 DEF LeaseAnswered, PendingStates
  <2> QED BY <1>4, <1>8, <2>1 DEF InFlightAttempted, InFlight, PendingStates, LeasesAnswered
<1>13. WithinBudgets'
  <2>1. admitted' <= Config.maxUrls /\ n <= Config.maxUrlsPerHost
    BY <1>1, <1>2, <1>3, ConfigIsNat DEF n, ord
  <2>2. \A g \in Host : hosts'[g] = IF g = Info[u].host THEN Q ELSE hosts[g]
    BY <1>2, <1>6 DEF TypeOK
  <2>3. \A g \in Host : /\ hosts'[g].admitted <= Config.maxUrlsPerHost
                        /\ hosts'[g].fetches <= HostFetchLimit
    BY <1>2, <1>5, <1>7, <2>1, <2>2 DEF WithinBudgets
  <2>4. \A v \in DOMAIN entries' :
          /\ entries'[v].depth <= Config.maxDepth
          /\ entries'[v].attempts <= Config.maxAttemptsPerUrl
          /\ entries'[v].state \in PendingStates =>
               entries'[v].attempts < Config.maxAttemptsPerUrl
    BY <1>1, <1>4, <1>8, ConfigIsNat DEF WithinBudgets, Pending
  <2> QED BY <1>3, <2>1, <2>3, <2>4 DEF WithinBudgets, Pending
<1>15. CountersExact'
  <2>1. \A g \in Host : hosts'[g] = IF g = Info[u].host THEN Q ELSE hosts[g]
    BY <1>2, <1>6 DEF TypeOK
  <2>2. /\ \A g \in Host : /\ hosts'[g].fetches = hosts[g].fetches
                           /\ g # Info[u].host => hosts'[g].admitted = hosts[g].admitted
        /\ hosts'[Info[u].host].admitted = hosts[Info[u].host].admitted + 1
        /\ admitted' = admitted + 1
    BY <1>2, <1>3, <1>5, <1>7, <2>1 DEF n, ord
  <2> HIDE DEF H, FrontierInv
  <2> QED BY <1>1, <1>3, <1>4, <1>8, <2>2, CountersAdmitted
<1> QED BY <1>9, <1>10, <1>11, <1>12, <1>13, <1>14, <1>15

\* A call of admit, whatever it finds.
LEMMA AdmitSomeStep ==
  ASSUME FrontierInv, AdmitSome
  PROVE  FrontierInv'
<1>1. PICK spelling \in Link, d \in Depths, p \in Priorities, par \in Parents,
        delay \in ReadyDelays : Admit(spelling, d, p, par, now + delay)
  BY DEF AdmitSome
<1> DEFINE u == Canonical[spelling]
           at == now + delay
<1>2. /\ d \in Nat /\ p \in Int /\ par \in Url \cup {None}
      /\ u \in Url \cup {Malformed}
  BY DataAssumption
<1>3. at \in Nat
  BY DataAssumption DEF FrontierInv, TypeOK
<1>4. now' = now
  BY DEF AdmitSome
<1>5. \/ Admissible(u, d) /\ AdmitNew(u, d, p, par, at)
      \/ Improves(u, d, p) /\ Reprioritize(u, d, p, par, at)
      \/ UNCHANGED frontierVars
  BY <1>1 DEF Admit
<1> HIDE DEF u, at
<1>6. CASE Admissible(u, d) /\ AdmitNew(u, d, p, par, at)
  <2>1. u \in Url
    BY <1>2, <1>6 DEF Admissible
  <2> QED BY <1>2, <1>3, <1>4, <1>6, <2>1, AdmitNewStep
<1>7. CASE Improves(u, d, p) /\ Reprioritize(u, d, p, par, at)
  <2>1. u \in Pending
    BY <1>7 DEF Improves
  <2> QED BY <1>2, <1>3, <1>4, <1>7, <2>1, ReprioritizeStep
<1>8. CASE UNCHANGED frontierVars
  <2>1. /\ entries' = entries /\ hosts' = hosts
        /\ admitted' = admitted /\ claimed' = claimed
        /\ now' \in Nat /\ now' >= now
    BY <1>4, <1>8 DEF frontierVars, FrontierInv, TypeOK
  <2> QED BY <2>1, RecordsAdvance, TerminationStep
<1> QED BY <1>5, <1>6, <1>7, <1>8

\* The passing of time, and steps of the rest of the system.
LEMMA IdleStep ==
  ASSUME FrontierInv, UNCHANGED frontierVars, now' \in Nat, now' >= now
  PROVE  FrontierInv'
<1>1. /\ entries' = entries /\ hosts' = hosts
      /\ admitted' = admitted /\ claimed' = claimed
  BY DEF frontierVars
<1> QED BY <1>1, RecordsAdvance, TerminationStep

\* Every step of the frontier preserves the invariant.
LEMMA FrontierStep ==
  ASSUME FrontierInv, [FrontierNext]_clockedVars
  PROVE  FrontierInv'
<1>1. CASE AdmitSome
  BY <1>1, AdmitSomeStep
<1>2. CASE Claim /\ UNCHANGED now
  BY <1>2, ClaimOverBudgetStep, ClaimNothingStep, ClaimLeaseStep DEF Claim
<1>3. CASE ResolveSome
  <2>1. PICK u \in DOMAIN entries : \E attempt \in 1 .. entries[u].attempts :
               Resolve(u, attempt)
    BY <1>3 DEF ResolveSome
  <2>2. now' = now
    BY <1>3 DEF ResolveSome
  <2> QED BY <2>1, <2>2, ResolveStep
<1>4. CASE CancelPending /\ UNCHANGED now
  BY <1>4, CancelPendingStep
<1>5. CASE NextWakeAt /\ UNCHANGED now
  BY <1>5, NextWakeAtStep
<1>6. CASE Tick
  <2>1. UNCHANGED frontierVars /\ now' \in Nat /\ now' >= now
    BY <1>6 DEF Tick, FrontierInv, TypeOK
  <2> QED BY <2>1, IdleStep
<1>7. CASE UNCHANGED clockedVars
  <2>1. UNCHANGED frontierVars /\ now' \in Nat /\ now' >= now
    BY <1>7 DEF clockedVars, FrontierInv, TypeOK
  <2> QED BY <2>1, IdleStep
<1> QED BY <1>1, <1>2, <1>3, <1>4, <1>5, <1>6, <1>7 DEF FrontierNext
-----------------------------------------------------------------------------
(* The seeds *)

\* The seeds are finitely many, and so are those of every host.
LEMMA SeedsFinite ==
  /\ IsFiniteSet(SeedUrls) /\ Cardinality(SeedUrls) \in Nat
  /\ \A h : /\ IsFiniteSet(OnHost(SeedUrls, h))
            /\ Cardinality(OnHost(SeedUrls, h)) \in Nat
<1>1. IsFiniteSet(SeedUrls)
  BY DataAssumption, SeedAssumption, FS_Subset
<1>2. \A h : OnHost(SeedUrls, h) \in SUBSET SeedUrls
  BY DEF OnHost
<1>3. \A h : IsFiniteSet(OnHost(SeedUrls, h))
  BY <1>1, <1>2, FS_Subset
<1> QED BY <1>1, <1>3, FS_CardinalityType

\* The first occurrence of a seed determines it.
LEMMA FirstSeeds ==
  ASSUME NEW u \in SeedUrls
  PROVE  FirstSeed(u) \in Nat /\ Canonical[SeedLinks[FirstSeed(u)]] = u
<1> DEFINE S == {i \in DOMAIN SeedLinks : Canonical[SeedLinks[i]] = u}
<1>1. DOMAIN SeedLinks = 1 .. Len(SeedLinks) /\ Len(SeedLinks) \in Nat
  BY SeedAssumption
<1>2. S \subseteq Nat /\ S # {}
  BY <1>1 DEF SeedUrls
<1>3. PICK i \in S : \A j \in S : i <= j
  <2> HIDE DEF S
  <2> QED BY <1>2, LeastNatural
<1>4. \A j \in 1 .. i - 1 : Canonical[SeedLinks[j]] # u
  <2> SUFFICES ASSUME NEW j \in 1 .. i - 1, Canonical[SeedLinks[j]] = u PROVE FALSE
    OBVIOUS
  <2>1. j \in S /\ j < i
    BY <1>1, <1>2, <1>3
  <2> QED BY <1>2, <1>3, <2>1
<1>5. \E k \in DOMAIN SeedLinks :
        /\ Canonical[SeedLinks[k]] = u
        /\ \A j \in 1 .. k - 1 : Canonical[SeedLinks[j]] # u
  BY <1>3, <1>4
<1> QED BY <1>1, <1>5 DEF FirstSeed

\* Seeds are numbered from 1, each with its own number.
LEMMA SeedOrders ==
  /\ \A u \in SeedUrls : SeedOrder(u) \in Nat /\ SeedOrder(u) <= Cardinality(SeedUrls)
  /\ \A u, v \in SeedUrls : SeedOrder(u) = SeedOrder(v) => u = v
<1> DEFINE upTo(u) == {w \in SeedUrls : FirstSeed(w) <= FirstSeed(u)}
<1>1. ASSUME NEW u \in SeedUrls
      PROVE  /\ IsFiniteSet(upTo(u)) /\ Cardinality(upTo(u)) \in Nat
             /\ Cardinality(upTo(u)) <= Cardinality(SeedUrls)
             /\ SeedOrder(u) = Cardinality(upTo(u))
  <2>1. upTo(u) \in SUBSET SeedUrls
    OBVIOUS
  <2>2. SeedOrder(u) = Cardinality(upTo(u))
    BY DEF SeedOrder
  <2> HIDE DEF upTo
  <2>3. IsFiniteSet(upTo(u)) /\ Cardinality(upTo(u)) <= Cardinality(SeedUrls)
    BY <2>1, SeedsFinite, FS_Subset
  <2> QED BY <2>2, <2>3, FS_CardinalityType
<1>2. ASSUME NEW u \in SeedUrls, NEW v \in SeedUrls, FirstSeed(u) < FirstSeed(v)
      PROVE  SeedOrder(u) # SeedOrder(v)
  <2>1. upTo(u) \in SUBSET upTo(v)
    BY <1>2, FirstSeeds
  <2>2. v \in upTo(v) /\ v \notin upTo(u)
    BY <1>2, FirstSeeds
  <2> HIDE DEF upTo
  <2>3. Cardinality(upTo(u)) # Cardinality(upTo(v))
    BY <1>1, <2>1, <2>2, FS_Subset
  <2> QED BY <1>1, <2>3
<1>3. ASSUME NEW u \in SeedUrls, NEW v \in SeedUrls, SeedOrder(u) = SeedOrder(v)
      PROVE  u = v
  <2>1. FirstSeed(u) = FirstSeed(v)
    BY <1>2, <1>3, FirstSeeds
  <2> QED BY <2>1, FirstSeeds
<1> QED BY <1>1, <1>3

\* The frontier starts with sound heaps and within its budgets.
LEMMA FrontierStart ==
  ASSUME FrontierInit
  PROVE  FrontierInv
<1>1. /\ DOMAIN entries = SeedUrls /\ SeedUrls \subseteq Url
      /\ \A u \in SeedUrls :
           entries[u] = NewEntry(0, SeedPriority, None, SeedOrder(u), 0)
  BY SeedAssumption DEF FrontierInit, SeedEntries
<1>2. ASSUME NEW u \in SeedUrls
      PROVE  /\ entries[u] \in Entry
             /\ entries[u].state \in PendingStates
             /\ entries[u].generation = 1
             /\ entries[u].attempts = 0
             /\ entries[u].answered = 0
             /\ entries[u].order = SeedOrder(u)
             /\ entries[u].depth = 0
             /\ entries[u].readyAt = 0
  <2> DEFINE ord == SeedOrder(u)
             par == None
             e == NewEntry(0, SeedPriority, par, ord, 0)
  <2>1. ord \in Nat /\ SeedPriority \in Int /\ par \in Url \cup {None}
    BY SeedOrders, SeedAssumption
  <2>2. entries[u] = e
    BY <1>1
  <2> HIDE DEF ord, par
  <2>3. /\ e \in Entry /\ e.state \in PendingStates /\ e.generation = 1
        /\ e.attempts = 0 /\ e.order = ord /\ e.depth = 0 /\ e.readyAt = 0
        /\ e.answered = 0
    BY <2>1, NewEntryRecord
  <2> HIDE DEF e
  <2> QED BY <2>2, <2>3 DEF ord
<1>3. ASSUME NEW h \in Host
      PROVE  /\ hosts[h] \in HostState
             /\ hosts[h].waiting = {[url |-> u, at |-> 0, generation |-> 1] :
                                      u \in OnHost(SeedUrls, h)}
             /\ hosts[h].ready = {}
             /\ hosts[h].admitted = Cardinality(OnHost(SeedUrls, h))
             /\ hosts[h].fetches = 0
  <2> DEFINE W == {[url |-> u, at |-> 0, generation |-> 1] : u \in OnHost(SeedUrls, h)}
             c == Cardinality(OnHost(SeedUrls, h))
  <2>1. hosts[h] = [waiting |-> W, ready |-> {}, nextAllowed |-> 0, lastServed |-> -1,
                    admitted |-> c, fetches |-> 0]
    BY DEF FrontierInit, SeedHosts
  <2>2. W \in SUBSET WaitingItem
    BY <1>1 DEF OnHost, WaitingItem
  <2>3. c \in Nat
    BY SeedsFinite
  <2> HIDE DEF W, c
  <2>4. /\ hosts[h] \in HostState /\ hosts[h].waiting = W /\ hosts[h].ready = {}
        /\ hosts[h].admitted = c /\ hosts[h].fetches = 0
    BY <2>1, <2>2, <2>3 DEF HostState
  <2> QED BY <2>4 DEF W, c
<1>4. hosts = [h \in Host |-> hosts[h]]
  BY DEF FrontierInit, SeedHosts
<1>5. /\ admitted = Cardinality(SeedUrls) /\ admitted \in Nat
      /\ claimed = 0 /\ now = 0
  BY SeedsFinite DEF FrontierInit
<1>6. TypeOK
  <2>1. hosts \in [Host -> HostState]
    BY <1>3, <1>4
  <2> QED BY <1>1, <1>2, <1>5, <2>1 DEF TypeOK
<1>7. HeapsSound
  <2> SUFFICES ASSUME NEW h \in Host
               PROVE  HeapsKnown(h, hosts[h]) /\ HeapsDistinct(hosts[h])
    BY DEF HeapsSound
  <2> DEFINE S == OnHost(SeedUrls, h)
             item == [u \in S |-> [url |-> u, at |-> 0, generation |-> 1]]
  <2>1. hosts[h].waiting = {item[u] : u \in S} /\ hosts[h].ready = {}
    BY <1>3
  <2>2. IsFiniteSet({item[u] : u \in S})
    <3>1. IsFiniteSet(S)
      BY SeedsFinite
    <3> HIDE DEF item, S
    <3> QED BY <3>1, FiniteImage
  <2>3. \A i \in hosts[h].waiting : /\ i.url \in SeedUrls /\ Info[i.url].host = h
                                    /\ i.generation = 1
                                    /\ i = [url |-> i.url, at |-> 0, generation |-> 1]
    <3> SUFFICES ASSUME NEW i \in hosts[h].waiting
                 PROVE  /\ i.url \in SeedUrls /\ Info[i.url].host = h
                        /\ i.generation = 1
                        /\ i = [url |-> i.url, at |-> 0, generation |-> 1]
      OBVIOUS
    <3>1. PICK u \in S : i = [url |-> u, at |-> 0, generation |-> 1]
      BY <2>1
    <3> QED BY <3>1 DEF OnHost
  <2>4. HeapsKnown(h, hosts[h])
    BY <1>1, <1>2, <2>1, <2>2, <2>3, FS_EmptySet DEF HeapsKnown
  <2>5. HeapsDistinct(hosts[h])
    <3>1. \A i, j \in hosts[h].waiting : SameGeneration(i, j) => i = j
      BY <2>3 DEF SameGeneration
    <3> QED BY <2>1, <3>1 DEF HeapsDistinct
  <2> QED BY <2>4, <2>5
<1>11. HeapsComplete
  <2> SUFFICES ASSUME NEW h \in Host PROVE HeapsIndex(h, hosts[h])
    BY DEF HeapsComplete
  <2>1. ASSUME NEW u \in Pending, Info[u].host = h
        PROVE  \E i \in hosts[h].waiting \cup hosts[h].ready : i.url = u /\ Live(i)
    <3> DEFINE i == [url |-> u, at |-> 0, generation |-> 1]
    <3>1. u \in OnHost(SeedUrls, h)
      BY <1>1, <2>1 DEF Pending, OnHost
    <3>2. i \in hosts[h].waiting
      BY <1>3, <3>1
    <3>3. i.url = u /\ Live(i)
      BY <1>2, <3>1 DEF Live, OnHost
    <3> QED BY <3>2, <3>3
  <2>2. ASSUME NEW i \in hosts[h].waiting, Live(i) PROVE i.at = entries[i.url].readyAt
    <3>1. PICK u \in OnHost(SeedUrls, h) : i = [url |-> u, at |-> 0, generation |-> 1]
      BY <1>3
    <3> QED BY <1>2, <3>1 DEF OnHost
  <2> QED BY <1>3, <2>1, <2>2 DEF HeapsIndex
<1>8. OrdersDistinct
  BY <1>1, <1>2, <1>5, SeedOrders DEF OrdersDistinct
<1>9. InFlightAttempted /\ LeasesAnswered
  BY <1>1, <1>2 DEF InFlightAttempted, InFlight, PendingStates, LeasesAnswered,
                    LeaseAnswered
<1>10. WithinBudgets
  <2>1. admitted <= Config.maxUrls /\ claimed <= GlobalFetchLimit
    BY <1>5, SeedAssumption, ConfigIsNat
  <2>2. \A h \in Host : /\ hosts[h].admitted <= Config.maxUrlsPerHost
                        /\ hosts[h].fetches <= HostFetchLimit
    BY <1>3, SeedAssumption, ConfigIsNat
  <2>3. \A u \in SeedUrls : /\ entries[u].depth <= Config.maxDepth
                            /\ entries[u].attempts < Config.maxAttemptsPerUrl
                            /\ entries[u].attempts <= Config.maxAttemptsPerUrl
    BY <1>2, ConfigIsNat
  <2> QED BY <1>1, <2>1, <2>2, <2>3 DEF WithinBudgets
<1>12. CountersExact
  <2>1. \A u \in SeedUrls : Attempts[u] = 0
    BY <1>1, <1>2 DEF Attempts
  <2>2. ASSUME NEW S \in SUBSET SeedUrls, IsFiniteSet(S) PROVE AttemptsOf(S) = 0
    <3>1. \A u \in S : Attempts[u] \in Nat /\ Attempts[u] = 0
      BY <2>1
    <3> QED BY <2>2, <3>1, SumBounds DEF AttemptsOf
  <2>3. AttemptsOf(SeedUrls) = 0 /\ \A h : AttemptsOf(OnHost(SeedUrls, h)) = 0
    BY <2>2, SeedsFinite DEF OnHost
  <2> QED BY <1>1, <1>3, <1>5, <2>3 DEF CountersExact
<1> QED BY <1>6, <1>7, <1>8, <1>9, <1>10, <1>11, <1>12 DEF FrontierInv
-----------------------------------------------------------------------------
(* Results *)

\* The invariant holds in every behaviour of the frontier.
THEOREM FrontierInvariant == FrontierSpec => []FrontierInv
<1>1. FrontierInit => FrontierInv
  BY FrontierStart
<1>2. FrontierInv /\ [FrontierNext]_clockedVars => FrontierInv'
  BY FrontierStep
<1> QED BY <1>1, <1>2, PTL DEF FrontierSpec

\* Every variable of the frontier keeps its type.
THEOREM FrontierTypeCorrect == FrontierSpec => []TypeOK
<1>1. FrontierInv => TypeOK
  BY DEF FrontierInv
<1> QED BY <1>1, FrontierInvariant, PTL

\* No budget of the configuration is ever exceeded, whatever the hosts, the
\* URLs, the configuration and the calls.
THEOREM BudgetsHold == FrontierSpec => []WithinBudgets
<1>1. FrontierInv => WithinBudgets
  BY DEF FrontierInv
<1> QED BY <1>1, FrontierInvariant, PTL

-----------------------------------------------------------------------------
(* What a step may do to a record *)

\* A lease takes a pending URL and leaves every other record to the drain.
LEMMA ClaimLeaseRecords ==
  ASSUME FrontierInv, ClaimLease, NEW u \in DOMAIN entries \ Pending
  PROVE  entries'[u] = entries[u]
<1> DEFINE h == SelectedHost
           top == HeapTop(Scanned(h, now).ready)
<1>1. top.url \in Pending
  BY LeasedUrl DEF ClaimLease
<1>2. entries' = [DrainedEntries EXCEPT ![top.url].state = "IN_FLIGHT",
                                        ![top.url].attempts = @ + 1]
  BY DEF ClaimLease
<1> HIDE DEF top
<1>3. DOMAIN DrainedEntries = DOMAIN entries
      /\ DrainedEntries[u] = entries[u]
      /\ DrainedEntries = [v \in DOMAIN entries |-> DrainedEntries[v]]
  BY DEF DrainedEntries, PendingTerminated
<1> QED BY <1>1, <1>2, <1>3

\* Only the outcome of its lease moves a record that is not pending.
LEMMA OnlyOutcomesMoveRecords ==
  ASSUME FrontierInv, [FrontierNext]_clockedVars, ~ResolveSome,
         NEW u \in DOMAIN entries \ Pending
  PROVE  entries'[u] = entries[u]
<1>1. CASE AdmitSome
  <2>1. PICK spelling \in Link, d \in Depths, p \in Priorities, par \in Parents,
          delay \in ReadyDelays : Admit(spelling, d, p, par, now + delay)
    BY <1>1 DEF AdmitSome
  <2> DEFINE v == Canonical[spelling]
             at == now + delay
  <2>2. \/ Admissible(v, d) /\ AdmitNew(v, d, p, par, at)
        \/ Improves(v, d, p) /\ Reprioritize(v, d, p, par, at)
        \/ UNCHANGED frontierVars
    BY <2>1 DEF Admit
  <2> HIDE DEF v, at
  <2>3. CASE Admissible(v, d) /\ AdmitNew(v, d, p, par, at)
    BY <2>3 DEF Admissible, AdmitNew
  <2>4. CASE Improves(v, d, p) /\ Reprioritize(v, d, p, par, at)
    <3>1. v # u
      BY <2>4 DEF Improves
    <3> QED BY <2>4, <3>1 DEF Reprioritize
  <2> QED BY <2>2, <2>3, <2>4 DEF frontierVars
<1>2. CASE Claim /\ UNCHANGED now
  <2>1. CASE ClaimOverBudget
    BY <2>1 DEF ClaimOverBudget, PendingTerminated
  <2>2. CASE ClaimNothing
    BY <2>2 DEF ClaimNothing, DrainedEntries, PendingTerminated
  <2>3. CASE ClaimLease
    BY <2>3, ClaimLeaseRecords
  <2> QED BY <1>2, <2>1, <2>2, <2>3 DEF Claim
<1>3. CASE CancelPending /\ UNCHANGED now
  BY <1>3 DEF CancelPending, PendingTerminated
<1>4. CASE NextWakeAt /\ UNCHANGED now
  BY <1>4 DEF NextWakeAt
<1>5. CASE Tick \/ UNCHANGED clockedVars
  BY <1>5 DEF Tick, clockedVars, frontierVars
<1> QED BY <1>1, <1>2, <1>3, <1>4, <1>5 DEF FrontierNext

\* An outcome moves the one record whose lease it names: it settles it for a
\* reason of its own, or puts it back in the queue.
LEMMA OutcomeMovesItsRecord ==
  ASSUME FrontierInv, ResolveSome
  PROVE  \E v \in InFlight :
           /\ \A u \in DOMAIN entries \ {v} : entries'[u] = entries[u]
           /\ \/ \E reason \in FailureReasons \cup {"SUCCEEDED", "RETRY_EXHAUSTED"} :
                   entries'[v] = Settled(entries[v], entries[v].attempts, reason)
              \/ \E at \in Nat :
                   entries'[v] = Enqueued(Answered(entries[v], entries[v].attempts), at)
<1>1. PICK v \in DOMAIN entries, attempt \in Int : Resolve(v, attempt)
  BY DEF ResolveSome
<1>2. CASE \E reason \in FailureReasons \cup {"SUCCEEDED", "RETRY_EXHAUSTED"} :
              Holds(v, attempt) /\ Finish(v, attempt, reason)
  BY <1>2 DEF Finish, Holds
<1>3. CASE \E ra \in RetryAfters : FailRetry(v, attempt, ra)
  <2>1. PICK ra \in RetryAfters : FailRetry(v, attempt, ra)
    BY <1>3
  <2> DEFINE at == now + RetryDelay(attempt, ra)
  <2>2. v \in InFlight /\ attempt = entries[v].attempts
    BY <2>1 DEF FailRetry, Holds
  <2>3. attempt \in Nat \ {0}
    BY <2>2 DEF FrontierInv, TypeOK, InFlightAttempted, Entry
  <2>4. at \in Nat
    BY <2>3, RetryDelayIsNat DEF FrontierInv, TypeOK
  <2>5. entries' = [entries EXCEPT ![v] = Enqueued(Answered(entries[v], attempt), at)]
    BY <2>1 DEF FailRetry
  <2> HIDE DEF at
  <2> QED BY <2>2, <2>4, <2>5
<1>4. Succeed(v, attempt) \/ FailExhausted(v, attempt)
        \/ (\E reason \in Reasons : FailPermanently(v, attempt, reason))
      => \E reason \in FailureReasons \cup {"SUCCEEDED", "RETRY_EXHAUSTED"} :
            Holds(v, attempt) /\ Finish(v, attempt, reason)
  BY DataAssumption DEF Succeed, FailExhausted, FailPermanently
<1> QED BY <1>1, <1>2, <1>3, <1>4 DEF Resolve

\* A URL that reached its final disposition keeps it.
THEOREM FinalIsFinal == FrontierSpec => TerminalIsFinal
<1>1. ASSUME FrontierInv, [FrontierNext]_clockedVars, NEW u \in Terminal
      PROVE  entries'[u] = entries[u]
  <2>1. u \in DOMAIN entries \ Pending /\ u \notin InFlight
    BY DEF Terminal, Pending, InFlight, PendingStates
  <2>2. CASE ResolveSome
    BY <1>1, <2>1, <2>2, OutcomeMovesItsRecord
  <2>3. CASE ~ResolveSome
    BY <1>1, <2>1, <2>3, OnlyOutcomesMoveRecords
  <2> QED BY <2>2, <2>3
<1>2. FrontierInv /\ [FrontierNext]_clockedVars
        => [\A u \in Terminal : entries'[u] = entries[u]]_clockedVars
  BY <1>1
<1> QED BY <1>2, FrontierInvariant, PTL DEF FrontierSpec, TerminalIsFinal

\* The record of a leased URL does not move under its holder: it changes only
\* when the outcome of its own, current lease is taken; a settled one never does.
THEOREM LeasesAreStable == FrontierSpec => LeaseStable
<1>1. ASSUME FrontierInv, [FrontierNext]_clockedVars, NEW u \in DOMAIN entries \ Pending,
             entries'[u] # entries[u]
      PROVE  OutcomeTaken(u)
  <2>1. entries[u] \in Entry /\ LeaseAnswered(entries[u])
    BY <1>1 DEF FrontierInv, TypeOK, LeasesAnswered
  <2>2. ResolveSome
    BY <1>1, OnlyOutcomesMoveRecords
  <2>3. PICK v \in InFlight :
          /\ \A w \in DOMAIN entries \ {v} : entries'[w] = entries[w]
          /\ \/ \E reason \in FailureReasons \cup {"SUCCEEDED", "RETRY_EXHAUSTED"} :
                  entries'[v] = Settled(entries[v], entries[v].attempts, reason)
             \/ \E at \in Nat :
                  entries'[v] = Enqueued(Answered(entries[v], entries[v].attempts), at)
    BY <1>1, <2>2, OutcomeMovesItsRecord
  <2>4. v = u
    BY <1>1, <2>3
  <2>5. /\ entries[u].attempts \in Nat /\ entries[u].answered \in Nat
        /\ entries[u].answered < entries[u].attempts
    BY <2>1, <2>3, <2>4 DEF Entry, LeaseAnswered, InFlight
  <2>6. ASSUME NEW reason \in FailureReasons \cup {"SUCCEEDED", "RETRY_EXHAUSTED"},
               entries'[u] = Settled(entries[u], entries[u].attempts, reason)
        PROVE  OutcomeTaken(u)
    <3>1. /\ reason \in TerminalReasons
          /\ reason \notin {"GLOBAL_FETCH_BUDGET", "HOST_FETCH_BUDGET"}
      BY DEF TerminalReasons, FailureReasons
    <3> QED BY <2>1, <2>3, <2>4, <2>5, <2>6, <3>1, SettledRecord DEF OutcomeTaken
  <2>7. ASSUME NEW at \in Nat,
               entries'[u] = Enqueued(Answered(entries[u], entries[u].attempts), at)
        PROVE  OutcomeTaken(u)
    <3> DEFINE r == Answered(entries[u], entries[u].attempts)
    <3>1. /\ r \in Entry /\ r.answered = entries[u].attempts
          /\ r.attempts = entries[u].attempts /\ r.order = entries[u].order
          /\ r.depth = entries[u].depth /\ r.priority = entries[u].priority
          /\ r.parent = entries[u].parent
      BY <2>1, <2>5, AnsweredRecord
    <3> HIDE DEF r
    <3>2. /\ entries'[u].state \in PendingStates
          /\ entries'[u].answered = r.answered /\ entries'[u].attempts = r.attempts
          /\ entries'[u].depth = r.depth /\ entries'[u].priority = r.priority
          /\ entries'[u].parent = r.parent /\ entries'[u].order = r.order
      BY <2>7, <3>1, EnqueuedRecord DEF r
    <3> QED BY <2>3, <2>4, <2>5, <3>1, <3>2 DEF OutcomeTaken
  <2> QED BY <2>3, <2>4, <2>6, <2>7
<1>2. FrontierInv /\ [FrontierNext]_clockedVars
        => [\A u \in DOMAIN entries \ Pending :
              entries'[u] # entries[u] => OutcomeTaken(u)]_clockedVars
  BY <1>1
<1> QED BY <1>2, FrontierInvariant, PTL DEF FrontierSpec, LeaseStable

-----------------------------------------------------------------------------
(* What the heaps index *)

\* Lazy deletion never loses or duplicates work: a pending URL has exactly one
\* live item, with the key of its record, and any other URL has none.
THEOREM HeapsAreIndexes == FrontierSpec => []HeapsIndexPending
<1>1. FrontierInv => HeapsIndexPending
  <2> SUFFICES ASSUME FrontierInv, NEW u \in DOMAIN entries
               PROVE  LET w == LiveWaiting(u)
                          r == LiveReady(u)
                      IN IF u \in Pending
                         THEN /\ Cardinality(w) + Cardinality(r) = 1
                              /\ \A i \in w : i.at = entries[u].readyAt
                              /\ \A i \in r : i.priority = entries[u].priority
                         ELSE w = {} /\ r = {}
    BY DEF HeapsIndexPending
  <2> DEFINE h == Info[u].host
             w == LiveWaiting(u)
             r == LiveReady(u)
  <2>1. h \in Host
    BY HostOfUrl DEF FrontierInv, TypeOK
  <2>2. HeapsIndex(h, hosts[h]) /\ HeapsDistinct(hosts[h])
    BY <2>1 DEF FrontierInv, HeapsSound, HeapsComplete
  <2>3. CASE u \notin Pending
    BY <2>3 DEF LiveWaiting, LiveReady, Live, Pending
  <2>4. CASE u \in Pending
    <3>1. PICK i \in hosts[h].waiting \cup hosts[h].ready : i.url = u /\ Live(i)
      BY <2>2, <2>4 DEF HeapsIndex
    <3>2. \A j : j \in w => j \in hosts[h].waiting /\ j.url = u /\ Live(j) /\ SameGeneration(j, i)
      BY <3>1 DEF LiveWaiting, Live, SameGeneration
    <3>3. \A j : j \in r => j \in hosts[h].ready /\ j.url = u /\ Live(j) /\ SameGeneration(i, j)
      BY <3>1 DEF LiveReady, Live, SameGeneration
    <3>4. (w = {i} /\ r = {}) \/ (w = {} /\ r = {i})
      <4>1. CASE i \in hosts[h].waiting
        <5>1. i \in w
          BY <3>1, <4>1 DEF LiveWaiting
        <5>2. w = {i} /\ r = {}
          BY <2>2, <3>2, <3>3, <4>1, <5>1 DEF HeapsDistinct
        <5> QED BY <5>2
      <4>2. CASE i \in hosts[h].ready
        <5>1. i \in r
          BY <3>1, <4>2 DEF LiveReady
        <5>2. \A j \in r : j = i
          BY <2>2, <3>3, <4>2 DEF HeapsDistinct
        <5>3. w = {}
          BY <2>2, <3>2, <4>2 DEF HeapsDistinct
        <5> QED BY <5>1, <5>2, <5>3
      <4> QED BY <3>1, <4>1, <4>2
    <3>5. Cardinality(w) + Cardinality(r) = 1
      <4> HIDE DEF w, r
      <4>1. Cardinality({i}) = 1 /\ Cardinality({}) = 0
        BY FS_EmptySet, FS_Singleton
      <4> QED BY <3>4, <4>1
    <3>6. /\ \A j \in w : j.at = entries[u].readyAt
          /\ \A j \in r : j.priority = entries[u].priority
      BY <2>2, <3>2, <3>3 DEF HeapsIndex
    <3> QED BY <2>4, <3>5, <3>6
  <2> QED BY <2>3, <2>4
<1> QED BY <1>1, FrontierInvariant, PTL

\* Heaps that advance and keep their live items still index the pending URLs.
LEMMA AdvancedIndex ==
  ASSUME FrontierInv, NEW h \in Host, NEW H, HeapsAdvance(h, H), HeapsKeep(h, H, Url)
  PROVE  HeapsIndex(h, H)
<1>1. HeapsIndex(h, hosts[h])
  BY DEF FrontierInv, HeapsComplete
<1>2. ASSUME NEW u \in Pending, Info[u].host = h
      PROVE  \E i \in H.waiting \cup H.ready : i.url = u /\ Live(i)
  <2>1. PICK i \in hosts[h].waiting \cup hosts[h].ready : i.url = u /\ Live(i)
    BY <1>1, <1>2 DEF HeapsIndex
  <2>2. u \in Url
    BY DEF Pending, FrontierInv, TypeOK
  <2>3. PICK j \in H.waiting \cup H.ready : SameGeneration(j, i)
    BY <2>1, <2>2 DEF HeapsKeep
  <2> QED BY <2>1, <2>3 DEF SameGeneration, Live
<1>3. \A i \in H.waiting : Live(i) => i.at = entries[i.url].readyAt
  BY <1>1 DEF HeapsAdvance, HeapsIndex
<1>4. ASSUME NEW i \in H.ready, Live(i)
      PROVE  i.priority = entries[i.url].priority /\ entries[i.url].readyAt <= now
  <2>1. CASE i \in hosts[h].ready
    BY <1>1, <1>4, <2>1 DEF HeapsIndex
  <2>2. CASE i \notin hosts[h].ready
    <3>1. PICK j \in hosts[h].waiting : /\ SameGeneration(i, j)
                                        /\ i.priority = entries[j.url].priority
                                        /\ j.at <= now
      BY <2>2 DEF HeapsAdvance
    <3> QED BY <1>1, <1>4, <3>1 DEF HeapsIndex, SameGeneration, Live
  <2> QED BY <2>1, <2>2
<1> QED BY <1>2, <1>3, <1>4 DEF HeapsIndex

\* After a scan at the clock, the ready heap of a host holds its due URLs, and
\* the waiting heap the other pending ones.
LEMMA ScannedIndex ==
  ASSUME FrontierInv, NEW h \in Host
  PROVE  /\ \A u \in Due(h, now) : \E i \in Scanned(h, now).ready :
                i.url = u /\ i.priority = entries[u].priority
         /\ \A i \in Scanned(h, now).ready : Live(i) =>
                i.url \in Due(h, now) /\ i.priority = entries[i.url].priority
         /\ \A u \in OnHost(Pending, h) \ Due(h, now) : \E i \in Scanned(h, now).waiting :
                i.url = u /\ Live(i)
         /\ \A i \in Scanned(h, now).waiting : Live(i) =>
                /\ i.url \in OnHost(Pending, h) /\ i.at = entries[i.url].readyAt
                /\ i.at \in Nat /\ i.at > now
<1> DEFINE H == Scanned(h, now)
<1>1. now \in Nat /\ TypeOK /\ HeapsSound
  BY DEF FrontierInv, TypeOK
<1>2. HeapsAdvance(h, H) /\ HeapsKeep(h, H, Url)
  BY <1>1, ScannedAdvance
<1>3. HeapsKnown(h, H) /\ H \in HostState
  BY <1>1, <1>2, AdvancedHeaps DEF HeapsAdvance
<1>4. HeapsIndex(h, H)
  <2> HIDE DEF H
  <2> QED BY <1>2, AdvancedIndex
<1>5. \A i \in H.waiting : i.at \in Nat /\ i.at > now
  <2> DEFINE due == {i \in hosts[h].waiting : i.at <= now}
             P == Promoted(hosts[h], now)
  <2>1. hosts[h] \in HostState /\ P \in HostState
    BY <1>1, PromotedAdvance DEF TypeOK, HeapsAdvance
  <2>2. P.waiting = hosts[h].waiting \ due
    BY <2>1 DEF Promoted, HostState
  <2> HIDE DEF P
  <2>3. H.waiting = P.waiting
    BY <2>1 DEF Scanned, Peeked, P, HostState
  <2>4. \A i \in hosts[h].waiting : i.at \in Nat
    BY <2>1, ItemsAreRecords DEF HostState
  <2> QED BY <1>1, <2>2, <2>3, <2>4
<1>6. \A u \in Pending : entries[u].readyAt \in Nat
  BY DEF Pending, FrontierInv, TypeOK, Entry
<1>7. \A i \in H.waiting \cup H.ready : Live(i) => i.url \in Pending /\ Info[i.url].host = h
  BY <1>3 DEF HeapsKnown, Live, Pending
<1>8. ASSUME NEW u \in Pending, Info[u].host = h
      PROVE  \/ /\ \E i \in H.ready : i.url = u /\ i.priority = entries[u].priority
                /\ entries[u].readyAt <= now
             \/ /\ \E i \in H.waiting : i.url = u /\ Live(i)
                /\ entries[u].readyAt > now
  <2> HIDE DEF H
  <2>1. PICK i \in H.waiting \cup H.ready : i.url = u /\ Live(i)
    BY <1>4, <1>8 DEF HeapsIndex
  <2>2. CASE i \in H.ready
    BY <1>4, <2>1, <2>2 DEF HeapsIndex
  <2>3. CASE i \in H.waiting
    BY <1>4, <1>5, <2>1, <2>3 DEF HeapsIndex
  <2> QED BY <2>1, <2>2, <2>3
<1> HIDE DEF H
<1>9. \A u \in Due(h, now) : \E i \in H.ready : i.url = u /\ i.priority = entries[u].priority
  BY <1>1, <1>6, <1>8 DEF Due
<1>10. \A i \in H.ready : Live(i) =>
          i.url \in Due(h, now) /\ i.priority = entries[i.url].priority
  BY <1>4, <1>7 DEF HeapsIndex, Due
<1>11. \A u \in OnHost(Pending, h) \ Due(h, now) : \E i \in H.waiting :
          i.url = u /\ Live(i)
  BY <1>8 DEF Due, OnHost
<1>12. \A i \in H.waiting : Live(i) =>
          /\ i.url \in OnHost(Pending, h) /\ i.at = entries[i.url].readyAt
          /\ i.at \in Nat /\ i.at > now
  BY <1>4, <1>5, <1>7 DEF HeapsIndex, OnHost
<1> QED BY <1>9, <1>10, <1>11, <1>12 DEF H

-----------------------------------------------------------------------------
(* Fairness of claims *)

\* A lease is the only step that claims.
LEMMA OnlyLeasesClaim ==
  ASSUME [FrontierNext]_clockedVars, claimed' # claimed
  PROVE  ClaimLease /\ UNCHANGED now
<1>1. CASE AdmitSome
  <2>1. PICK spelling \in Link, d \in Depths, p \in Priorities, par \in Parents,
          delay \in ReadyDelays : Admit(spelling, d, p, par, now + delay)
    BY <1>1 DEF AdmitSome
  <2> QED BY <2>1 DEF Admit, AdmitNew, Reprioritize, frontierVars
<1>2. CASE Claim /\ UNCHANGED now
  BY <1>2 DEF Claim, ClaimOverBudget, ClaimNothing
<1>3. CASE ResolveSome
  <2>1. PICK u \in DOMAIN entries : \E attempt \in 1 .. entries[u].attempts :
               Resolve(u, attempt)
    BY <1>3 DEF ResolveSome
  <2> QED BY <2>1 DEF Resolve, Succeed, FailPermanently, FailExhausted, FailRetry, Finish
<1>4. CASE \/ CancelPending /\ UNCHANGED now
           \/ NextWakeAt /\ UNCHANGED now
           \/ Tick
           \/ UNCHANGED clockedVars
  BY <1>4 DEF CancelPending, NextWakeAt, Tick, clockedVars, frontierVars
<1> QED BY <1>1, <1>2, <1>3, <1>4 DEF FrontierNext

\* A host with claimable work is a candidate.
LEMMA ClaimableIsCandidate ==
  ASSUME FrontierInv, NEW h \in Host, Claimable(h, now)
  PROVE  h \in Candidates(now)
<1>1. Scanned(h, now).ready # {}
  BY ScannedIndex DEF Claimable
<1>2. hosts[h].fetches \in Nat /\ HostFetchLimit \in Nat
  BY ConfigIsNat DEF FrontierInv, TypeOK, HostState
<1> QED BY <1>1, <1>2 DEF Candidates, Claimable, Exhausted

\* A claim leases the most urgent due URL of the host served longest ago among
\* those with claimable work.
LEMMA LeaseIsFair ==
  ASSUME FrontierInv, ClaimLease
  PROVE  \E u \in InFlight' \ InFlight :
           LET g == Info[u].host
           IN /\ Claimable(g, now)
              /\ \A h \in Host : Claimable(h, now) =>
                   hosts[g].lastServed <= hosts[h].lastServed
              /\ \A v \in Due(g, now) \ {u} :
                   \/ entries[u].priority > entries[v].priority
                   \/ /\ entries[u].priority = entries[v].priority
                      /\ entries[u].order < entries[v].order
<1> DEFINE g == SelectedHost
           top == HeapTop(Scanned(g, now).ready)
           u == top.url
<1>1. Candidates(now) # {} /\ now \in Nat
  BY DEF ClaimLease, FrontierInv, TypeOK
<1>2. /\ g \in Host /\ ~Exhausted(g) /\ Scanned(g, now).ready # {}
      /\ hosts[g].nextAllowed <= now
      /\ \A h \in Candidates(now) \ {g} : ServedBefore(g, h)
  BY <1>1, SelectedIsFirst DEF Candidates
<1>3. /\ top \in Scanned(g, now).ready /\ Live(top) /\ top.priority \in Int
      /\ u \in Pending /\ Info[u].host = g
      /\ \A j \in Scanned(g, now).ready \ {top} : ReadyBefore(top, j)
  BY <1>1, <1>2, ScannedTop
<1>4. entries' = [DrainedEntries EXCEPT ![u].state = "IN_FLIGHT", ![u].attempts = @ + 1]
  BY DEF ClaimLease
<1> HIDE DEF g, top
<1>5. u \in Due(g, now) /\ top.priority = entries[u].priority
  BY <1>2, <1>3, ScannedIndex
<1>6. u \in InFlight' \ InFlight
  <2>1. /\ DOMAIN DrainedEntries = DOMAIN entries /\ u \in DOMAIN entries
        /\ DrainedEntries[u] \in Entry
    BY <1>3, DrainedRecords DEF Pending, RecordSettles, RecordAdvances
  <2>2. u \in DOMAIN entries' /\ entries'[u].state = "IN_FLIGHT"
    BY <1>4, <2>1 DEF Entry
  <2> QED BY <1>3, <2>2 DEF InFlight, Pending, PendingStates
<1>7. Claimable(g, now)
  <2>1. hosts[g].fetches \in Nat /\ HostFetchLimit \in Nat
    BY <1>2, ConfigIsNat DEF FrontierInv, TypeOK, HostState
  <2> QED BY <1>2, <1>5, <2>1 DEF Claimable, Exhausted
<1>8. ASSUME NEW h \in Host, Claimable(h, now)
      PROVE  hosts[g].lastServed <= hosts[h].lastServed
  <2>1. hosts[g].lastServed \in Int /\ hosts[h].lastServed \in Int
    BY <1>2 DEF FrontierInv, TypeOK, HostState
  <2>2. h = g \/ ServedBefore(g, h)
    BY <1>2, <1>8, ClaimableIsCandidate
  <2> QED BY <2>1, <2>2 DEF ServedBefore
<1>9. ASSUME NEW v \in Due(g, now) \ {u}
      PROVE  \/ entries[u].priority > entries[v].priority
             \/ /\ entries[u].priority = entries[v].priority
                /\ entries[u].order < entries[v].order
  <2>1. PICK j \in Scanned(g, now).ready : j.url = v /\ j.priority = entries[v].priority
    BY <1>2, ScannedIndex
  <2>2. ReadyBefore(top, j)
    BY <1>3, <2>1
  <2>3. v \in DOMAIN entries /\ u \in DOMAIN entries
    BY <1>3 DEF Due, Pending
  <2>4. entries[u].order # entries[v].order
    BY <2>3 DEF FrontierInv, OrdersDistinct
  <2> QED BY <1>5, <2>1, <2>2, <2>4 DEF ReadyBefore
<1> QED BY <1>3, <1>6, <1>7, <1>8, <1>9

\* A claim takes the most urgent due URL of the least recently served host
\* with claimable work, the first admitted among equals.
THEOREM ClaimsAreFair == FrontierSpec => ClaimIsFair
<1>1. ASSUME FrontierInv, [FrontierNext]_clockedVars, claimed' > claimed
      PROVE  ClaimLease
  <2>1. claimed' # claimed
    BY <1>1 DEF FrontierInv, TypeOK
  <2> QED BY <1>1, <2>1, OnlyLeasesClaim
<1>2. FrontierInv /\ [FrontierNext]_clockedVars
        => [claimed' > claimed =>
              \E u \in InFlight' \ InFlight :
                LET g == Info[u].host
                IN /\ Claimable(g, now)
                   /\ \A h \in Host : Claimable(h, now) =>
                        hosts[g].lastServed <= hosts[h].lastServed
                   /\ \A v \in Due(g, now) \ {u} :
                        \/ entries[u].priority > entries[v].priority
                        \/ /\ entries[u].priority = entries[v].priority
                           /\ entries[u].order < entries[v].order]_clockedVars
  BY <1>1, LeaseIsFair
<1> QED BY <1>2, FrontierInvariant, PTL DEF FrontierSpec, ClaimIsFair

-----------------------------------------------------------------------------
(* Waking up *)

\* The later of two times is one of them and bounds both.
LEMMA LaterOfTimes ==
  ASSUME NEW a \in Nat, NEW b \in Nat
  PROVE  /\ LaterOf(a, b) \in Nat /\ LaterOf(a, b) >= a /\ LaterOf(a, b) >= b
         /\ LaterOf(a, b) = a \/ LaterOf(a, b) = b
BY DEF LaterOf

\* w is when host h is worth waking up for: some pending URL is ready by then,
\* and before then either none is or the host's politeness clock forbids it.
WakesAt(h, w) ==
  /\ w \in Nat /\ w >= now /\ w >= hosts[h].nextAllowed
  /\ \E u \in OnHost(Pending, h) : entries[u].readyAt <= w
  /\ \A t \in Nat : now <= t /\ t < w =>
       \/ t < hosts[h].nextAllowed
       \/ \A u \in OnHost(Pending, h) : entries[u].readyAt > t

\* The time next_wake_at computes for a host with pending URLs is that one.
LEMMA WakeTimesOfHost ==
  ASSUME FrontierInv, NEW h \in Host
  PROVE  IF OnHost(Pending, h) = {} THEN WakeTimes(h) = {}
         ELSE \E w \in Nat : WakeTimes(h) = {w} /\ WakesAt(h, w)
<1> DEFINE H == Scanned(h, now)
           P == OnHost(Pending, h)
           ats == {i.at : i \in {j \in H.waiting : Live(j)}}
           times == IF H.ready # {} THEN {now} ELSE ats
           allowed == hosts[h].nextAllowed
           first == {t \in times : \A r \in times : t <= r}
<1>1. now \in Nat /\ allowed \in Nat
  BY DEF FrontierInv, TypeOK, HostState
<1>2. \A u \in P : entries[u].readyAt \in Nat /\ u \in Pending /\ Info[u].host = h
  BY DEF OnHost, Pending, FrontierInv, TypeOK, Entry
<1>3. Due(h, now) = {u \in P : entries[u].readyAt <= now}
  BY DEF Due, OnHost
<1>4. WakeTimes(h) = {LaterOf(t, allowed) : t \in first}
  BY DEF WakeTimes
<1>5. H.ready # {} <=> Due(h, now) # {}
  <2>1. ASSUME H.ready # {} PROVE Due(h, now) # {}
    <3> DEFINE top == HeapTop(H.ready)
    <3>1. top \in H.ready /\ Live(top)
      BY <1>1, <2>1, ScannedTop
    <3> HIDE DEF top
    <3> QED BY <3>1, ScannedIndex
  <2>2. ASSUME Due(h, now) # {} PROVE H.ready # {}
    BY <2>2, ScannedIndex
  <2> QED BY <2>1, <2>2
<1>6. CASE H.ready # {}
  <2> DEFINE w == LaterOf(now, allowed)
  <2>1. P # {} /\ \E u \in P : entries[u].readyAt <= now
    BY <1>3, <1>5, <1>6
  <2>2. first = {now}
    BY <1>1, <1>6
  <2>3. WakeTimes(h) = {w}
    BY <1>4, <2>2
  <2>4. w \in Nat /\ w >= now /\ w >= allowed /\ (w = now \/ w = allowed)
    BY <1>1, LaterOfTimes
  <2> HIDE DEF w
  <2>5. WakesAt(h, w)
    BY <1>1, <1>2, <2>1, <2>4 DEF WakesAt
  <2> QED BY <2>1, <2>3, <2>4, <2>5
<1>7. CASE H.ready = {}
  <2>1. Due(h, now) = {}
    BY <1>5, <1>7
  <2>2. ats = {entries[u].readyAt : u \in P}
    <3>1. ASSUME NEW u \in P PROVE entries[u].readyAt \in ats
      BY <2>1, ScannedIndex
    <3>2. ASSUME NEW i \in {j \in H.waiting : Live(j)}
          PROVE  i.url \in P /\ i.at = entries[i.url].readyAt
      BY ScannedIndex
    <3> QED BY <3>1, <3>2
  <2>3. CASE P = {}
    BY <1>4, <1>7, <2>2, <2>3
  <2>4. CASE P # {}
    <3>1. PICK m \in ats : \A t \in ats : m <= t
      <4>1. ats \subseteq Nat /\ ats # {}
        BY <1>2, <2>2, <2>4
      <4> HIDE DEF ats
      <4> QED BY <4>1, LeastNatural
    <3>2. m \in Nat /\ \A t \in ats : t \in Nat
      BY <1>2, <2>2
    <3>3. first = {m}
      <4>1. times = ats
        BY <1>7
      <4> HIDE DEF ats, times
      <4>2. \A t \in first : t = m
        BY <3>1, <3>2, <4>1
      <4>3. m \in first
        BY <3>1, <3>2, <4>1
      <4> QED BY <4>2, <4>3
    <3> DEFINE w == LaterOf(m, allowed)
    <3>4. w \in Nat /\ w >= m /\ w >= allowed /\ (w = m \/ w = allowed)
      BY <1>1, <3>2, LaterOfTimes
    <3>5. WakeTimes(h) = {w}
      BY <1>4, <3>3
    <3> HIDE DEF w
    <3>6. (\E u \in P : entries[u].readyAt = m) /\ \A u \in P : m <= entries[u].readyAt
      BY <2>2, <3>1
    <3>7. m > now
      BY <1>1, <1>2, <1>3, <2>1, <3>6
    <3>8. WakesAt(h, w)
      BY <1>1, <1>2, <3>2, <3>4, <3>6, <3>7 DEF WakesAt
    <3> QED BY <2>4, <3>4, <3>5, <3>8
  <2> QED BY <2>3, <2>4
<1> QED BY <1>6, <1>7

\* Sleeping until next_wake_at neither oversleeps nor spins, whatever the hosts'
\* clocks, the retries and the ready times.
THEOREM WakeTimesAreExact == FrontierSpec => []WakeTimeExact
<1>1. FrontierInv => WakeTimeExact
  <2> SUFFICES ASSUME FrontierInv PROVE WakeTimeExact
    OBVIOUS
  <2>0. now \in Nat
    BY DEF FrontierInv, TypeOK
  <2>1. ASSUME NEW u \in Pending PROVE Info[u].host \in Host /\ u \in OnHost(Pending, Info[u].host)
    BY HostOfUrl DEF Pending, OnHost, FrontierInv, TypeOK
  <2>2. \A h \in Host : \A w \in WakeTimes(h) : w \in Nat /\ WakesAt(h, w)
    BY WakeTimesOfHost
  <2>3. \A w \in AllWakeTimes : w \in Nat /\ \E h \in Host : WakesAt(h, w)
    BY <2>2 DEF AllWakeTimes
  <2>4. \A h \in Host : OnHost(Pending, h) # {} =>
          \E w \in AllWakeTimes : WakeTimes(h) = {w} /\ WakesAt(h, w)
    BY WakeTimesOfHost DEF AllWakeTimes
  <2>5. AllWakeTimes = {} <=> Pending = {}
    <3>1. ASSUME Pending = {} PROVE AllWakeTimes = {}
      BY <3>1, <2>3 DEF WakesAt, OnHost
    <3>2. ASSUME Pending # {} PROVE AllWakeTimes # {}
      BY <3>2, <2>1, <2>4
    <3> QED BY <3>1, <3>2
  <2>6. ASSUME AllWakeTimes # {}, NEW wake, wake = Min(AllWakeTimes)
        PROVE  /\ wake >= now
               /\ \A t \in now .. wake - 1 : \A h \in Host : ~Claimable(h, t)
               /\ \E h \in Host : \/ Claimable(h, wake)
                                  \/ Exhausted(h) /\ OnHost(Pending, h) # {}
    <3>1. \E x \in AllWakeTimes : \A y \in AllWakeTimes : x <= y
      <4>1. AllWakeTimes \subseteq Nat
        BY <2>3
      <4> QED BY <2>6, <4>1, LeastNatural
    <3>2. wake \in AllWakeTimes /\ \A y \in AllWakeTimes : wake <= y
      BY <2>6, <3>1 DEF Min
    <3>3. PICK g \in Host : wake \in Nat /\ WakesAt(g, wake)
      BY <2>3, <3>2
    <3>4. ASSUME NEW t \in now .. wake - 1, NEW h \in Host, Claimable(h, t) PROVE FALSE
      <4>1. PICK u \in Pending : Info[u].host = h /\ entries[u].readyAt <= t
        BY <3>4 DEF Claimable, Due
      <4>2. u \in OnHost(Pending, h) /\ entries[u].readyAt \in Nat
        BY <4>1 DEF OnHost, Pending, FrontierInv, TypeOK, Entry
      <4>3. PICK w \in AllWakeTimes : WakesAt(h, w)
        BY <2>4, <4>2
      <4>4. t \in Nat /\ now <= t /\ t < w
        BY <2>0, <2>3, <3>2, <3>3, <4>3
      <4>5. t >= hosts[h].nextAllowed /\ hosts[h].nextAllowed \in Nat
        BY <3>4 DEF Claimable, FrontierInv, TypeOK, HostState
      <4> QED BY <4>1, <4>2, <4>3, <4>4, <4>5 DEF WakesAt
    <3>5. Claimable(g, wake) \/ (Exhausted(g) /\ OnHost(Pending, g) # {})
      <4>1. PICK u \in OnHost(Pending, g) : entries[u].readyAt <= wake
        BY <3>3 DEF WakesAt
      <4>2. u \in Due(g, wake)
        BY <4>1 DEF Due, OnHost
      <4>3. hosts[g].fetches \in Nat /\ HostFetchLimit \in Nat
        BY ConfigIsNat DEF FrontierInv, TypeOK, HostState
      <4> QED BY <3>3, <4>1, <4>2, <4>3 DEF Claimable, Exhausted, WakesAt
    <3>6. wake >= now
      BY <3>3 DEF WakesAt
    <3> QED BY <3>3, <3>4, <3>5, <3>6
  <2> QED BY <2>5, <2>6 DEF WakeTimeExact
<1> QED BY <1>1, FrontierInvariant, PTL

-----------------------------------------------------------------------------
(* The frontier implements the abstract one *)

\* The abstract frontier counts and adds up as the frontier does.
LEMMA QueueCounts ==
  /\ \A S : Queue!Cardinality(S) = Cardinality(S)
  /\ \A f, S : Queue!SumFunctionOnSet(f, S) = SumFunctionOnSet(f, S)
<1>1. \A S : Queue!Cardinality(S) = Cardinality(S)
  BY DEF Cardinality, Queue!Cardinality, ExistsBijection, Queue!ExistsBijection,
         Bijection, Queue!Bijection, Injection, Queue!Injection, Surjection,
         Queue!Surjection, IsInjective, Queue!IsInjective
<1>2. \A f, S : Queue!SumFunctionOnSet(f, S) = SumFunctionOnSet(f, S)
  BY DEF SumFunctionOnSet, Queue!SumFunctionOnSet, FoldFunctionOnSet,
         Queue!FoldFunctionOnSet, MapThenFoldSet, Queue!MapThenFoldSet
<1> QED BY <1>1, <1>2

\* The page of a record.
LEMMA PageFields ==
  ASSUME NEW e \in Entry
  PROVE  /\ PageOf(e).depth = e.depth /\ PageOf(e).priority = e.priority
         /\ PageOf(e).parent = e.parent /\ PageOf(e).order = e.order
         /\ PageOf(e).attempts = e.attempts /\ PageOf(e).readyAt = e.readyAt
         /\ PageOf(e).reason = e.reason
         /\ PageOf(e).state = "pending" <=> e.state \in PendingStates
         /\ PageOf(e).state = "leased" <=> e.state = "IN_FLIGHT"
         /\ PageOf(e).state = "settled" <=> e.state = "TERMINAL"
         /\ PageOf(e).state \in {"pending", "leased", "settled"}
BY DEF PageOf, Entry, PendingStates

\* A record that is terminated.
LEMMA SettledPage ==
  ASSUME NEW e \in Entry, NEW reason \in TerminalReasons
  PROVE  PageOf(Terminated(e, reason)) =
           [PageOf(e) EXCEPT !.state = "settled", !.reason = reason]
<1> DEFINE f == Terminated(e, reason)
<1>1. /\ f \in Entry /\ f.state = "TERMINAL" /\ f.reason = reason
      /\ f.depth = e.depth /\ f.priority = e.priority /\ f.parent = e.parent
      /\ f.order = e.order /\ f.attempts = e.attempts
  BY TerminatedRecord
<1>2. f.readyAt = e.readyAt
  BY DEF Terminated, Entry
<1> HIDE DEF f
<1>3. PageOf(f) = [depth |-> e.depth, priority |-> e.priority, parent |-> e.parent,
                   order |-> e.order, state |-> "settled", attempts |-> e.attempts,
                   readyAt |-> e.readyAt, reason |-> reason]
  BY <1>1, <1>2 DEF PageOf, PendingStates
<1> DEFINE s == CASE e.state \in PendingStates -> "pending"
                  [] e.state = "IN_FLIGHT" -> "leased"
                  [] e.state = "TERMINAL" -> "settled"
           g == PageOf(e)
<1>4. g = [depth |-> e.depth, priority |-> e.priority, parent |-> e.parent,
           order |-> e.order, state |-> s, attempts |-> e.attempts,
           readyAt |-> e.readyAt, reason |-> e.reason]
  BY DEF PageOf
<1> HIDE DEF s, g
<1>5. [g EXCEPT !.state = "settled", !.reason = reason] =
        [depth |-> e.depth, priority |-> e.priority, parent |-> e.parent,
         order |-> e.order, state |-> "settled", attempts |-> e.attempts,
         readyAt |-> e.readyAt, reason |-> reason]
  <2> DEFINE g1 == [g EXCEPT !.state = "settled"]
  <2>1. g1 = [depth |-> e.depth, priority |-> e.priority, parent |-> e.parent,
              order |-> e.order, state |-> "settled", attempts |-> e.attempts,
              readyAt |-> e.readyAt, reason |-> e.reason]
    BY <1>4
  <2>2. [g EXCEPT !.state = "settled", !.reason = reason] = [g1 EXCEPT !.reason = reason]
    BY <1>4
  <2> HIDE DEF g1
  <2> QED BY <2>1, <2>2
<1>6. PageOf(f) = [g EXCEPT !.state = "settled", !.reason = reason]
  BY <1>3, <1>5
<1> QED BY <1>6 DEF f, g

\* The pages of a state.
LEMMA QueueReads ==
  ASSUME TypeOK
  PROVE  /\ DOMAIN Pages = DOMAIN entries
         /\ \A u \in DOMAIN entries : Pages[u] = PageOf(entries[u]) /\ entries[u] \in Entry
         /\ Queue!In("pending") = Pending
         /\ Queue!In("leased") = InFlight
         /\ \A h \in Host : Queue!DueOn(h) = Due(h, now)
         /\ \A S, h : S \subseteq Url => Queue!Among(S, h) = OnHost(S, h)
<1>1. /\ DOMAIN Pages = DOMAIN entries /\ DOMAIN entries \subseteq Url
      /\ \A u \in DOMAIN entries : Pages[u] = PageOf(entries[u]) /\ entries[u] \in Entry
  BY DEF Pages, TypeOK
<1>2. \A u \in DOMAIN entries :
        /\ Pages[u].state = "pending" <=> entries[u].state \in PendingStates
        /\ Pages[u].state = "leased" <=> entries[u].state = "IN_FLIGHT"
        /\ Pages[u].readyAt = entries[u].readyAt
  BY <1>1, PageFields
<1>3. Queue!In("pending") = Pending /\ Queue!In("leased") = InFlight
  BY <1>1, <1>2 DEF Queue!In, Pending, InFlight
<1>4. \A S, h : S \subseteq Url => Queue!Among(S, h) = OnHost(S, h)
  BY DEF Queue!Among, OnHost
<1>5. ASSUME NEW h \in Host PROVE Queue!DueOn(h) = Due(h, now)
  <2>1. Pending \subseteq DOMAIN entries /\ Pending \subseteq Url
    BY <1>1 DEF Pending
  <2>2. Queue!DueOn(h) = {u \in OnHost(Pending, h) : Pages[u].readyAt <= now}
    BY <1>3, <1>4, <2>1 DEF Queue!DueOn
  <2> QED BY <1>2, <2>1, <2>2 DEF Due, OnHost
<1> QED BY <1>1, <1>3, <1>4, <1>5

\* Its sums over pages are the counters of the frontier, and a page can be served
\* where a claim finds its record.
LEMMA QueueBudgets ==
  ASSUME FrontierInv
  PROVE  /\ Queue!Leases(DOMAIN Pages) = claimed
         /\ Queue!Spent <=> claimed >= GlobalFetchLimit
         /\ \A h \in Host : Queue!SpentOn(h) <=> Exhausted(h)
         /\ \A h \in Host : Queue!Servable(h) <=> Claimable(h, now)
         /\ Queue!OnSpentHosts = {u \in DOMAIN entries : Exhausted(Info[u].host)}
         /\ Queue!Cardinality(DOMAIN Pages) = admitted
         /\ \A h \in Host : Queue!Cardinality(Queue!Among(DOMAIN Pages, h)) = hosts[h].admitted
<1>0. TypeOK /\ CountersExact /\ DOMAIN entries \subseteq Url
  BY DEF FrontierInv, TypeOK
<1>1. DOMAIN Pages = DOMAIN entries
  BY <1>0, QueueReads
<1>2. \A S : Queue!Leases(S) = AttemptsOf(S)
  <2>1. [u \in DOMAIN Pages |-> Pages[u].attempts] = Attempts
    BY <1>0, <1>1, QueueReads, PageFields DEF Attempts
  <2> QED BY <2>1, QueueCounts DEF Queue!Leases, AttemptsOf
<1>3. Queue!Leases(DOMAIN Pages) = claimed
  BY <1>0, <1>1, <1>2 DEF CountersExact
<1>4. \A h : Queue!Among(DOMAIN Pages, h) = OnHost(DOMAIN entries, h)
  BY <1>0, <1>1, QueueReads
<1>5. \A h \in Host : /\ Queue!Leases(Queue!Among(DOMAIN Pages, h)) = hosts[h].fetches
                      /\ Cardinality(Queue!Among(DOMAIN Pages, h)) = hosts[h].admitted
  BY <1>0, <1>2, <1>4 DEF CountersExact
<1>6. \A h \in Host : Queue!SpentOn(h) <=> Exhausted(h)
  BY <1>5 DEF Queue!SpentOn, Exhausted
<1>7. ASSUME NEW h \in Host PROVE Queue!Servable(h) <=> Claimable(h, now)
  <2>1. hosts[h].fetches \in Nat /\ HostFetchLimit \in Nat
    BY <1>0, ConfigIsNat DEF TypeOK, HostState
  <2>2. Queue!DueOn(h) = Due(h, now) /\ (Queue!SpentOn(h) <=> Exhausted(h))
    BY <1>0, <1>6, QueueReads
  <2>3. Allowed[h] = hosts[h].nextAllowed
    BY DEF Allowed
  <2> QED BY <2>1, <2>2, <2>3 DEF Queue!Servable, Claimable, Exhausted
<1>8. Queue!OnSpentHosts = {u \in DOMAIN entries : Exhausted(Info[u].host)}
  <2>1. \A u \in DOMAIN entries : Info[u].host \in Host
                                  /\ [v \in Url |-> Info[v].host][u] = Info[u].host
    BY <1>0, HostOfUrl
  <2> QED BY <1>1, <1>6, <2>1 DEF Queue!OnSpentHosts
<1>9. Queue!Cardinality(DOMAIN Pages) = admitted
  BY <1>0, <1>1, QueueCounts DEF CountersExact
<1> QED BY <1>3, <1>5, <1>6, <1>7, <1>8, <1>9, QueueCounts DEF Queue!Spent

\* Terminating the pending records of some hosts settles their pages.
LEMMA PagesTerminated ==
  ASSUME TypeOK, NEW H, NEW S, NEW reason \in TerminalReasons,
         \A u \in Pending : u \in S <=> Info[u].host \in H
  PROVE  /\ [u \in DOMAIN entries |-> PageOf(PendingTerminated(H, reason)[u])] =
              Queue!SettledIn(S, reason)
         /\ DOMAIN PendingTerminated(H, reason) = DOMAIN entries
<1> DEFINE E == PendingTerminated(H, reason)
<1>1. /\ DOMAIN E = DOMAIN entries
      /\ \A u \in DOMAIN entries :
           E[u] = IF u \in Pending /\ u \in S THEN Terminated(entries[u], reason) ELSE entries[u]
  BY DEF PendingTerminated
<1>2. /\ DOMAIN Pages = DOMAIN entries
      /\ \A u \in DOMAIN entries : Pages[u] = PageOf(entries[u]) /\ entries[u] \in Entry
      /\ Queue!In("pending") = Pending
  BY QueueReads
<1> HIDE DEF E
<1>3. ASSUME NEW u \in DOMAIN entries
      PROVE  PageOf(E[u]) = IF u \in S \cap Queue!In("pending")
                            THEN [Pages[u] EXCEPT !.state = "settled", !.reason = reason]
                            ELSE Pages[u]
  <2>1. CASE u \in S \cap Queue!In("pending")
    <3>1. E[u] = Terminated(entries[u], reason)
      BY <1>1, <1>2, <2>1
    <3>2. PageOf(Terminated(entries[u], reason)) =
            [Pages[u] EXCEPT !.state = "settled", !.reason = reason]
      <4>1. entries[u] \in Entry /\ Pages[u] = PageOf(entries[u])
        BY <1>2
      <4> QED BY <4>1, SettledPage
    <3> QED BY <2>1, <3>1, <3>2
  <2>2. CASE u \notin S \cap Queue!In("pending")
    BY <1>1, <1>2, <2>2
  <2> QED BY <2>1, <2>2
<1>4. [u \in DOMAIN entries |-> PageOf(E[u])] = Queue!SettledIn(S, reason)
  BY <1>2, <1>3 DEF Queue!SettledIn
<1> QED BY <1>1, <1>4 DEF E

\* A cancellation is one of the abstract frontier.
LEMMA CancelIsCancel ==
  ASSUME FrontierInv, CancelPending, UNCHANGED now
  PROVE  Queue!CancelPages
<1>0. TypeOK /\ "CANCELLED" \in TerminalReasons
  BY DEF FrontierInv, TerminalReasons, FailureReasons
<1>1. \A u \in Pending : u \in DOMAIN Pages <=> Info[u].host \in Host
  BY <1>0, HostOfUrl, QueueReads DEF Pending, TypeOK
<1>2. Pages' = Queue!SettledIn(DOMAIN Pages, "CANCELLED")
  BY <1>0, <1>1, PagesTerminated DEF CancelPending, Pages
<1>3. Served' = Served /\ Allowed' = Allowed /\ now' = now
  BY DEF CancelPending, Served, Allowed
<1> QED BY <1>2, <1>3 DEF Queue!CancelPages

\* A scan moves items between heaps and nothing else of a host.
LEMMA ScanKeepsClocks ==
  ASSUME TypeOK, NEW h \in Host
  PROVE  /\ Scanned(h, now).lastServed = hosts[h].lastServed
         /\ Scanned(h, now).nextAllowed = hosts[h].nextAllowed
         /\ Pruned(Scanned(h, now)).lastServed = hosts[h].lastServed
         /\ Pruned(Scanned(h, now)).nextAllowed = hosts[h].nextAllowed
<1> DEFINE P == Promoted(hosts[h], now)
           H == Peeked(P)
<1>1. /\ hosts[h] \in HostState
      /\ P.lastServed = hosts[h].lastServed /\ P.nextAllowed = hosts[h].nextAllowed
      /\ DOMAIN P = DOMAIN hosts[h]
  BY DEF TypeOK, HostState, Promoted
<1> HIDE DEF P
<1>2. /\ H.lastServed = P.lastServed /\ H.nextAllowed = P.nextAllowed
      /\ DOMAIN H = DOMAIN P
  BY <1>1 DEF Peeked, HostState
<1> HIDE DEF H
<1>3. Pruned(H).lastServed = H.lastServed /\ Pruned(H).nextAllowed = H.nextAllowed
  BY <1>1, <1>2 DEF Pruned, HostState
<1>4. Scanned(h, now) = H
  BY DEF Scanned, H, P
<1> QED BY <1>1, <1>2, <1>3, <1>4

\* Asking for the next wake-up time moves heap items only: pages do not change.
LEMMA WakeIsStutter ==
  ASSUME FrontierInv, NextWakeAt, UNCHANGED now
  PROVE  UNCHANGED <<Pages, Served, Allowed, now>>
<1>1. entries' = entries /\ hosts' = [h \in Host |-> Pruned(Scanned(h, now))]
  BY DEF NextWakeAt
<1>2. \A h \in Host : /\ hosts'[h].lastServed = hosts[h].lastServed
                      /\ hosts'[h].nextAllowed = hosts[h].nextAllowed
  BY <1>1, ScanKeepsClocks DEF FrontierInv
<1> QED BY <1>1, <1>2 DEF Pages, Served, Allowed

\* Nor does the pass over the hosts that a claim makes move their clocks.
LEMMA ScannedClocks ==
  ASSUME FrontierInv
  PROVE  \A h \in Host : /\ ScannedHosts[h].lastServed = hosts[h].lastServed
                         /\ ScannedHosts[h].nextAllowed = hosts[h].nextAllowed
BY ScanKeepsClocks DEF ScannedHosts, FrontierInv

\* Draining the hosts out of budget.
LEMMA PagesDrained ==
  ASSUME FrontierInv
  PROVE  /\ [u \in DOMAIN entries |-> PageOf(DrainedEntries[u])] =
              Queue!SettledIn(Queue!OnSpentHosts, "HOST_FETCH_BUDGET")
         /\ DOMAIN DrainedEntries = DOMAIN entries
<1>0. TypeOK /\ "HOST_FETCH_BUDGET" \in TerminalReasons
  BY DEF FrontierInv, TerminalReasons
<1>1. \A u \in Pending : u \in Queue!OnSpentHosts <=> Info[u].host \in {h \in Host : Exhausted(h)}
  BY <1>0, HostOfUrl, QueueBudgets DEF Pending, TypeOK
<1> QED BY <1>0, <1>1, PagesTerminated DEF DrainedEntries

\* A claim over the global budget settles everything that is pending.
LEMMA OverBudgetIsNoLease ==
  ASSUME FrontierInv, ClaimOverBudget, UNCHANGED now
  PROVE  Queue!NoLease
<1>0. TypeOK /\ "GLOBAL_FETCH_BUDGET" \in TerminalReasons
  BY DEF FrontierInv, TerminalReasons
<1>1. \A u \in Pending : u \in DOMAIN Pages <=> Info[u].host \in Host
  BY <1>0, HostOfUrl, QueueReads DEF Pending, TypeOK
<1>2. Pages' = Queue!SettledIn(DOMAIN Pages, "GLOBAL_FETCH_BUDGET")
  BY <1>0, <1>1, PagesTerminated DEF ClaimOverBudget, Pages
<1>3. Served' = Served /\ Allowed' = Allowed /\ now' = now
  BY DEF ClaimOverBudget, Served, Allowed
<1>4. Queue!Spent
  BY QueueBudgets DEF ClaimOverBudget
<1> QED BY <1>2, <1>3, <1>4 DEF Queue!NoLease

\* A claim without candidates: no host can be served.
LEMMA NothingIsNoLease ==
  ASSUME FrontierInv, ClaimNothing, UNCHANGED now
  PROVE  Queue!NoLease
<1>1. /\ claimed < GlobalFetchLimit /\ Candidates(now) = {}
      /\ hosts' = ScannedHosts /\ entries' = DrainedEntries
  BY DEF ClaimNothing
<1>2. ~Queue!Spent /\ \A h \in Host : ~Queue!Servable(h)
  <2>1. claimed \in Nat /\ GlobalFetchLimit \in Nat
    BY ConfigIsNat DEF FrontierInv, TypeOK
  <2> QED BY <1>1, <2>1, QueueBudgets, ClaimableIsCandidate
<1>3. Pages' = Queue!SettledIn(Queue!OnSpentHosts, "HOST_FETCH_BUDGET")
  BY <1>1, PagesDrained DEF Pages
<1>4. Served' = Served /\ Allowed' = Allowed /\ now' = now
  BY <1>1, ScannedClocks DEF Served, Allowed
<1> QED BY <1>2, <1>3, <1>4 DEF Queue!NoLease

\* An answer is no part of the page.
LEMMA AnsweredPage ==
  ASSUME NEW e \in Entry, NEW attempt \in Nat
  PROVE  PageOf(Answered(e, attempt)) = PageOf(e)
<1> DEFINE r == Answered(e, attempt)
<1>1. /\ r.state = e.state /\ r.attempts = e.attempts /\ r.order = e.order
      /\ r.depth = e.depth /\ r.priority = e.priority /\ r.parent = e.parent
      /\ r.readyAt = e.readyAt /\ r.reason = e.reason
  BY AnsweredRecord
<1> HIDE DEF r
<1>2. PageOf(r) = PageOf(e)
  BY <1>1 DEF PageOf
<1> QED BY <1>2 DEF r

\* A final outcome settles the page of its lease.
LEMMA FinishIsSettle ==
  ASSUME FrontierInv, NEW u, NEW attempt, Holds(u, attempt),
         NEW reason \in Reasons \cup {"SUCCEEDED", "RETRY_EXHAUSTED"},
         reason = "RETRY_EXHAUSTED" => entries[u].attempts >= Config.maxAttemptsPerUrl,
         Finish(u, attempt, reason), UNCHANGED now
  PROVE  Queue!Settle
<1>0. /\ TypeOK /\ reason \in TerminalReasons /\ u \in DOMAIN entries
      /\ entries[u] \in Entry /\ u \in InFlight /\ attempt \in Nat
  BY DataAssumption DEF FrontierInv, TypeOK, TerminalReasons, InFlight, Holds, Entry
<1>1. /\ entries' = [entries EXCEPT ![u] = Settled(entries[u], attempt, reason)]
      /\ hosts' = hosts /\ now' = now
  BY DEF Finish
<1>2. /\ DOMAIN Pages = DOMAIN entries /\ Queue!In("leased") = InFlight
      /\ \A v \in DOMAIN entries : Pages[v] = PageOf(entries[v])
  BY <1>0, QueueReads
<1>3. Pages' = [Pages EXCEPT ![u].state = "settled", ![u].reason = reason]
  <2> DEFINE p == [Pages[u] EXCEPT !.state = "settled", !.reason = reason]
  <2>1. PageOf(Settled(entries[u], attempt, reason)) = p
    <3>1. Answered(entries[u], attempt) \in Entry
      BY <1>0, AnsweredRecord
    <3>2. PageOf(Answered(entries[u], attempt)) = Pages[u]
      BY <1>0, <1>2, AnsweredPage
    <3> QED BY <1>0, <3>1, <3>2, SettledPage DEF Settled
  <2>2. Pages' = [Pages EXCEPT ![u] = p]
    <3> HIDE DEF p
    <3>1. \A v \in DOMAIN entries : PageOf(entries'[v]) = IF v = u THEN p ELSE Pages[v]
      BY <1>0, <1>1, <1>2, <2>1
    <3>2. DOMAIN entries' = DOMAIN entries
      BY <1>1
    <3>3. Pages' = [v \in DOMAIN entries |-> IF v = u THEN p ELSE Pages[v]]
      BY <3>1, <3>2 DEF Pages
    <3>4. Pages = [v \in DOMAIN entries |-> Pages[v]]
      BY DEF Pages
    <3> QED BY <1>0, <3>3, <3>4
  <2>3. [Pages EXCEPT ![u].state = "settled", ![u].reason = reason] = [Pages EXCEPT ![u] = p]
    BY <1>0, <1>2
  <2> QED BY <2>2, <2>3
<1>4. Served' = Served /\ Allowed' = Allowed
  BY <1>1 DEF Served, Allowed
<1>5. Pages[u].attempts = entries[u].attempts
  BY <1>0, <1>2, PageFields
<1> QED BY <1>0, <1>1, <1>2, <1>3, <1>4, <1>5 DEF Queue!Settle

\* The next attempt waits for its backoff at least.
LEMMA RetryWaits ==
  ASSUME NEW n \in Nat \ {0}, NEW ra \in RetryAfters
  PROVE  Backoff(n) \in Nat /\ RetryDelay(n, ra) >= Backoff(n)
<1>1. RetryAfterSeconds(ra) \in Nat
  BY RetryDelayIsNat
<1>2. Backoff(n) \in Nat /\ Backoff(n) <= Config.maxRetryDelay
  <2> DEFINE k == EarlierOf(n - 1, 62)
             p == 2^k
  <2>1. k \in Nat
    BY DEF EarlierOf
  <2> HIDE DEF k
  <2>2. p \in Nat
    BY <2>1, PowerOfTwo
  <2> HIDE DEF p
  <2>3. Config.backoffBase * p \in Nat
    BY <2>2, ConfigIsNat
  <2> DEFINE b == Config.backoffBase * p
  <2>4. Backoff(n) = EarlierOf(Config.maxRetryDelay, b)
    BY DEF Backoff, p, k
  <2> HIDE DEF b
  <2>5. b \in Nat
    BY <2>3 DEF b
  <2> QED BY <2>4, <2>5, ConfigIsNat DEF EarlierOf
<1> HIDE DEF Backoff
<1> QED BY <1>1, <1>2, ConfigIsNat DEF RetryDelay, EarlierOf, LaterOf

\* A record that is queued again.
LEMMA RequeuedPage ==
  ASSUME NEW e \in Entry, NEW at \in Nat
  PROVE  PageOf(Enqueued(e, at)) = [PageOf(e) EXCEPT !.state = "pending", !.readyAt = at]
<1> DEFINE f == Enqueued(e, at)
           g == PageOf(e)
<1>1. f.reason = e.reason
  BY DEF Enqueued, Entry
<1>2. /\ f.state \in PendingStates /\ f.readyAt = at /\ f.attempts = e.attempts
      /\ f.order = e.order /\ f.depth = e.depth /\ f.priority = e.priority
      /\ f.parent = e.parent
  BY EnqueuedRecord
<1> HIDE DEF f
<1>3. PageOf(f) = [depth |-> e.depth, priority |-> e.priority, parent |-> e.parent,
                   order |-> e.order, state |-> "pending", attempts |-> e.attempts,
                   readyAt |-> at, reason |-> e.reason]
  BY <1>1, <1>2 DEF PageOf, PendingStates
<1> DEFINE s == CASE e.state \in PendingStates -> "pending"
                  [] e.state = "IN_FLIGHT" -> "leased"
                  [] e.state = "TERMINAL" -> "settled"
<1>4. g = [depth |-> e.depth, priority |-> e.priority, parent |-> e.parent,
           order |-> e.order, state |-> s, attempts |-> e.attempts,
           readyAt |-> e.readyAt, reason |-> e.reason]
  BY DEF PageOf
<1> HIDE DEF s, g
<1> DEFINE g1 == [g EXCEPT !.state = "pending"]
<1>5. g1 = [depth |-> e.depth, priority |-> e.priority, parent |-> e.parent,
            order |-> e.order, state |-> "pending", attempts |-> e.attempts,
            readyAt |-> e.readyAt, reason |-> e.reason]
  BY <1>4
<1>6. [g EXCEPT !.state = "pending", !.readyAt = at] = [g1 EXCEPT !.readyAt = at]
  BY <1>4
<1> HIDE DEF g1
<1>7. [g1 EXCEPT !.readyAt = at] = PageOf(f)
  BY <1>3, <1>5
<1> QED BY <1>6, <1>7 DEF f, g

\* A failure with attempts left puts its page back.
LEMMA RetryIsTryAgain ==
  ASSUME FrontierInv, NEW u \in InFlight, NEW attempt, NEW ra \in RetryAfters,
         FailRetry(u, attempt, ra), UNCHANGED now
  PROVE  Queue!TryAgain
<1> DEFINE h == Info[u].host
           H == hosts[h]
           n == entries[u].attempts
           at == now + RetryDelay(n, ra)
           r == Answered(entries[u], n)
           e == Enqueued(r, at)
           allowed == IF ra = None THEN H.nextAllowed
                      ELSE LaterOf(H.nextAllowed, now + RetryAfterSeconds(ra))
           Q == [Push(H, u, e) EXCEPT !.nextAllowed = allowed]
<1>0. /\ TypeOK /\ u \in DOMAIN entries /\ u \in Url /\ h \in Host
      /\ entries[u] \in Entry /\ H \in HostState /\ n \in Nat \ {0} /\ now \in Nat
  BY HostOfUrl DEF FrontierInv, TypeOK, InFlight, Entry, InFlightAttempted
<1>1. /\ n < Config.maxAttemptsPerUrl
      /\ entries' = [entries EXCEPT ![u] = e]
      /\ hosts' = [hosts EXCEPT ![h] = Q]
      /\ now' = now
  BY DEF FailRetry, Holds
<1>2. /\ Backoff(n) \in Nat /\ RetryDelay(n, ra) \in Nat /\ RetryDelay(n, ra) >= Backoff(n)
      /\ RetryAfterSeconds(ra) \in Nat
  BY <1>0, RetryWaits, RetryDelayIsNat
<1>3. at \in Nat /\ at >= now + Backoff(n)
  BY <1>0, <1>2
<1>4. allowed \in Nat /\ allowed >= H.nextAllowed
  BY <1>0, <1>2 DEF HostState, LaterOf
<1>11. r \in Entry /\ PageOf(r) = PageOf(entries[u])
  BY <1>0, AnsweredRecord, AnsweredPage
<1> HIDE DEF at, n, allowed, r
<1>5. Q.lastServed = H.lastServed /\ Q.nextAllowed = allowed
  BY <1>0 DEF Push, HostState
<1> HIDE DEF Q, H, h
<1>6. /\ Served' = Served
      /\ Allowed' = [Allowed EXCEPT ![h] = allowed]
      /\ Allowed[h] = H.nextAllowed /\ Allowed'[h] = allowed
  <2>1. /\ DOMAIN hosts = Host /\ hosts[h] = H
        /\ \A g \in Host : hosts'[g] = IF g = h THEN Q ELSE hosts[g]
    BY <1>0, <1>1 DEF TypeOK, H
  <2> QED BY <1>0, <1>5, <2>1 DEF Served, Allowed
<1>7. /\ DOMAIN Pages = DOMAIN entries /\ Queue!In("leased") = InFlight
      /\ \A v \in DOMAIN entries : Pages[v] = PageOf(entries[v])
  BY <1>0, QueueReads
<1>8. /\ Pages' = [Pages EXCEPT ![u].state = "pending", ![u].readyAt = at]
      /\ Pages'[u].readyAt = at
  <2> DEFINE p == [Pages[u] EXCEPT !.state = "pending", !.readyAt = at]
  <2>1. PageOf(e) = p /\ p.readyAt = at
    <3>1. PageOf(e) = p
      <4>1. PageOf(r) = Pages[u]
        BY <1>0, <1>7, <1>11
      <4>2. PageOf(Enqueued(r, at)) = [PageOf(r) EXCEPT !.state = "pending", !.readyAt = at]
        BY <1>3, <1>11, RequeuedPage
      <4> QED BY <4>1, <4>2
    <3>2. e \in Entry /\ e.readyAt = at
      BY <1>3, <1>11, EnqueuedRecord
    <3> QED BY <3>1, <3>2, PageFields
  <2> HIDE DEF e
  <2>2. Pages' = [Pages EXCEPT ![u] = p]
    <3> HIDE DEF p
    <3>1. \A v \in DOMAIN entries : PageOf(entries'[v]) = IF v = u THEN p ELSE Pages[v]
      BY <1>0, <1>1, <1>7, <2>1
    <3>2. DOMAIN entries' = DOMAIN entries
      BY <1>1
    <3>3. Pages' = [v \in DOMAIN entries |-> IF v = u THEN p ELSE Pages[v]]
      BY <3>1, <3>2 DEF Pages
    <3>4. Pages = [v \in DOMAIN entries |-> Pages[v]]
      BY DEF Pages
    <3> QED BY <1>0, <3>3, <3>4
  <2>3. [Pages EXCEPT ![u].state = "pending", ![u].readyAt = at] = [Pages EXCEPT ![u] = p]
    BY <1>0, <1>7
  <2>4. Pages'[u] = p
    <3> HIDE DEF p
    <3> QED BY <1>0, <1>7, <2>2
  <2> QED BY <2>1, <2>2, <2>3, <2>4
<1>9. Pages[u].attempts = n
  BY <1>0, <1>7, PageFields DEF n
<1>10. /\ [k \in Nat \ {0} |-> Backoff(k)][Pages[u].attempts] = Backoff(n)
       /\ [v \in Url |-> Info[v].host][u] = h
  BY <1>0, <1>9 DEF h
<1> QED BY <1>1, <1>3, <1>4, <1>6, <1>7, <1>8, <1>9, <1>10 DEF Queue!TryAgain

\* A record that is leased.
LEMMA LeasedPage ==
  ASSUME NEW e \in Entry
  PROVE  PageOf([e EXCEPT !.state = "IN_FLIGHT", !.attempts = @ + 1]) =
           [PageOf(e) EXCEPT !.state = "leased", !.attempts = e.attempts + 1]
<1> DEFINE n == e.attempts + 1
           f == [e EXCEPT !.state = "IN_FLIGHT", !.attempts = n]
           g == PageOf(e)
<1>1. [e EXCEPT !.state = "IN_FLIGHT", !.attempts = @ + 1] = f
  BY DEF Entry
<1> HIDE DEF n
<1>2. /\ f.state = "IN_FLIGHT" /\ f.readyAt = e.readyAt /\ f.attempts = n
      /\ f.order = e.order /\ f.depth = e.depth /\ f.priority = e.priority
      /\ f.parent = e.parent /\ f.reason = e.reason
  BY DEF Entry
<1> HIDE DEF f
<1>3. PageOf(f) = [depth |-> e.depth, priority |-> e.priority, parent |-> e.parent,
                   order |-> e.order, state |-> "leased", attempts |-> n,
                   readyAt |-> e.readyAt, reason |-> e.reason]
  BY <1>2 DEF PageOf, PendingStates
<1> DEFINE s == CASE e.state \in PendingStates -> "pending"
                  [] e.state = "IN_FLIGHT" -> "leased"
                  [] e.state = "TERMINAL" -> "settled"
<1>4. g = [depth |-> e.depth, priority |-> e.priority, parent |-> e.parent,
           order |-> e.order, state |-> s, attempts |-> e.attempts,
           readyAt |-> e.readyAt, reason |-> e.reason]
  BY DEF PageOf
<1> HIDE DEF s, g
<1> DEFINE g1 == [g EXCEPT !.state = "leased"]
<1>5. g1 = [depth |-> e.depth, priority |-> e.priority, parent |-> e.parent,
            order |-> e.order, state |-> "leased", attempts |-> e.attempts,
            readyAt |-> e.readyAt, reason |-> e.reason]
  BY <1>4
<1>6. [g EXCEPT !.state = "leased", !.attempts = n] = [g1 EXCEPT !.attempts = n]
  BY <1>4
<1> HIDE DEF g1
<1>7. [g1 EXCEPT !.attempts = n] = PageOf(f)
  BY <1>3, <1>5
<1> QED BY <1>1, <1>6, <1>7 DEF g, n

\* A lease of the frontier is the lease the abstract frontier gives: same host,
\* same page, and the same hosts drained.
LEMMA LeaseIsLease ==
  ASSUME FrontierInv, ClaimLease, UNCHANGED now
  PROVE  Queue!Lease
<1> DEFINE h == SelectedHost
           top == HeapTop(Scanned(h, now).ready)
           u == top.url
           D == Queue!SettledIn(Queue!OnSpentHosts, "HOST_FETCH_BUDGET")
<1>0. /\ TypeOK /\ now \in Nat /\ claimed \in Nat /\ GlobalFetchLimit \in Nat
      /\ claimed < GlobalFetchLimit /\ Candidates(now) # {}
  BY ConfigIsNat DEF FrontierInv, TypeOK, ClaimLease
<1>1. /\ h \in Host /\ u \in Pending /\ Info[u].host = h
      /\ DrainedEntries[u] = entries[u] /\ u \in DOMAIN entries /\ u \in Url
      /\ entries[u] \in Entry
  BY <1>0, LeasedUrl DEF Pending, TypeOK
<1>2. /\ entries' = [DrainedEntries EXCEPT ![u].state = "IN_FLIGHT",
                                           ![u].attempts = @ + 1]
      /\ hosts' = [ScannedHosts EXCEPT ![h] = LeasedHost(ScannedHosts[h], top)]
      /\ now' = now
  BY DEF ClaimLease
<1>3. PICK w \in InFlight' \ InFlight :
        /\ Claimable(Info[w].host, now)
        /\ \A g \in Host : Claimable(g, now) =>
             hosts[Info[w].host].lastServed <= hosts[g].lastServed
        /\ \A v \in Due(Info[w].host, now) \ {w} :
             \/ entries[w].priority > entries[v].priority
             \/ /\ entries[w].priority = entries[v].priority
                /\ entries[w].order < entries[v].order
  BY LeaseIsFair
<1> HIDE DEF h, top, u, D
<1>4. /\ DOMAIN DrainedEntries = DOMAIN entries
      /\ entries' = [v \in DOMAIN entries |->
                       IF v = u THEN [entries[u] EXCEPT !.state = "IN_FLIGHT", !.attempts = @ + 1]
                       ELSE DrainedEntries[v]]
  <2>1. DOMAIN DrainedEntries = DOMAIN entries
    BY DrainedRecords
  <2>2. DrainedEntries = [v \in DOMAIN entries |-> DrainedEntries[v]]
    BY <2>1 DEF DrainedEntries, PendingTerminated
  <2> QED BY <1>1, <1>2, <2>1, <2>2
<1>5. w = u
  <2>1. w \in DOMAIN entries /\ entries'[w].state = "IN_FLIGHT" /\ entries[w].state # "IN_FLIGHT"
    BY <1>3, <1>4 DEF InFlight
  <2>2. DrainedEntries[w].state # "IN_FLIGHT"
    <3>1. DrainedEntries[w] = IF w \in Pending /\ Info[w].host \in {g \in Host : Exhausted(g)}
                              THEN Terminated(entries[w], "HOST_FETCH_BUDGET") ELSE entries[w]
      BY <2>1 DEF DrainedEntries, PendingTerminated
    <3>2. entries[w] \in Entry /\ "HOST_FETCH_BUDGET" \in TerminalReasons
      BY <1>0, <2>1 DEF TypeOK, TerminalReasons
    <3>3. Terminated(entries[w], "HOST_FETCH_BUDGET").state = "TERMINAL"
      BY <3>2, TerminatedRecord
    <3> QED BY <2>1, <3>1, <3>3
  <2> QED BY <1>4, <2>1, <2>2
<1>6. /\ DOMAIN Pages = DOMAIN entries
      /\ Queue!In("pending") = Pending
      /\ \A v \in DOMAIN entries : Pages[v] = PageOf(entries[v]) /\ entries[v] \in Entry
      /\ Queue!DueOn(h) = Due(h, now)
  BY <1>0, <1>1, QueueReads
<1>7. u \in Due(h, now) /\ Claimable(h, now) /\ ~Exhausted(h) /\ hosts[h].nextAllowed <= now
  <2>1. h \in Host /\ Scanned(h, now).ready # {}
    BY <1>0, SelectedIsFirst DEF h, Candidates
  <2>2. top \in Scanned(h, now).ready /\ Live(top)
    BY <1>0, <2>1, ScannedTop DEF top
  <2>3. u \in Due(h, now)
    BY <2>1, <2>2, ScannedIndex DEF u
  <2>4. hosts[h].fetches \in Nat /\ HostFetchLimit \in Nat
    BY <1>0, <2>1, ConfigIsNat DEF TypeOK, HostState
  <2> QED BY <1>1, <1>3, <1>5, <2>3, <2>4 DEF Claimable, Exhausted
<1>8. Pages' = [D EXCEPT ![u].state = "leased", ![u].attempts = @ + 1]
  <2> DEFINE p == [Pages[u] EXCEPT !.state = "leased", !.attempts = entries[u].attempts + 1]
  <2>1. PageOf([entries[u] EXCEPT !.state = "IN_FLIGHT", !.attempts = @ + 1]) = p
    <3>1. entries[u] \in Entry /\ Pages[u] = PageOf(entries[u])
      BY <1>1, <1>6
    <3> QED BY <3>1, LeasedPage
  <2>2. D = [v \in DOMAIN entries |-> PageOf(DrainedEntries[v])] /\ D[u] = Pages[u]
    <3>1. D = [v \in DOMAIN entries |-> PageOf(DrainedEntries[v])]
      BY PagesDrained DEF D
    <3> QED BY <1>1, <1>6, <3>1
  <2>3. Pages[u].attempts = entries[u].attempts
    BY <1>1, <1>6, PageFields
  <2>4. Pages' = [D EXCEPT ![u] = p]
    <3> HIDE DEF p
    <3>1. DOMAIN entries' = DOMAIN entries
      BY <1>4
    <3>2. \A v \in DOMAIN entries : PageOf(entries'[v]) = IF v = u THEN p ELSE D[v]
      BY <1>4, <2>1, <2>2
    <3>3. Pages' = [v \in DOMAIN entries |-> IF v = u THEN p ELSE D[v]]
      BY <3>1, <3>2 DEF Pages
    <3> QED BY <1>1, <2>2, <3>3
  <2>5. [D EXCEPT ![u].state = "leased", ![u].attempts = @ + 1] = [D EXCEPT ![u] = p]
    <3>1. [D EXCEPT ![u].state = "leased", ![u].attempts = @ + 1] =
            [D EXCEPT ![u] = [D[u] EXCEPT !.state = "leased", !.attempts = @ + 1]]
      BY <1>1, <2>2
    <3>2. [D[u] EXCEPT !.state = "leased", !.attempts = @ + 1] =
            [D[u] EXCEPT !.state = "leased", !.attempts = D[u].attempts + 1]
      BY <2>2, <2>3, <1>1, <1>6 DEF PageOf
    <3> QED BY <2>2, <2>3, <3>1, <3>2
  <2> QED BY <2>4, <2>5
<1>9. /\ Served' = [Served EXCEPT ![h] = claimed]
      /\ Allowed' = [Allowed EXCEPT ![h] = now + Config.hostDelay]
  <2> DEFINE S == ScannedHosts[h]
             t == LaterOf(S.nextAllowed, now + Config.hostDelay)
  <2>1. /\ S.lastServed = hosts[h].lastServed /\ S.nextAllowed = hosts[h].nextAllowed
        /\ S \in HostState /\ hosts[h].nextAllowed \in Nat
    BY <1>0, <1>1, ScannedClocks, ScannedHostsAdvance DEF HeapsAdvance, TypeOK, HostState
  <2>2. t = now + Config.hostDelay
    BY <1>0, <1>7, <2>1, ConfigIsNat DEF LaterOf
  <2> HIDE DEF S
  <2>3. LeasedHost(S, top).lastServed = claimed /\ LeasedHost(S, top).nextAllowed = t
    BY <2>1 DEF LeasedHost, HostState
  <2> HIDE DEF t
  <2>4. ScannedHosts \in [Host -> HostState]
    BY ScannedHostsAdvance
  <2>5. \A g \in Host : hosts'[g] = IF g = h THEN LeasedHost(S, top) ELSE ScannedHosts[g]
    BY <1>1, <1>2, <2>4 DEF S
  <2>6. \A g \in Host : /\ hosts'[g].lastServed = IF g = h THEN claimed ELSE hosts[g].lastServed
                        /\ hosts'[g].nextAllowed = IF g = h THEN t ELSE hosts[g].nextAllowed
    BY <2>3, <2>5, ScannedClocks
  <2> QED BY <1>1, <2>2, <2>6 DEF Served, Allowed
<1>10. /\ ~Queue!Spent /\ Queue!Servable(h)
       /\ Queue!Leases(DOMAIN Pages) = claimed
       /\ \A g \in Host : Queue!Servable(g) => Served[h] <= Served[g]
  BY <1>0, <1>1, <1>3, <1>5, <1>7, QueueBudgets DEF Served
<1>11. \A v \in Queue!DueOn(h) \ {u} : Queue!Before(u, v)
  <2>1. \A v \in DOMAIN entries : /\ Pages[v].priority = entries[v].priority
                                  /\ Pages[v].order = entries[v].order
    BY <1>6, PageFields
  <2>2. Due(h, now) \subseteq DOMAIN entries
    BY DEF Due, Pending
  <2> QED BY <1>1, <1>3, <1>5, <1>6, <2>1, <2>2 DEF Queue!Before
<1>12. /\ h \in Host /\ u \in Queue!DueOn(h)
       /\ ~Queue!Spent /\ Queue!Servable(h)
       /\ \A g \in Host : Queue!Servable(g) => Served[h] <= Served[g]
       /\ \A v \in Queue!DueOn(h) \ {u} : Queue!Before(u, v)
       /\ Pages' = [Queue!SettledIn(Queue!OnSpentHosts, "HOST_FETCH_BUDGET") EXCEPT
                      ![u].state = "leased", ![u].attempts = @ + 1]
       /\ Served' = [Served EXCEPT ![h] = Queue!Leases(DOMAIN Pages)]
       /\ Allowed' = [Allowed EXCEPT ![h] = now + Config.hostDelay]
       /\ now' = now
  BY <1>1, <1>2, <1>6, <1>7, <1>8, <1>9, <1>10, <1>11 DEF D
<1> QED BY <1>12 DEF Queue!Lease

\* What a push leaves of a host.
LEMMA PushKeepsClocks ==
  ASSUME NEW H \in HostState, NEW u, NEW e
  PROVE  /\ Push(H, u, e).lastServed = H.lastServed
         /\ Push(H, u, e).nextAllowed = H.nextAllowed
         /\ [Push(H, u, e) EXCEPT !.admitted = @ + 1].lastServed = H.lastServed
         /\ [Push(H, u, e) EXCEPT !.admitted = @ + 1].nextAllowed = H.nextAllowed
<1> DEFINE P == Push(H, u, e)
<1>1. P.lastServed = H.lastServed /\ P.nextAllowed = H.nextAllowed /\ DOMAIN P = DOMAIN H
  BY DEF Push, HostState
<1> HIDE DEF P
<1>2. /\ [P EXCEPT !.admitted = @ + 1].lastServed = P.lastServed
      /\ [P EXCEPT !.admitted = @ + 1].nextAllowed = P.nextAllowed
  BY <1>1 DEF HostState
<1> QED BY <1>1, <1>2 DEF P

\* A step that moves one host's heaps and counters moves no clock.
LEMMA ClocksKept ==
  ASSUME TypeOK, NEW h \in Host, NEW Q, hosts' = [hosts EXCEPT ![h] = Q],
         Q.lastServed = hosts[h].lastServed, Q.nextAllowed = hosts[h].nextAllowed
  PROVE  Served' = Served /\ Allowed' = Allowed
<1>1. \A g \in Host : /\ hosts'[g].lastServed = hosts[g].lastServed
                      /\ hosts'[g].nextAllowed = hosts[g].nextAllowed
  BY DEF TypeOK
<1> QED BY <1>1 DEF Served, Allowed

\* A new record is a new page.
LEMMA AdmitIsAdmitPage ==
  ASSUME FrontierInv, NEW u \in Url, NEW d \in Nat, NEW p \in Int,
         NEW par \in Url \cup {None}, NEW at \in Nat, at >= now,
         Admissible(u, d), AdmitNew(u, d, p, par, at), UNCHANGED now
  PROVE  Queue!AdmitPage
<1> DEFINE h == Info[u].host
           H == hosts[h]
           e == NewEntry(d, p, par, admitted + 1, at)
           Q == [Push(H, u, e) EXCEPT !.admitted = @ + 1]
<1>0. /\ TypeOK /\ admitted \in Nat /\ h \in Host /\ H \in HostState
      /\ DOMAIN entries \subseteq Url
  BY HostOfUrl DEF FrontierInv, TypeOK
<1>1. /\ u \notin DOMAIN entries /\ d <= Config.maxDepth /\ admitted < Config.maxUrls
      /\ H.admitted < Config.maxUrlsPerHost
      /\ u \in {v \in Url : SameSite(Info[v].host) /\ ~Info[v].trap}
  BY DEF Admissible, Trapped
<1>2. /\ entries' = [v \in DOMAIN entries \cup {u} |-> IF v = u THEN e ELSE entries[v]]
      /\ hosts' = [hosts EXCEPT ![h] = Q]
      /\ now' = now
  BY DEF AdmitNew
<1>3. /\ e \in Entry /\ e.state \in PendingStates /\ e.readyAt = at
      /\ e.attempts = 0 /\ e.order = admitted + 1 /\ e.depth = d
  BY <1>0, NewEntryRecord
<1>4. Served' = Served /\ Allowed' = Allowed
  <2>1. Q.lastServed = H.lastServed /\ Q.nextAllowed = H.nextAllowed
    BY <1>0, PushKeepsClocks
  <2> HIDE DEF Q, e, h
  <2> QED BY <1>0, <1>2, <2>1, ClocksKept DEF H
<1> HIDE DEF e, Q
<1>5. /\ DOMAIN Pages = DOMAIN entries
      /\ \A v \in DOMAIN entries : Pages[v] = PageOf(entries[v])
  BY <1>0, QueueReads
<1>6. /\ DOMAIN Pages' = DOMAIN Pages \cup {u}
      /\ \A v \in DOMAIN Pages : Pages'[v] = Pages[v]
      /\ Pages'[u] = PageOf(e)
  BY <1>1, <1>2, <1>5 DEF Pages
<1>7. /\ Pages'[u].state = "pending" /\ Pages'[u].attempts = 0 /\ Pages'[u].readyAt = at
      /\ Pages'[u].depth = d /\ Pages'[u].order = admitted + 1
  BY <1>3, <1>6, PageFields
<1>8. /\ Queue!Cardinality(DOMAIN Pages) = admitted
      /\ Queue!Cardinality(Queue!Among(DOMAIN Pages, h)) = H.admitted
  BY <1>0, QueueBudgets
<1>9. [v \in Url |-> Info[v].host][u] = h
  OBVIOUS
<1> HIDE DEF h, H
<1> QED BY <1>1, <1>2, <1>4, <1>5, <1>6, <1>7, <1>8, <1>9 DEF Queue!AdmitPage

\* A pending URL that is found again is improved.
LEMMA ReprioritizeIsImprove ==
  ASSUME FrontierInv, NEW u \in Pending, NEW d \in Nat, NEW p \in Int,
         NEW par \in Url \cup {None}, NEW at \in Nat,
         Reprioritize(u, d, p, par, at), UNCHANGED now
  PROVE  Queue!Improve
<1> DEFINE h == Info[u].host
           H == hosts[h]
           old == entries[u]
           d1 == EarlierOf(d, old.depth)
           par1 == IF d < old.depth THEN par ELSE old.parent
           p1 == LaterOf(p, old.priority)
           t == EarlierOf(old.readyAt, at)
           m == [old EXCEPT !.depth = d1, !.parent = par1, !.priority = p1]
           e == Enqueued(m, t)
           Q == Push(H, u, e)
<1>0. /\ TypeOK /\ h \in Host /\ H \in HostState /\ u \in DOMAIN entries /\ old \in Entry
  BY HostOfUrl DEF FrontierInv, TypeOK, Pending
<1>1. /\ d1 \in Nat /\ par1 \in Url \cup {None} /\ p1 \in Int /\ t \in Nat
      /\ d1 <= old.depth /\ p1 >= old.priority /\ t <= old.readyAt
      /\ par1 = old.parent \/ d1 < old.depth
  BY <1>0 DEF EarlierOf, LaterOf, Entry
<1>2. /\ entries' = [entries EXCEPT ![u] = e]
      /\ hosts' = [hosts EXCEPT ![h] = Q]
      /\ now' = now
  BY <1>0 DEF Reprioritize, TypeOK
<1> HIDE DEF d1, par1, p1, t
<1>3. m \in Entry /\ m.depth = d1 /\ m.parent = par1 /\ m.priority = p1
      /\ m.attempts = old.attempts /\ m.order = old.order
  <2> HIDE DEF old
  <2>1. m \in Entry
    BY <1>0, <1>1, ReprioritizeType
  <2> QED BY <1>0, <2>1 DEF Entry
<1> HIDE DEF m
<1>4. /\ e \in Entry /\ e.state \in PendingStates /\ e.readyAt = t
      /\ e.attempts = old.attempts /\ e.order = old.order
      /\ e.depth = d1 /\ e.parent = par1 /\ e.priority = p1
  BY <1>1, <1>3, EnqueuedRecord
<1> HIDE DEF e
<1>5. Served' = Served /\ Allowed' = Allowed
  <2>1. Q.lastServed = H.lastServed /\ Q.nextAllowed = H.nextAllowed
    BY <1>0, PushKeepsClocks
  <2> HIDE DEF Q, h
  <2> QED BY <1>0, <1>2, <2>1, ClocksKept DEF H
<1>6. /\ DOMAIN Pages = DOMAIN entries /\ Queue!In("pending") = Pending
      /\ \A v \in DOMAIN entries : Pages[v] = PageOf(entries[v])
  BY <1>0, QueueReads
<1>7. /\ DOMAIN Pages' = DOMAIN Pages
      /\ \A v \in DOMAIN Pages \ {u} : Pages'[v] = Pages[v]
      /\ Pages'[u] = PageOf(e) /\ Pages[u] = PageOf(old)
  BY <1>0, <1>2, <1>6 DEF Pages
<1> HIDE DEF old
<1>8. /\ Pages'[u].state = "pending" /\ Pages'[u].attempts = Pages[u].attempts
      /\ Pages'[u].order = Pages[u].order
      /\ Pages'[u].readyAt = t /\ Pages[u].readyAt = old.readyAt
      /\ Pages'[u].depth = d1 /\ Pages[u].depth = old.depth
      /\ Pages'[u].parent = par1 /\ Pages[u].parent = old.parent
      /\ Pages'[u].priority = p1 /\ Pages[u].priority = old.priority
  BY <1>0, <1>4, <1>7, PageFields
<1> QED BY <1>1, <1>2, <1>5, <1>6, <1>7, <1>8 DEF Queue!Improve

\* The seeds are pages of the abstract frontier.
LEMMA SeedsAreQueue ==
  ASSUME FrontierInit
  PROVE  Queue!QueueInit
<1>1. /\ entries = SeedEntries /\ hosts = SeedHosts /\ now = 0 /\ SeedUrls \subseteq Url
  BY SeedAssumption DEF FrontierInit
<1>2. ASSUME NEW u \in SeedUrls
      PROVE  /\ Pages[u].state = "pending" /\ Pages[u].attempts = 0
             /\ Pages[u].depth = 0 /\ Pages[u].parent = None /\ Pages[u].readyAt = 0
  <2> DEFINE ord == SeedOrder(u)
             par == None
             e == NewEntry(0, SeedPriority, par, ord, 0)
  <2>1. ord \in Nat /\ SeedPriority \in Int /\ par \in Url \cup {None}
    BY SeedOrders, SeedAssumption
  <2> HIDE DEF ord, par
  <2>2. /\ e \in Entry /\ e.state \in PendingStates /\ e.attempts = 0
        /\ e.depth = 0 /\ e.parent = par /\ e.readyAt = 0
    BY <2>1, NewEntryRecord
  <2>3. entries[u] = e /\ u \in DOMAIN entries
    BY <1>1, <1>2 DEF SeedEntries, ord, par
  <2> HIDE DEF e
  <2>4. Pages[u] = PageOf(e)
    BY <2>3 DEF Pages
  <2> QED BY <2>2, <2>4, PageFields DEF par
<1>3. DOMAIN Pages = SeedUrls
  BY <1>1 DEF Pages, SeedEntries
<1>4. Served = [h \in Host |-> -1] /\ Allowed = [h \in Host |-> 0]
  BY <1>1 DEF Served, Allowed, SeedHosts
<1> QED BY <1>1, <1>2, <1>3, <1>4 DEF Queue!QueueInit

\* Every step of the frontier is one of the abstract frontier, or none.
LEMMA QueueStep ==
  ASSUME FrontierInv, [FrontierNext]_clockedVars
  PROVE  [Queue!QueueNext]_<<Pages, Served, Allowed, now>>
<1>0. now \in Nat
  BY DEF FrontierInv, TypeOK
<1>1. CASE AdmitSome
  <2>1. PICK spelling \in Link, d \in Depths, p \in Priorities, par \in Parents,
          delay \in ReadyDelays : Admit(spelling, d, p, par, now + delay)
    BY <1>1 DEF AdmitSome
  <2> DEFINE u == Canonical[spelling]
             at == now + delay
  <2>2. /\ d \in Nat /\ p \in Int /\ par \in Url \cup {None}
        /\ u \in Url \cup {Malformed} /\ at \in Nat /\ at >= now /\ now' = now
    BY <1>0, <1>1, DataAssumption DEF AdmitSome
  <2>3. \/ Admissible(u, d) /\ AdmitNew(u, d, p, par, at)
        \/ Improves(u, d, p) /\ Reprioritize(u, d, p, par, at)
        \/ UNCHANGED frontierVars
    BY <2>1 DEF Admit
  <2> HIDE DEF u, at
  <2>4. CASE Admissible(u, d) /\ AdmitNew(u, d, p, par, at)
    <3>1. u \in Url
      BY <2>2, <2>4 DEF Admissible
    <3> QED BY <2>2, <2>4, <3>1, AdmitIsAdmitPage DEF Queue!QueueNext
  <2>5. CASE Improves(u, d, p) /\ Reprioritize(u, d, p, par, at)
    <3>1. u \in Pending
      BY <2>5 DEF Improves
    <3> QED BY <2>2, <2>5, <3>1, ReprioritizeIsImprove DEF Queue!QueueNext
  <2>6. CASE UNCHANGED frontierVars
    BY <2>2, <2>6 DEF frontierVars, Pages, Served, Allowed
  <2> QED BY <2>3, <2>4, <2>5, <2>6
<1>2. CASE Claim /\ UNCHANGED now
  BY <1>2, OverBudgetIsNoLease, NothingIsNoLease, LeaseIsLease DEF Claim, Queue!QueueNext
<1>3. CASE ResolveSome
  <2>1. PICK u \in DOMAIN entries : \E attempt \in 1 .. entries[u].attempts :
               Resolve(u, attempt)
    BY <1>3 DEF ResolveSome
  <2>2. PICK attempt : Resolve(u, attempt) /\ now' = now
    BY <1>3, <2>1 DEF ResolveSome
  <2>3. u \in InFlight
    BY <2>2 DEF Resolve, Succeed, FailPermanently, FailExhausted, FailRetry, Holds
  <2>4. CASE Succeed(u, attempt)
    BY <2>2, <2>3, <2>4, FinishIsSettle DEF Succeed, Queue!QueueNext
  <2>5. CASE \E reason \in Reasons : FailPermanently(u, attempt, reason)
    <3>1. PICK reason \in Reasons : Holds(u, attempt) /\ Finish(u, attempt, reason)
      BY <2>5 DEF FailPermanently
    <3>2. reason # "RETRY_EXHAUSTED"
      BY DataAssumption DEF FailureReasons
    <3> QED BY <2>2, <2>3, <3>1, <3>2, FinishIsSettle DEF Queue!QueueNext
  <2>6. CASE FailExhausted(u, attempt)
    BY <2>2, <2>3, <2>6, FinishIsSettle DEF FailExhausted, Queue!QueueNext
  <2>7. CASE \E ra \in RetryAfters : FailRetry(u, attempt, ra)
    BY <2>2, <2>3, <2>7, RetryIsTryAgain DEF Queue!QueueNext
  <2> QED BY <2>2, <2>4, <2>5, <2>6, <2>7 DEF Resolve
<1>4. CASE CancelPending /\ UNCHANGED now
  BY <1>4, CancelIsCancel DEF Queue!QueueNext
<1>5. CASE NextWakeAt /\ UNCHANGED now
  BY <1>5, WakeIsStutter
<1>6. CASE Tick
  BY <1>6 DEF Tick, frontierVars, Pages, Served, Allowed, Queue!Later, Queue!QueueNext
<1>7. CASE UNCHANGED clockedVars
  BY <1>7 DEF clockedVars, frontierVars, Pages, Served, Allowed
<1> QED BY <1>1, <1>2, <1>3, <1>4, <1>5, <1>6, <1>7 DEF FrontierNext

\* Whatever is admitted, claimed, reported and cancelled, the frontier is the queue
\* that CrawlQueue describes: the refinement that the run checks.
THEOREM FrontierImplementsQueue == FrontierSpec => ImplementsQueue
<1>1. FrontierInit => Queue!QueueInit
  BY SeedsAreQueue
<1>2. FrontierInv /\ [FrontierNext]_clockedVars => [Queue!QueueNext]_<<Pages, Served, Allowed, now>>
  BY QueueStep
<1> QED BY <1>1, <1>2, FrontierInvariant, PTL
        DEF FrontierSpec, ImplementsQueue, Queue!QueueSpec, Queue!queueVars

-----------------------------------------------------------------------------
(* Part two: the job and its frontier **************************************)

(* What the calls of the job do to the records of its frontier *)

Family(e, f) == f.depth = e.depth /\ f.parent = e.parent

\* A record that a claim does not lease stays as it is, or is dropped for a budget.
Dropped(u) ==
  /\ u \notin Pending => entries'[u] = entries[u]
  /\ u \in Pending => /\ entries'[u].state \in PendingStates \cup {"TERMINAL"}
                      /\ Family(entries[u], entries'[u])

\* The reasons the job gives to records it drops are terminal ones.
LEMMA BudgetReasons ==
  {"GLOBAL_FETCH_BUDGET", "HOST_FETCH_BUDGET", "CANCELLED"} \subseteq TerminalReasons
BY DEF TerminalReasons, FailureReasons

\* A claim that finds nothing, or an exhausted budget, drops pending records only.
LEMMA DropEffect ==
  ASSUME FrontierInv, ClaimNothing \/ ClaimOverBudget, UNCHANGED now
  PROVE  /\ FrontierInv' /\ claimed' = claimed
         /\ DOMAIN entries' = DOMAIN entries
         /\ \A u \in DOMAIN entries : Dropped(u)
<1>1. FrontierInv' /\ claimed' = claimed
  BY ClaimNothingStep, ClaimOverBudgetStep DEF ClaimNothing, ClaimOverBudget
<1>2. \E reason \in TerminalReasons : \E H \in SUBSET Host : entries' = PendingTerminated(H, reason)
  <2>1. CASE ClaimNothing
    <3>1. {h \in Host : Exhausted(h)} \in SUBSET Host
      OBVIOUS
    <3>2. entries' = PendingTerminated({h \in Host : Exhausted(h)}, "HOST_FETCH_BUDGET")
      BY <2>1 DEF ClaimNothing, DrainedEntries
    <3> QED
      BY <3>1, <3>2, BudgetReasons
  <2>2. CASE ClaimOverBudget
    BY <2>2, BudgetReasons DEF ClaimOverBudget
  <2> QED
    BY <2>1, <2>2
<1>6. PICK reason \in TerminalReasons, H \in SUBSET Host : entries' = PendingTerminated(H, reason)
  BY <1>2
<1>3. DOMAIN entries' = DOMAIN entries
  BY <1>6 DEF PendingTerminated
<1>4. ASSUME NEW u \in DOMAIN entries
      PROVE  Dropped(u)
  <2>1. entries'[u] = IF u \in Pending /\ Info[u].host \in H THEN Terminated(entries[u], reason)
                      ELSE entries[u]
    BY <1>6 DEF PendingTerminated
  <2>2. entries[u] \in Entry
    BY DEF FrontierInv, TypeOK
  <2>3. /\ Terminated(entries[u], reason).state = "TERMINAL"
        /\ Family(entries[u], Terminated(entries[u], reason))
    BY <2>2, TerminatedRecord DEF Family
  <2> QED
    BY <2>1, <2>3 DEF Dropped, Pending, Family
<1> QED
  BY <1>1, <1>3, <1>4

\* A claim leases exactly one pending record.
LEMMA LeaseEffect ==
  ASSUME FrontierInv, ClaimLease, UNCHANGED now
  PROVE  /\ FrontierInv' /\ claimed' = claimed + 1 /\ claimed < GlobalFetchLimit
         /\ DOMAIN entries' = DOMAIN entries
         /\ \E u \in Pending : /\ entries'[u].state = "IN_FLIGHT"
                               /\ Family(entries[u], entries'[u])
                               /\ \A v \in DOMAIN entries \ {u} : Dropped(v)
<1>1. FrontierInv' /\ claimed' = claimed + 1 /\ claimed < GlobalFetchLimit
  BY ClaimLeaseStep DEF ClaimLease
<1> DEFINE h == SelectedHost
           top == HeapTop(Scanned(h, now).ready)
           u == top.url
<1>2. u \in Pending /\ DrainedEntries[u] = entries[u]
  BY LeasedUrl DEF ClaimLease
<1>3. entries' = [DrainedEntries EXCEPT ![u].state = "IN_FLIGHT", ![u].attempts = @ + 1]
  BY DEF ClaimLease
<1> HIDE DEF h, top, u
<1>4. /\ DOMAIN DrainedEntries = DOMAIN entries
      /\ DrainedEntries = [v \in DOMAIN entries |-> DrainedEntries[v]]
  BY DEF DrainedEntries, PendingTerminated
<1>5. entries[u] \in Entry /\ u \in DOMAIN entries
  BY <1>2 DEF FrontierInv, TypeOK, Pending
<1>6. /\ DOMAIN entries' = DOMAIN entries
      /\ entries'[u] = [entries[u] EXCEPT !.state = "IN_FLIGHT", !.attempts = @ + 1]
      /\ \A v \in DOMAIN entries \ {u} : entries'[v] = DrainedEntries[v]
  BY <1>2, <1>3, <1>4, <1>5
<1>7. entries'[u].state = "IN_FLIGHT" /\ Family(entries[u], entries'[u])
  BY <1>5, <1>6 DEF Entry, Family
<1>8. ASSUME NEW v \in DOMAIN entries \ {u}
      PROVE  Dropped(v)
  <2>1. \/ entries'[v] = entries[v]
        \/ v \in Pending /\ entries'[v] = Terminated(entries[v], "HOST_FETCH_BUDGET")
    BY <1>6 DEF DrainedEntries, PendingTerminated
  <2>2. entries[v] \in Entry
    BY DEF FrontierInv, TypeOK
  <2>3. /\ Terminated(entries[v], "HOST_FETCH_BUDGET").state = "TERMINAL"
        /\ Family(entries[v], Terminated(entries[v], "HOST_FETCH_BUDGET"))
    BY <2>2, BudgetReasons, TerminatedRecord DEF Family
  <2> QED
    BY <2>1, <2>3 DEF Dropped, Pending, Family
<1> QED
  BY <1>1, <1>2, <1>6, <1>7, <1>8

\* The job's outcomes settle the record of their lease.
LEMMA FinishEffect ==
  ASSUME FrontierInv, NEW u, NEW attempt, NEW reason \in TerminalReasons,
         Holds(u, attempt), Finish(u, attempt, reason), UNCHANGED now
  PROVE  /\ FrontierInv' /\ claimed' = claimed
         /\ DOMAIN entries' = DOMAIN entries
         /\ entries'[u].state = "TERMINAL" /\ entries'[u].reason = reason
         /\ Family(entries[u], entries'[u])
         /\ \A v \in DOMAIN entries \ {u} : entries'[v] = entries[v]
<1>1. u \in DOMAIN entries /\ entries[u] \in Entry /\ attempt \in Nat
  BY DEF Holds, InFlight, FrontierInv, TypeOK, Entry
<1>2. FrontierInv'
  BY FinishStep
<1>3. /\ claimed' = claimed /\ DOMAIN entries' = DOMAIN entries
      /\ entries'[u] = Settled(entries[u], attempt, reason)
      /\ \A v \in DOMAIN entries \ {u} : entries'[v] = entries[v]
  BY <1>1 DEF Finish
<1>4. /\ Settled(entries[u], attempt, reason).state = "TERMINAL"
      /\ Settled(entries[u], attempt, reason).reason = reason
      /\ Family(entries[u], Settled(entries[u], attempt, reason))
  BY <1>1, SettledRecord DEF Family
<1> QED
  BY <1>2, <1>3, <1>4

\* An admission adds or moves a pending record, and gives it the family of the
\* page it was found on.
LEMMA AdmitEffect ==
  ASSUME FrontierInv, NEW lk \in Link, NEW d \in Nat, NEW p \in Int,
         NEW par \in Url \cup {None}, NEW at \in Nat,
         Admit(lk, d, p, par, at), UNCHANGED now
  PROVE  /\ FrontierInv' /\ claimed' = claimed
         /\ DOMAIN entries \subseteq DOMAIN entries'
         /\ \A v \in DOMAIN entries \ Pending : entries'[v] = entries[v]
         /\ \A v \in DOMAIN entries' : v \notin DOMAIN entries \/ v \in Pending =>
              /\ entries'[v].state \in PendingStates
              /\ \/ v \in DOMAIN entries /\ Family(entries[v], entries'[v])
                 \/ /\ v = Canonical[lk]
                    /\ entries'[v].depth = d /\ entries'[v].parent = par
<1> DEFINE u == Canonical[lk]
<1>1. u \in Url \cup {Malformed}
  BY DataAssumption
<1>2. \/ Admissible(u, d) /\ AdmitNew(u, d, p, par, at)
      \/ Improves(u, d, p) /\ Reprioritize(u, d, p, par, at)
      \/ UNCHANGED frontierVars
  BY DEF Admit
<1>3. \A v \in DOMAIN entries : entries[v] \in Entry
  BY DEF FrontierInv, TypeOK
<1> HIDE DEF u
<1>4. CASE Admissible(u, d) /\ AdmitNew(u, d, p, par, at)
  <2>5. PICK ord \in Nat : ord = admitted + 1
    BY DEF FrontierInv, TypeOK
  <2> DEFINE e == NewEntry(d, p, par, ord, at)
  <2>1. u \in Url /\ u \notin DOMAIN entries
    BY <1>1, <1>4 DEF Admissible
  <2>2. FrontierInv'
    BY <1>4, <2>1, AdmitNewStep
  <2>3. e.state \in PendingStates
    BY NewEntryRecord
  <2>6. e.depth = d
    BY NewEntryRecord
  <2>7. e.parent = par
    BY NewEntryRecord
  <2>4. entries' = [v \in DOMAIN entries \cup {u} |-> IF v = u THEN e ELSE entries[v]]
        /\ claimed' = claimed
    BY <1>4, <2>5 DEF AdmitNew
  <2> HIDE DEF e
  <2> QED
    BY <2>1, <2>2, <2>3, <2>4, <2>6, <2>7 DEF u, Pending, Family
<1>5. CASE Improves(u, d, p) /\ Reprioritize(u, d, p, par, at)
  <2>1. u \in Pending /\ u \in DOMAIN entries /\ entries[u] \in Entry
    BY <1>3, <1>5 DEF Improves, Pending
  <2>2. FrontierInv'
    BY <1>5, <2>1, ReprioritizeStep
  <2> DEFINE dd == EarlierOf(d, entries[u].depth)
             pp == IF d < entries[u].depth THEN par ELSE entries[u].parent
             qq == LaterOf(p, entries[u].priority)
             tt == EarlierOf(entries[u].readyAt, at)
             f == [entries[u] EXCEPT !.depth = dd, !.parent = pp, !.priority = qq]
             e == Enqueued(f, tt)
  <2>3. /\ entries' = [entries EXCEPT ![u] = e] /\ claimed' = claimed
    BY <1>5 DEF Reprioritize
  <2>4. /\ dd \in Nat /\ pp \in Url \cup {None} /\ qq \in Int /\ tt \in Nat
        /\ \/ dd = entries[u].depth /\ pp = entries[u].parent
           \/ dd = d /\ pp = par
    BY <2>1 DEF Entry, EarlierOf, LaterOf
  <2> HIDE DEF dd, pp, qq, tt
  <2>5. f \in Entry
    BY <2>1, <2>4, ReprioritizeType
  <2>6. f.depth = dd /\ f.parent = pp
    BY <2>1 DEF Entry
  <2> HIDE DEF f
  <2>7. e.state \in PendingStates /\ e.depth = dd /\ e.parent = pp
    BY <2>4, <2>5, <2>6, EnqueuedRecord
  <2> HIDE DEF e
  <2>8. /\ DOMAIN entries' = DOMAIN entries /\ entries'[u] = e
        /\ \A v \in DOMAIN entries \ {u} : entries'[v] = entries[v]
    BY <2>1, <2>3
  <2> QED
    BY <2>1, <2>2, <2>3, <2>4, <2>7, <2>8 DEF u, Pending, Family
<1>6. CASE UNCHANGED frontierVars
  <2>1. /\ entries' = entries /\ hosts' = hosts /\ now' \in Nat
        /\ admitted' = admitted /\ claimed' = claimed
    BY <1>6 DEF frontierVars, FrontierInv, TypeOK
  <2>2. FrontierInv'
    BY <1>6, <2>1, IdleStep
  <2> QED
    BY <2>1, <2>2 DEF Pending, Family
<1> QED
  BY <1>2, <1>4, <1>5, <1>6
-----------------------------------------------------------------------------
(* The inductive invariant, part by part *)

Result == [url : Url, order : Nat, outcome : Outcome]
Retiring == pc \in {"admit", "yield"}
Labels == {"fill", "retire", "admit", "yield", "refill", "wait", "drain", "returned", "raised"}

JobTypes ==
  /\ pc \in Labels
  /\ live \in [DOMAIN live -> Task]
  /\ watched \subseteq 0 .. MaxPages - 1
  /\ link \in Nat
  /\ results \in Seq(Result)

\* Claims are numbered, results are the first of them, and what is live the rest.
Ordered ==
  /\ claimed \in Nat /\ Len(results) <= claimed
  /\ \A i \in 1 .. Len(results) : results[i].order = i - 1
  /\ pc # "raised" => DOMAIN live = Len(results) .. claimed - 1
  /\ pc \in {"raised", "returned"} => DOMAIN live = {}

LiveUrls == {live[o].url : o \in DOMAIN live}

\* Tasks and leases: also when the drain begins, every lease still has its task.
Matched ==
  /\ \A o, q \in DOMAIN live : live[o].url = live[q].url => o = q
  /\ InFlight \subseteq LiveUrls
  /\ pc # "drain" => LiveUrls = InFlight \cup (IF Retiring THEN {live[Oldest].url} ELSE {})

\* The page whose links are admitted has succeeded.
RetiringSound ==
  Retiring => /\ link >= 1 /\ DOMAIN live # {} /\ live[Oldest].state = "ok"
              /\ live[Oldest].url \in Terminal
              /\ entries[live[Oldest].url].reason = "SUCCEEDED"

AllClosed == pc = "raised" => DOMAIN entries = Terminal

JobIInv ==
  /\ FrontierInv /\ JobTypes /\ Ordered /\ Cardinality(Running) <= Concurrency
  /\ Matched /\ RetiringSound /\ FoundOnParent /\ AllClosed
-----------------------------------------------------------------------------
(* What follows from it *)

\* The concurrency is a positive number.
LEMMA ConcurrencyType == Concurrency \in Nat \ {0}
BY JobAssumption DEF Concurrency, LaterOf, EarlierOf

\* The frontier is given as many attempts as pages.
LEMMA FetchLimit == GlobalFetchLimit = MaxPages /\ MaxPages \in Nat \ {0}
BY JobAssumption DEF GlobalFetchLimit

\* What is live was claimed, and can be counted.
LEMMA LiveFinite ==
  JobTypes /\ Ordered => /\ IsFiniteSet(DOMAIN live) /\ DOMAIN live \subseteq 0 .. claimed - 1
                         /\ IsFiniteSet(Running) /\ Cardinality(Running) \in Nat
<1> SUFFICES ASSUME JobTypes, Ordered
             PROVE  /\ IsFiniteSet(DOMAIN live) /\ DOMAIN live \subseteq 0 .. claimed - 1
                    /\ IsFiniteSet(Running) /\ Cardinality(Running) \in Nat
  OBVIOUS
<1>1. Len(results) \in Nat
  BY LenProperties DEF JobTypes
<1>2. DOMAIN live \subseteq 0 .. claimed - 1
  BY <1>1 DEF Ordered
<1>3. IsFiniteSet(0 .. claimed - 1)
  BY FS_Interval DEF Ordered
<1>4. IsFiniteSet(DOMAIN live) /\ IsFiniteSet(Running)
  BY <1>2, <1>3, FS_Subset DEF Running
<1> QED
  BY <1>2, <1>4, FS_CardinalityType

\* The head of the reorder buffer is the claim after the last result.
LEMMA OldestIs ==
  JobTypes /\ Ordered /\ pc # "raised" /\ DOMAIN live # {} =>
    Oldest = Len(results) /\ Oldest \in DOMAIN live
<1> SUFFICES ASSUME JobTypes, Ordered, pc # "raised", DOMAIN live # {}
             PROVE  Oldest = Len(results) /\ Oldest \in DOMAIN live
  OBVIOUS
<1>1. Len(results) \in Nat /\ claimed \in Nat /\ DOMAIN live = Len(results) .. claimed - 1
  BY LenProperties DEF JobTypes, Ordered
<1>2. Len(results) \in DOMAIN live /\ \A q \in DOMAIN live : Len(results) <= q
  BY <1>1
<1>3. \E o \in DOMAIN live : \A q \in DOMAIN live : o <= q
  BY <1>2
<1>4. Oldest \in DOMAIN live /\ \A q \in DOMAIN live : Oldest <= q
  BY <1>3 DEF Oldest
<1>5. Oldest <= Len(results) /\ Len(results) <= Oldest /\ Oldest \in Int
  BY <1>1, <1>2, <1>4
<1> QED
  BY <1>1, <1>4, <1>5

\* The same after a step.
LEMMA OldestIsNext ==
  (JobTypes /\ Ordered /\ pc # "raised" /\ DOMAIN live # {} =>
     Oldest = Len(results) /\ Oldest \in DOMAIN live)'
BY OldestIs, PTL

\* An empty buffer.
LEMMA EmptyLive ==
  ASSUME JobTypes
  PROVE  live = << >> <=> DOMAIN live = {}
<1>1. ASSUME DOMAIN live = {} PROVE live = << >>
  <2>1. live \in [1 .. 0 -> Task]
    BY <1>1 DEF JobTypes
  <2>2. live \in Seq(Task)
    BY <2>1, IsASeq
  <2>3. Len(live) = 0
    BY <2>1, <2>2, LenProperties
  <2> QED
    BY <2>2, <2>3, EmptySeq
<1> QED
  BY <1>1

\* The first attempt is the only one.
LEMMA OneAttempt ==
  ASSUME FrontierInv, NEW u \in InFlight
  PROVE  Holds(u, 1)
<1>1. /\ entries[u].attempts \in Nat /\ entries[u].attempts >= 1
      /\ entries[u].attempts <= Config.maxAttemptsPerUrl
  BY DEF FrontierInv, TypeOK, Entry, InFlight, InFlightAttempted, WithinBudgets
<1> QED
  BY <1>1, JobAssumption DEF Holds

\* What is live is a running task or one with an outcome.
LEMMA LiveTasks ==
  ASSUME JobTypes, NEW o \in DOMAIN live
  PROVE  /\ live[o] \in Task /\ live[o].url \in Url
         /\ live[o].state # "running" => live[o].state \in Outcome
         /\ o \in Running <=> live[o].state = "running"
BY DEF JobTypes, Task, Running

\* Families stay, and so does what discovery has found.
LEMMA FamiliesStay ==
  ASSUME FrontierInv, FoundOnParent, DOMAIN entries' = DOMAIN entries,
         \A v \in DOMAIN entries : Family(entries[v], entries'[v]),
         \A v \in Terminal : entries'[v] = entries[v]
  PROVE  FoundOnParent'
<1>1. Terminal \subseteq Terminal'
  BY DEF Terminal
<1> QED
  BY <1>1 DEF FoundOnParent, Family
-----------------------------------------------------------------------------
(* The steps of the owner that leave its tasks alone *)

\* The running tasks are the same when the buffer is.
LEMMA SameLive ==
  ASSUME live' = live
  PROVE  Running' = Running /\ LiveUrls' = LiveUrls
BY DEF Running, LiveUrls

\* A step of the owner that changes neither its buffer nor its results.
LEMMA OwnerMoves ==
  ASSUME JobIInv, FrontierInv', FoundOnParent',
         claimed' = claimed, live' = live, results' = results, InFlight' = InFlight,
         link' \in Nat, watched' \subseteq 0 .. MaxPages - 1,
         pc # "raised", pc' \in Labels, pc' # "raised",
         pc' = "returned" => DOMAIN live = {},
         pc' # "drain" => pc # "drain" /\ (Retiring' <=> Retiring),
         Retiring' => /\ link' >= 1
                      /\ live[Oldest].url \in DOMAIN entries'
                      /\ entries'[live[Oldest].url] = entries[live[Oldest].url]
  PROVE  JobIInv'
<1>1. JobTypes' /\ Ordered'
  BY DEF JobIInv, JobTypes, Ordered
<1>2. Cardinality(Running') <= Concurrency /\ AllClosed'
  BY SameLive DEF JobIInv, AllClosed
<1>3. DOMAIN live # {} => Oldest' = Oldest
  <2>1. JobTypes /\ Ordered
    BY DEF JobIInv
  <2>2. DOMAIN live # {} => Oldest = Len(results)
    BY <2>1, OldestIs
  <2>3. DOMAIN live # {} => Oldest' = Len(results')
    BY <1>1, OldestIsNext
  <2> QED
    BY <2>2, <2>3
<1>4. pc # "drain" /\ Retiring => DOMAIN live # {}
  BY DEF JobIInv, RetiringSound
<1>5. Matched'
  <2>1. \A o, q \in DOMAIN live' : live'[o].url = live'[q].url => o = q
    BY DEF JobIInv, Matched
  <2>2. InFlight' \subseteq LiveUrls'
    BY SameLive DEF JobIInv, Matched
  <2>3. ASSUME pc' # "drain"
        PROVE  LiveUrls' = InFlight' \cup (IF Retiring' THEN {live'[Oldest'].url} ELSE {})
    <3>1. pc # "drain" /\ (Retiring' <=> Retiring)
      BY <2>3
    <3>2. LiveUrls = InFlight \cup (IF Retiring THEN {live[Oldest].url} ELSE {})
      BY <3>1 DEF JobIInv, Matched
    <3>3. CASE Retiring
      <4>1. live'[Oldest'] = live[Oldest]
        BY <1>3, <1>4, <3>1, <3>3
      <4> QED
        BY <4>1, <3>1, <3>2, <3>3, SameLive
    <3>4. CASE ~Retiring
      BY <3>1, <3>2, <3>4, SameLive
    <3> QED
      BY <3>3, <3>4
  <2> QED
    BY <2>1, <2>2, <2>3 DEF Matched
<1>6. RetiringSound'
  <2> SUFFICES ASSUME Retiring'
               PROVE  /\ link' >= 1 /\ DOMAIN live' # {} /\ live'[Oldest'].state = "ok"
                      /\ live'[Oldest'].url \in Terminal'
                      /\ entries'[live'[Oldest'].url].reason = "SUCCEEDED"
    BY DEF RetiringSound
  <2>1. Retiring /\ pc # "drain"
    BY DEF Retiring
  <2>2. DOMAIN live # {} /\ Oldest' = Oldest
    BY <1>3, <1>4, <2>1
  <2>3. /\ live[Oldest].state = "ok" /\ live[Oldest].url \in Terminal
        /\ entries[live[Oldest].url].reason = "SUCCEEDED"
    BY <2>1 DEF JobIInv, RetiringSound
  <2>4. /\ live[Oldest].url \in DOMAIN entries'
        /\ entries'[live[Oldest].url] = entries[live[Oldest].url]
    OBVIOUS
  <2> QED
    BY <2>2, <2>3, <2>4 DEF Terminal
<1> QED
  BY <1>1, <1>2, <1>5, <1>6 DEF JobIInv

\* Nor does it matter whether the frontier drops records on the way.
LEMMA DropKeeps ==
  ASSUME FrontierInv, FoundOnParent, DOMAIN entries' = DOMAIN entries,
         \A u \in DOMAIN entries : Dropped(u)
  PROVE  InFlight' = InFlight /\ FoundOnParent'
<1>1. \A u \in DOMAIN entries : Family(entries[u], entries'[u])
  BY DEF Dropped, Family
<1>2. \A u \in Terminal : entries'[u] = entries[u]
  BY DEF Terminal, Pending, PendingStates, Dropped
<1>3. InFlight' = InFlight
  BY DEF InFlight, Pending, PendingStates, Dropped
<1> QED
  BY <1>1, <1>2, <1>3, FamiliesStay

\* The frontier rests.
LEMMA FrontierRests ==
  ASSUME JobIInv, UNCHANGED clockedVars
  PROVE  /\ FrontierInv' /\ FoundOnParent' /\ claimed' = claimed /\ InFlight' = InFlight
         /\ entries' = entries
<1>1. /\ entries' = entries /\ hosts' = hosts /\ admitted' = admitted
      /\ claimed' = claimed /\ now' = now
  BY DEF clockedVars, frontierVars
<1>2. now' \in Nat /\ now' >= now
  BY <1>1 DEF JobIInv, FrontierInv, TypeOK
<1>3. FrontierInv'
  <2>1. FrontierInv /\ UNCHANGED frontierVars
    BY DEF JobIInv, clockedVars
  <2> QED
    BY <1>2, <2>1, IdleStep
<1>4. FoundOnParent' /\ InFlight' = InFlight
  BY <1>1 DEF JobIInv, FoundOnParent, InFlight, Terminal
<1> QED
  BY <1>1, <1>3, <1>4

\* Waiting for tasks: they are claims of the budget.
LEMMA RunningIsClaimed ==
  ASSUME JobIInv
  PROVE  /\ Running \subseteq 0 .. MaxPages - 1
         /\ claimed <= MaxPages /\ claimed \in Nat
<1>1. DOMAIN live \subseteq 0 .. claimed - 1 /\ claimed \in Nat
  BY LiveFinite DEF JobIInv, Ordered
<1>2. claimed <= MaxPages
  BY FetchLimit DEF JobIInv, FrontierInv, WithinBudgets
<1> QED
  BY <1>1, <1>2, FetchLimit DEF Running

\* Where the owner goes after filling.
LEMMA AfterFillMoves ==
  ASSUME JobIInv, Filling, AfterFill
  PROVE  /\ pc' \in {"returned", "retire", "fill", "wait"}
         /\ pc' = "returned" => DOMAIN live = {}
         /\ watched' \subseteq 0 .. MaxPages - 1
<1>1. watched \subseteq 0 .. MaxPages - 1 /\ JobTypes
  BY DEF JobIInv, JobTypes
<1>2. pc' \in {"returned", "retire", "fill", "wait"} /\ watched' \in {watched, Running}
  BY DEF AfterFill, Goto, Filling
<1>3. pc' = "returned" => live = << >>
  BY DEF AfterFill, Goto
<1> QED
  BY <1>1, <1>2, <1>3, EmptyLive, RunningIsClaimed

\* _fill_capacity at its concurrency keeps the invariant.
LEMMA FillFullStep ==
  ASSUME JobIInv, FillFull
  PROVE  JobIInv'
<1>0. UNCHANGED clockedVars
  BY DEF FillFull
<1>1. Filling /\ AfterFill /\ live' = live /\ link' = link /\ results' = results
  BY DEF FillFull
<1>2. /\ pc' \in {"returned", "retire", "fill", "wait"}
      /\ pc' = "returned" => DOMAIN live = {}
      /\ watched' \subseteq 0 .. MaxPages - 1
  BY <1>1, AfterFillMoves
<1>3. link' \in Nat
  BY <1>1 DEF JobIInv, JobTypes
<1>4. ~Retiring /\ ~Retiring' /\ pc \notin {"drain", "raised"}
      /\ pc' \in Labels /\ pc' \notin {"raised", "drain"}
  BY <1>1, <1>2 DEF Retiring, Filling, Labels
<1>9. /\ FrontierInv' /\ FoundOnParent' /\ claimed' = claimed /\ InFlight' = InFlight
  BY <1>0, FrontierRests
<1> QED
  BY <1>1, <1>2, <1>3, <1>4, <1>9, OwnerMoves

\* So does a claim that returns no lease.
LEMMA FillNoneStep ==
  ASSUME JobIInv, FillNone
  PROVE  JobIInv'
<1>1. /\ Filling /\ AfterFill /\ live' = live /\ link' = link /\ results' = results
      /\ ClaimNothing \/ ClaimOverBudget
      /\ UNCHANGED now
  BY DEF FillNone
<1>2. /\ pc' \in {"returned", "retire", "fill", "wait"}
      /\ pc' = "returned" => DOMAIN live = {}
      /\ watched' \subseteq 0 .. MaxPages - 1
  BY <1>1, AfterFillMoves
<1>3. link' \in Nat
  BY <1>1 DEF JobIInv, JobTypes
<1>4. ~Retiring /\ ~Retiring' /\ pc \notin {"drain", "raised"}
      /\ pc' \in Labels /\ pc' \notin {"raised", "drain"}
  BY <1>1, <1>2 DEF Retiring, Filling, Labels
<1>5. /\ FrontierInv' /\ claimed' = claimed /\ DOMAIN entries' = DOMAIN entries
      /\ \A u \in DOMAIN entries : Dropped(u)
  BY <1>1, DropEffect DEF JobIInv
<1>6. InFlight' = InFlight /\ FoundOnParent'
  BY <1>5, DropKeeps DEF JobIInv
<1> QED
  BY <1>1, <1>2, <1>3, <1>4, <1>5, <1>6, OwnerMoves

\* So does ordered retirement that has nothing ready, or meets a cancelled page.
LEMMA RetireStopStep ==
  ASSUME JobIInv, RetireStop \/ RetireCancelled
  PROVE  JobIInv'
<1>0. UNCHANGED clockedVars
  BY DEF RetireStop, RetireCancelled
<1>1. /\ live' = live /\ link' = link /\ results' = results
      /\ watched' = watched /\ pc = "retire" /\ pc' \in {"refill", "drain"}
  BY DEF RetireStop, RetireCancelled, Goto
<1>2. link' \in Nat /\ watched' \subseteq 0 .. MaxPages - 1
  BY <1>1 DEF JobIInv, JobTypes
<1>3. ~Retiring /\ ~Retiring' /\ pc' \in Labels
  BY <1>1 DEF Retiring, Labels
<1>9. /\ FrontierInv' /\ FoundOnParent' /\ claimed' = claimed /\ InFlight' = InFlight
  BY <1>0, FrontierRests
<1> QED
  BY <1>1, <1>2, <1>3, <1>9, OwnerMoves

\* So does the return from a yield.
LEMMA ResumeAdmittingStep ==
  ASSUME JobIInv, ResumeAdmitting
  PROVE  JobIInv'
<1>0. UNCHANGED clockedVars
  BY DEF ResumeAdmitting
<1>1. /\ live' = live /\ link' = link /\ results' = results
      /\ watched' = watched /\ pc = "yield" /\ pc' = "admit"
  BY DEF ResumeAdmitting, Goto
<1>2. link' \in Nat /\ watched' \subseteq 0 .. MaxPages - 1
  BY <1>1 DEF JobIInv, JobTypes
<1>3. Retiring /\ Retiring' /\ pc' \in Labels
  BY <1>1 DEF Retiring, Labels
<1>4. link' >= 1
  BY <1>1, <1>3 DEF JobIInv, RetiringSound
<1>5. /\ live[Oldest].url \in DOMAIN entries'
      /\ entries'[live[Oldest].url] = entries[live[Oldest].url]
  <2>1. entries' = entries
    BY <1>0, FrontierRests
  <2>2. live[Oldest].url \in DOMAIN entries
    BY <1>3 DEF JobIInv, RetiringSound, Terminal
  <2> QED
    BY <2>1, <2>2
<1>9. /\ FrontierInv' /\ FoundOnParent' /\ claimed' = claimed /\ InFlight' = InFlight
  BY <1>0, FrontierRests
<1> QED
  BY <1>1, <1>2, <1>3, <1>4, <1>5, <1>9, OwnerMoves

\* So do the end of a wait and a cancellation of the request.
LEMMA WakeUpStep ==
  ASSUME JobIInv, WakeUp \/ CancelJob
  PROVE  JobIInv'
<1>0. UNCHANGED clockedVars
  BY DEF WakeUp, CancelJob
<1>1. /\ live' = live /\ link' = link /\ results' = results
      /\ watched' \in {watched, {}}
      /\ \/ pc = "wait" /\ pc' = "fill"
         \/ pc \in {"wait", "yield"} /\ pc' = "drain"
  BY DEF WakeUp, CancelJob, Goto
<1>2. link' \in Nat /\ watched' \subseteq 0 .. MaxPages - 1
  BY <1>1 DEF JobIInv, JobTypes
<1>3. ~Retiring' /\ pc' \in Labels /\ (pc' # "drain" => ~Retiring)
  BY <1>1 DEF Retiring, Labels
<1>9. /\ FrontierInv' /\ FoundOnParent' /\ claimed' = claimed /\ InFlight' = InFlight
  BY <1>0, FrontierRests
<1> QED
  BY <1>1, <1>2, <1>3, <1>9, OwnerMoves

\* What an admission adds was found on the page.
LEMMA AdmissionFound ==
  ASSUME FrontierInv, FoundOnParent, NEW par \in Terminal, par \in Url,
         entries[par].reason = "SUCCEEDED",
         NEW i \in DOMAIN PageLinks[par], NEW d, d = entries[par].depth + 1,
         DOMAIN entries \subseteq DOMAIN entries',
         \A v \in DOMAIN entries \ Pending : entries'[v] = entries[v],
         \A v \in DOMAIN entries' : v \notin DOMAIN entries \/ v \in Pending =>
              /\ entries'[v].state \in PendingStates
              /\ \/ v \in DOMAIN entries /\ Family(entries[v], entries'[v])
                 \/ /\ v = Canonical[PageLinks[par][i]]
                    /\ entries'[v].depth = d /\ entries'[v].parent = par
  PROVE  InFlight' = InFlight /\ FoundOnParent'
<1>1. \A v \in Terminal : v \in Terminal' /\ entries'[v] = entries[v]
  BY DEF Terminal, Pending, PendingStates
<1>2. InFlight' = InFlight
  BY DEF InFlight, Pending, PendingStates
<1>3. ASSUME NEW v \in DOMAIN entries'
      PROVE  IF entries'[v].parent = None
             THEN v \in SeedUrls /\ entries'[v].depth = 0
             ELSE /\ entries'[v].parent \in Terminal'
                  /\ entries'[entries'[v].parent].reason = "SUCCEEDED"
                  /\ entries'[v].depth = entries'[entries'[v].parent].depth + 1
                  /\ \E k \in DOMAIN PageLinks[entries'[v].parent] :
                       Canonical[PageLinks[entries'[v].parent][k]] = v
  <2>1. CASE v \in DOMAIN entries /\ Family(entries[v], entries'[v])
    <3>1. entries'[v].parent = entries[v].parent /\ entries'[v].depth = entries[v].depth
      BY <2>1 DEF Family
    <3>2. IF entries[v].parent = None
          THEN v \in SeedUrls /\ entries[v].depth = 0
          ELSE /\ entries[v].parent \in Terminal
               /\ entries[entries[v].parent].reason = "SUCCEEDED"
               /\ entries[v].depth = entries[entries[v].parent].depth + 1
               /\ \E k \in DOMAIN PageLinks[entries[v].parent] :
                    Canonical[PageLinks[entries[v].parent][k]] = v
      BY <2>1 DEF FoundOnParent
    <3> QED
      BY <1>1, <3>1, <3>2
  <2>2. CASE /\ v = Canonical[PageLinks[par][i]]
             /\ entries'[v].depth = d /\ entries'[v].parent = par
    <3>1. par # None /\ par \in Terminal' /\ entries'[par] = entries[par]
      BY <1>1, DataAssumption
    <3> QED
      BY <2>2, <3>1
  <2>3. v \in DOMAIN entries \ Pending => Family(entries[v], entries'[v])
    BY DEF Family
  <2> QED
    BY <2>1, <2>2, <2>3
<1> QED
  BY <1>2, <1>3 DEF FoundOnParent

\* An admitted link keeps the invariant: what it adds was found on the page.
LEMMA AdmitLinkStep ==
  ASSUME JobIInv, AdmitLink
  PROVE  JobIInv'
<1> DEFINE u == live[Oldest].url
           lk == PageLinks[u][link]
           d == entries[u].depth + 1
<1>1. /\ pc = "admit" /\ pc' \in {"yield", "admit"} /\ link' = link + 1
      /\ live' = live /\ results' = results /\ watched' = watched
  BY DEF AdmitLink, Goto
<1>2. link <= Len(PageLinks[u]) /\ Admit(lk, d, SeedPriority, u, now)
  BY DEF AdmitLink
<1>3. UNCHANGED now
  BY DEF AdmitLink
<1>4. Retiring /\ Retiring' /\ pc' \in Labels /\ pc' \notin {"raised", "returned", "drain"}
  BY <1>1 DEF Retiring, Labels
<1>5. u \in Terminal /\ entries[u].reason = "SUCCEEDED" /\ link >= 1 /\ link \in Nat
  BY <1>4 DEF JobIInv, RetiringSound, JobTypes
<1>6. u \in DOMAIN entries /\ u \in Url /\ entries[u] \in Entry /\ now \in Nat
  BY <1>5 DEF JobIInv, FrontierInv, TypeOK, Terminal
<1> HIDE DEF u
<1>7. link \in DOMAIN PageLinks[u] /\ lk \in Link
  <2>1. PageLinks[u] \in Seq(Link)
    BY <1>6, JobAssumption
  <2>2. link \in 1 .. Len(PageLinks[u])
    BY <1>2, <1>5, <2>1, LenProperties
  <2> QED
    BY <2>1, <2>2, LenProperties, ElementOfSeq
<1>8. d \in Nat /\ SeedPriority \in Int /\ u \in Url \cup {None}
  BY <1>6, SeedAssumption DEF Entry
<1> HIDE DEF lk, d
<1>9. /\ FrontierInv' /\ claimed' = claimed
      /\ DOMAIN entries \subseteq DOMAIN entries'
      /\ \A v \in DOMAIN entries \ Pending : entries'[v] = entries[v]
      /\ \A v \in DOMAIN entries' : v \notin DOMAIN entries \/ v \in Pending =>
           /\ entries'[v].state \in PendingStates
           /\ \/ v \in DOMAIN entries /\ Family(entries[v], entries'[v])
              \/ /\ v = Canonical[lk]
                 /\ entries'[v].depth = d /\ entries'[v].parent = u
  BY <1>2, <1>3, <1>6, <1>7, <1>8, AdmitEffect DEF JobIInv
<1>10. InFlight' = InFlight /\ FoundOnParent'
  BY <1>5, <1>6, <1>7, <1>9, AdmissionFound DEF JobIInv, d, lk
<1>11. u \in DOMAIN entries' /\ entries'[u] = entries[u]
  BY <1>5, <1>6, <1>9 DEF Terminal, Pending, PendingStates
<1>12. link' \in Nat /\ link' >= 1 /\ watched' \subseteq 0 .. MaxPages - 1
  BY <1>1, <1>5 DEF JobIInv, JobTypes
<1> QED
  BY <1>1, <1>4, <1>9, <1>10, <1>11, <1>12, OwnerMoves DEF u

\* A claim becomes a task.
LEMMA FillOneStep ==
  ASSUME JobIInv, FillOne
  PROVE  JobIInv'
<1> DEFINE Claimed(v) == entries[v].state # "IN_FLIGHT" /\ entries'[v].state = "IN_FLIGHT"
           w == CHOOSE v \in DOMAIN entries : Claimed(v)
<1>1. /\ Filling /\ Cardinality(Running) < Concurrency
      /\ watched' = watched /\ link' = link /\ results' = results /\ pc' = pc
  BY DEF FillOne
<1>2. ClaimLease /\ UNCHANGED now
  BY DEF FillOne
<1>3. live' = [o \in DOMAIN live \cup {claimed} |->
                 IF o = claimed THEN [url |-> w, state |-> "running"] ELSE live[o]]
  BY DEF FillOne
<1>4. /\ FrontierInv' /\ claimed' = claimed + 1 /\ claimed < GlobalFetchLimit
      /\ DOMAIN entries' = DOMAIN entries
      /\ \E u \in Pending : /\ entries'[u].state = "IN_FLIGHT"
                            /\ Family(entries[u], entries'[u])
                            /\ \A v \in DOMAIN entries \ {u} : Dropped(v)
  BY <1>2, LeaseEffect DEF JobIInv
<1>5. PICK u \in Pending : /\ entries'[u].state = "IN_FLIGHT"
                           /\ Family(entries[u], entries'[u])
                           /\ \A v \in DOMAIN entries \ {u} : Dropped(v)
  BY <1>4
<1>6. u \in DOMAIN entries /\ u \in Url /\ u \notin InFlight /\ u \notin Terminal
  BY DEF JobIInv, FrontierInv, TypeOK, Pending, PendingStates, InFlight, Terminal
<1>7. w = u
  <2>1. Claimed(u)
    BY <1>5, <1>6 DEF InFlight
  <2>2. w \in DOMAIN entries /\ Claimed(w)
    BY <1>6, <2>1
  <2> HIDE DEF w
  <2>3. \A v \in DOMAIN entries \ {u} : ~Claimed(v)
    BY <1>5 DEF Dropped, Pending, PendingStates
  <2> QED
    BY <2>2, <2>3
<1> HIDE DEF w
<1>8. pc \notin {"drain", "raised", "returned"} /\ ~Retiring /\ ~Retiring'
  BY <1>1 DEF Filling, Retiring
<1>9. InFlight' = InFlight \cup {u} /\ FoundOnParent'
  <2>1. \A v \in DOMAIN entries : Family(entries[v], entries'[v])
    BY <1>5 DEF Dropped, Family
  <2>2. \A v \in Terminal : entries'[v] = entries[v]
    BY <1>5, <1>6 DEF Terminal, Pending, PendingStates, Dropped
  <2>3. InFlight' = InFlight \cup {u}
    BY <1>4, <1>5, <1>6 DEF InFlight, Pending, PendingStates, Dropped
  <2> QED
    BY <1>4, <2>1, <2>2, <2>3, FamiliesStay DEF JobIInv
<1>10. LiveUrls = InFlight
  BY <1>8 DEF JobIInv, Matched
<1>11. /\ claimed \in Nat /\ Len(results) \in Nat /\ Len(results) <= claimed
       /\ DOMAIN live = Len(results) .. claimed - 1 /\ claimed \notin DOMAIN live
  BY <1>8, LenProperties DEF JobIInv, JobTypes, Ordered
<1>12. /\ DOMAIN live' = DOMAIN live \cup {claimed}
       /\ live'[claimed] = [url |-> u, state |-> "running"]
       /\ \A o \in DOMAIN live : live'[o] = live[o]
  BY <1>3, <1>7, <1>11
<1>13. JobTypes'
  <2>1. [url |-> u, state |-> "running"] \in Task
    BY <1>6 DEF Task
  <2>2. live' \in [DOMAIN live' -> Task]
    BY <1>3, <1>7, <2>1 DEF JobIInv, JobTypes
  <2> QED
    BY <1>1, <2>2 DEF JobIInv, JobTypes
<1>14. Ordered'
  BY <1>1, <1>4, <1>8, <1>11, <1>12 DEF JobIInv, Ordered
<1>15. Cardinality(Running') <= Concurrency
  <2>1. Running' = Running \cup {claimed}
    BY <1>11, <1>12 DEF Running
  <2>2. IsFiniteSet(Running) /\ Cardinality(Running) \in Nat
    BY LiveFinite DEF JobIInv
  <2>3. claimed \notin Running
    BY <1>11 DEF Running
  <2> DEFINE R == Running
             c == claimed
  <2>4. IsFiniteSet(R) /\ c \notin R
    BY <2>2, <2>3
  <2> HIDE DEF R, c
  <2>5. Cardinality(R \cup {c}) = Cardinality(R) + 1
    BY <2>4, FS_AddElement
  <2> QED
    BY <1>1, <2>1, <2>2, <2>5, ConcurrencyType DEF R, c
<1>16. Matched'
  <2>1. LiveUrls' = LiveUrls \cup {u}
    BY <1>12 DEF LiveUrls
  <2>2. \A o \in DOMAIN live : live[o].url # u
    BY <1>6, <1>10 DEF LiveUrls
  <2>3. \A o, q \in DOMAIN live' : live'[o].url = live'[q].url => o = q
    BY <1>12, <2>2 DEF JobIInv, Matched
  <2> QED
    BY <1>8, <1>9, <1>10, <2>1, <2>3 DEF Matched
<1>17. RetiringSound' /\ AllClosed'
  BY <1>1, <1>8 DEF RetiringSound, AllClosed
<1> QED
  BY <1>4, <1>9, <1>13, <1>14, <1>15, <1>16, <1>17 DEF JobIInv
-----------------------------------------------------------------------------
(* Retirement *)

\* The head of the buffer becomes the next result.
LEMMA AppendKeeps ==
  ASSUME JobIInv, pc \in {"retire", "admit"}, DOMAIN live # {},
         live[Oldest].state # "running", AppendResult(Oldest),
         claimed' = claimed, watched' = watched, link' \in Nat, pc' = "retire"
  PROVE  /\ JobTypes' /\ Ordered' /\ Cardinality(Running') <= Concurrency
         /\ \A o, q \in DOMAIN live' : live'[o].url = live'[q].url => o = q
         /\ LiveUrls' = LiveUrls \ {live[Oldest].url}
<1> DEFINE o == Oldest
           r == [url |-> live[o].url, order |-> o, outcome |-> live[o].state]
<1>1. /\ o = Len(results) /\ o \in DOMAIN live
      /\ Len(results) \in Nat /\ claimed \in Nat
      /\ DOMAIN live = Len(results) .. claimed - 1
  BY OldestIs, LenProperties DEF JobIInv, JobTypes, Ordered
<1>2. /\ results' = Append(results, r)
      /\ live' = [q \in DOMAIN live \ {o} |-> live[q]]
  BY DEF AppendResult
<1>3. live[o].url \in Url /\ live[o].state \in Outcome /\ o \notin Running
  BY <1>1, LiveTasks DEF JobIInv
<1> HIDE DEF o
<1>4. r \in Result
  BY <1>1, <1>3 DEF Result
<1>5. r.order = o
  OBVIOUS
<1> HIDE DEF r
<1>6. results \in Seq(Result)
  BY DEF JobIInv, JobTypes
<1>7. /\ results' \in Seq(Result) /\ Len(results') = Len(results) + 1
      /\ \A i \in 1 .. Len(results) : results'[i] = results[i]
      /\ results'[Len(results) + 1] = r
  BY <1>2, <1>4, <1>6, AppendProperties
<1>8. /\ DOMAIN live' = DOMAIN live \ {o}
      /\ \A q \in DOMAIN live' : live'[q] = live[q]
  BY <1>2
<1>9. JobTypes'
  <2>1. live' \in [DOMAIN live' -> Task]
    BY <1>2 DEF JobIInv, JobTypes
  <2> QED
    BY <1>7, <2>1 DEF JobIInv, JobTypes, Labels
<1>10. Ordered'
  <2>1. \A i \in 1 .. Len(results') : results'[i].order = i - 1
    <3> TAKE i \in 1 .. Len(results')
    <3>1. CASE i = Len(results) + 1
      BY <1>1, <1>5, <1>7, <3>1
    <3>2. CASE i \in 1 .. Len(results)
      BY <1>7, <3>2 DEF JobIInv, Ordered
    <3> QED
      BY <1>1, <1>7, <3>1, <3>2
  <2>2. DOMAIN live' = Len(results') .. claimed' - 1 /\ Len(results') <= claimed'
    BY <1>1, <1>7, <1>8
  <2> QED
    BY <1>1, <2>1, <2>2 DEF Ordered
<1>11. Cardinality(Running') <= Concurrency
  <2>1. Running' = Running
    BY <1>3, <1>8 DEF Running
  <2> QED
    BY <2>1 DEF JobIInv
<1>12. \A p, q \in DOMAIN live' : live'[p].url = live'[q].url => p = q
  BY <1>8 DEF JobIInv, Matched
<1>13. LiveUrls' = LiveUrls \ {live[o].url}
  <2>1. \A q \in DOMAIN live : live[q].url = live[o].url => q = o
    BY <1>1 DEF JobIInv, Matched
  <2> QED
    BY <1>8, <2>1 DEF LiveUrls
<1> QED
  BY <1>9, <1>10, <1>11, <1>12, <1>13 DEF o

\* The outcome of the head settles the lease it holds.
LEMMA SettleKeeps ==
  ASSUME JobIInv, NEW u, NEW reason \in TerminalReasons,
         Holds(u, 1), Finish(u, 1, reason), UNCHANGED now
  PROVE  /\ FrontierInv' /\ FoundOnParent' /\ claimed' = claimed
         /\ InFlight' = InFlight \ {u} /\ u \in InFlight
         /\ u \in Terminal' /\ entries'[u].reason = reason
<1>1. u \in InFlight
  BY DEF Holds
<1>2. /\ FrontierInv' /\ claimed' = claimed
      /\ DOMAIN entries' = DOMAIN entries
      /\ entries'[u].state = "TERMINAL" /\ entries'[u].reason = reason
      /\ Family(entries[u], entries'[u])
      /\ \A v \in DOMAIN entries \ {u} : entries'[v] = entries[v]
  BY <1>1, FinishEffect DEF JobIInv
<1>3. u \in DOMAIN entries /\ u \notin Terminal
  BY <1>1 DEF InFlight, Terminal
<1>4. InFlight' = InFlight \ {u} /\ u \in Terminal'
  BY <1>1, <1>2, <1>3 DEF InFlight, Terminal
<1>5. FoundOnParent'
  <2>1. \A v \in DOMAIN entries : Family(entries[v], entries'[v])
    BY <1>2 DEF Family
  <2>2. \A v \in Terminal : entries'[v] = entries[v]
    BY <1>2, <1>3 DEF Terminal
  <2> QED
    BY <1>2, <2>1, <2>2, FamiliesStay DEF JobIInv
<1> QED
  BY <1>1, <1>2, <1>4, <1>5

\* Every outcome of a page has a terminal reason.
LEMMA ReasonsAreTerminal ==
  \A c \in Outcome : ReasonOf[c] \in TerminalReasons
BY DEF ReasonOf, Outcome, TerminalReasons, FailureReasons

\* A failed page settles its lease and becomes the next result.
LEMMA RetireFailedStep ==
  ASSUME JobIInv, RetireFailed
  PROVE  JobIInv'
<1> DEFINE u == live[Oldest].url
           reason == ReasonOf[live[Oldest].state]
<1>1. /\ pc = "retire" /\ pc' = pc /\ live # << >> /\ link' = link /\ watched' = watched
      /\ AppendResult(Oldest) /\ live[Oldest].state \in {"failed", "robots", "rejected"}
  BY DEF RetireFailed
<1>2. Holds(u, 1) /\ Finish(u, 1, reason) /\ UNCHANGED now
  BY DEF RetireFailed, FailPermanently
<1>3. reason \in TerminalReasons
  BY <1>1, ReasonsAreTerminal DEF Outcome, ReasonOf
<1> HIDE DEF u, reason
<1>4. /\ FrontierInv' /\ FoundOnParent' /\ claimed' = claimed /\ InFlight' = InFlight \ {u}
  BY <1>2, <1>3, SettleKeeps
<1>5. DOMAIN live # {} /\ link' \in Nat
  BY <1>1, EmptyLive DEF JobIInv, JobTypes
<1>6. /\ JobTypes' /\ Ordered' /\ Cardinality(Running') <= Concurrency
      /\ \A o, q \in DOMAIN live' : live'[o].url = live'[q].url => o = q
      /\ LiveUrls' = LiveUrls \ {u}
  BY <1>1, <1>4, <1>5, AppendKeeps DEF u
<1>7. ~Retiring /\ ~Retiring' /\ pc # "drain" /\ pc' # "raised"
  BY <1>1 DEF Retiring
<1>8. LiveUrls = InFlight
  BY <1>7 DEF JobIInv, Matched
<1>9. Matched' /\ RetiringSound' /\ AllClosed'
  BY <1>4, <1>6, <1>7, <1>8 DEF Matched, RetiringSound, AllClosed
<1> QED
  BY <1>4, <1>6, <1>9 DEF JobIInv

\* A page whose links are all admitted becomes the next result.
LEMMA AdmitEndStep ==
  ASSUME JobIInv, AdmitEnd
  PROVE  JobIInv'
<1> DEFINE u == live[Oldest].url
<1>0. UNCHANGED clockedVars
  BY DEF AdmitEnd
<1>1. /\ pc = "admit" /\ pc' = "retire" /\ link' = 0 /\ watched' = watched
      /\ AppendResult(Oldest)
  BY DEF AdmitEnd, Goto
<1>2. Retiring /\ ~Retiring' /\ pc # "drain" /\ pc' # "raised"
  BY <1>1 DEF Retiring
<1>3. DOMAIN live # {} /\ live[Oldest].state = "ok" /\ u \in Terminal
  BY <1>2 DEF JobIInv, RetiringSound
<1>4. /\ FrontierInv' /\ FoundOnParent' /\ claimed' = claimed /\ InFlight' = InFlight
  BY <1>0, FrontierRests
<1>5. LiveUrls = InFlight \cup {u} /\ u \notin InFlight
  BY <1>2, <1>3 DEF JobIInv, Matched, Terminal, InFlight
<1>6. /\ JobTypes' /\ Ordered' /\ Cardinality(Running') <= Concurrency
      /\ \A o, q \in DOMAIN live' : live'[o].url = live'[q].url => o = q
      /\ LiveUrls' = LiveUrls \ {u}
  BY <1>1, <1>3, <1>4, AppendKeeps
<1> HIDE DEF u
<1>7. LiveUrls' = InFlight'
  BY <1>4, <1>5, <1>6
<1>8. Matched' /\ RetiringSound' /\ AllClosed'
  BY <1>2, <1>6, <1>7 DEF Matched, RetiringSound, AllClosed
<1> QED
  BY <1>4, <1>6, <1>8 DEF JobIInv

\* A page that succeeded settles its lease and becomes the parent of its links.
LEMMA RetireOkStep ==
  ASSUME JobIInv, RetireOk
  PROVE  JobIInv'
<1> DEFINE u == live[Oldest].url
<1>1. /\ pc = "retire" /\ pc' = "admit" /\ live # << >> /\ link' = 1 /\ watched' = watched
      /\ live' = live /\ results' = results /\ live[Oldest].state = "ok"
  BY DEF RetireOk, Goto
<1>2. Holds(u, 1) /\ Finish(u, 1, "SUCCEEDED") /\ UNCHANGED now
  BY DEF RetireOk, Succeed
<1> HIDE DEF u
<1>3. "SUCCEEDED" \in TerminalReasons
  BY DEF TerminalReasons
<1>4. /\ FrontierInv' /\ FoundOnParent' /\ claimed' = claimed
      /\ InFlight' = InFlight \ {u} /\ u \in InFlight
      /\ u \in Terminal' /\ entries'[u].reason = "SUCCEEDED"
  BY <1>2, <1>3, SettleKeeps
<1>5. DOMAIN live # {}
  BY <1>1, EmptyLive DEF JobIInv
<1>6. JobTypes' /\ Ordered'
  BY <1>1, <1>4 DEF JobIInv, JobTypes, Ordered, Labels
<1>7. Oldest' = Oldest
  <2>1. Oldest = Len(results)
    BY <1>1, <1>5, OldestIs DEF JobIInv
  <2>2. Oldest' = Len(results')
    BY <1>1, <1>5, <1>6, OldestIsNext
  <2> QED
    BY <1>1, <2>1, <2>2
<1>8. ~Retiring /\ Retiring' /\ pc # "drain" /\ pc' # "raised"
  BY <1>1 DEF Retiring
<1>9. live'[Oldest'].url = u /\ live'[Oldest'].state = "ok"
  BY <1>1, <1>7 DEF u
<1>10. LiveUrls' = InFlight' \cup {u}
  <2>1. LiveUrls = InFlight
    BY <1>8 DEF JobIInv, Matched
  <2> QED
    BY <1>1, <1>4, <2>1, SameLive
<1>11. Matched'
  BY <1>1, <1>4, <1>8, <1>9, <1>10 DEF JobIInv, Matched
<1>12. RetiringSound' /\ AllClosed'
  BY <1>1, <1>4, <1>5, <1>8, <1>9 DEF RetiringSound, AllClosed
<1>13. Cardinality(Running') <= Concurrency
  BY <1>1, SameLive DEF JobIInv
<1> QED
  BY <1>4, <1>6, <1>11, <1>12, <1>13 DEF JobIInv
-----------------------------------------------------------------------------
(* Page tasks, and the end of a cancelled job *)

\* A page task that ends keeps the invariant.
LEMMA TaskEndsStep ==
  ASSUME JobIInv, NEW o \in DOMAIN live, TaskEnds(o)
  PROVE  JobIInv'
<1>0. UNCHANGED clockedVars
  BY DEF TaskEnds
<1>1. /\ o \in Running /\ pc \in {"wait", "yield", "drain"}
      /\ pc' = pc /\ watched' = watched /\ link' = link /\ results' = results
  BY DEF TaskEnds, AtAwait
<1>2. PICK c \in Outcome : live' = [live EXCEPT ![o].state = c]
  <2>1. live[o].url \in Url
    BY LiveTasks DEF JobIInv
  <2>2. Outcomes[live[o].url] \subseteq Outcome /\ "cancelled" \in Outcome
    BY <2>1, JobAssumption DEF Outcome, ReasonOf
  <2> QED
    BY <2>2 DEF TaskEnds
<1>3. live[o] \in Task /\ live[o].state = "running"
  BY <1>1, LiveTasks DEF JobIInv
<1>4. /\ DOMAIN live' = DOMAIN live
      /\ live'[o].url = live[o].url /\ live'[o].state = c /\ live'[o] \in Task
      /\ \A q \in DOMAIN live \ {o} : live'[q] = live[q]
  BY <1>2, <1>3 DEF Task
<1>5. /\ FrontierInv' /\ FoundOnParent' /\ claimed' = claimed /\ InFlight' = InFlight
      /\ entries' = entries
  BY <1>0, FrontierRests
<1>6. JobTypes'
  <2>1. live' \in [DOMAIN live' -> Task]
    <3>1. \A q \in DOMAIN live' : live'[q] \in Task
      BY <1>4 DEF JobIInv, JobTypes
    <3>2. live' = [q \in DOMAIN live' |-> live'[q]]
      BY <1>2, <1>4
    <3> QED
      BY <3>1, <3>2
  <2> QED
    BY <1>1, <2>1 DEF JobIInv, JobTypes
<1>7. Ordered'
  BY <1>1, <1>4, <1>5 DEF JobIInv, Ordered
<1>8. Oldest' = Oldest
  <2>1. pc # "raised" /\ pc' # "raised" /\ DOMAIN live # {}
    BY <1>1
  <2>2. Oldest = Len(results)
    BY <2>1, OldestIs DEF JobIInv
  <2>3. Oldest' = Len(results')
    BY <1>4, <1>6, <1>7, <2>1, OldestIsNext
  <2> QED
    BY <1>1, <2>2, <2>3
<1>9. \A q \in DOMAIN live : live'[q].url = live[q].url
  BY <1>4
<1>10. LiveUrls' = LiveUrls
  BY <1>4, <1>9 DEF LiveUrls
<1>11. Retiring' <=> Retiring
  BY <1>1 DEF Retiring
<1>12. Retiring => /\ Oldest \in DOMAIN live /\ Oldest # o
                   /\ live'[Oldest] = live[Oldest]
  <2>1. Retiring => DOMAIN live # {} /\ live[Oldest].state = "ok"
    BY DEF JobIInv, RetiringSound
  <2>2. Retiring => Oldest \in DOMAIN live
    BY <1>1, <2>1, OldestIs DEF JobIInv
  <2> QED
    BY <1>3, <1>4, <2>1, <2>2
<1>13. Matched'
  <2>1. \A p, q \in DOMAIN live' : live'[p].url = live'[q].url => p = q
    BY <1>4, <1>9 DEF JobIInv, Matched
  <2>2. ASSUME pc' # "drain"
        PROVE  LiveUrls' = InFlight' \cup (IF Retiring' THEN {live'[Oldest'].url} ELSE {})
    <3>1. LiveUrls = InFlight \cup (IF Retiring THEN {live[Oldest].url} ELSE {})
      BY <1>1, <2>2 DEF JobIInv, Matched
    <3>2. CASE Retiring
      BY <1>5, <1>8, <1>10, <1>11, <1>12, <3>1, <3>2
    <3>3. CASE ~Retiring
      BY <1>5, <1>10, <1>11, <3>1, <3>3
    <3> QED
      BY <3>2, <3>3
  <2>3. InFlight' \subseteq LiveUrls'
    BY <1>5, <1>10 DEF JobIInv, Matched
  <2> QED
    BY <2>1, <2>2, <2>3 DEF Matched
<1>14. RetiringSound'
  <2> SUFFICES ASSUME Retiring'
               PROVE  /\ link' >= 1 /\ DOMAIN live' # {} /\ live'[Oldest'].state = "ok"
                      /\ live'[Oldest'].url \in Terminal'
                      /\ entries'[live'[Oldest'].url].reason = "SUCCEEDED"
    BY DEF RetiringSound
  <2>1. /\ link >= 1 /\ DOMAIN live # {} /\ live[Oldest].state = "ok"
        /\ live[Oldest].url \in Terminal
        /\ entries[live[Oldest].url].reason = "SUCCEEDED"
    BY <1>11 DEF JobIInv, RetiringSound
  <2>2. live'[Oldest'] = live[Oldest]
    BY <1>8, <1>11, <1>12
  <2>3. Terminal' = Terminal
    BY <1>5 DEF Terminal
  <2> QED
    BY <1>1, <1>4, <1>5, <2>1, <2>2, <2>3
<1>15. Cardinality(Running') <= Concurrency
  <2>1. Running' \subseteq Running
    <3>1. \A q \in DOMAIN live' : q = o \/ live'[q].state = live[q].state
      BY <1>4
    <3> QED
      BY <1>1, <1>4, <3>1 DEF Running
  <2>2. IsFiniteSet(Running) /\ Cardinality(Running) \in Nat
    BY LiveFinite DEF JobIInv
  <2>3. Cardinality(Running') <= Cardinality(Running) /\ Cardinality(Running') \in Nat
    BY <2>1, <2>2, FS_Subset, FS_CardinalityType
  <2> QED
    BY <2>2, <2>3, ConcurrencyType DEF JobIInv
<1>16. AllClosed'
  BY <1>1 DEF AllClosed
<1> QED
  BY <1>5, <1>6, <1>7, <1>13, <1>14, <1>15, <1>16 DEF JobIInv

\* The end of the drain closes every record: no lease is without its task.
LEMMA FinishDrainStep ==
  ASSUME JobIInv, FinishDrain
  PROVE  JobIInv'
<1>1. /\ pc = "drain" /\ pc' = "raised" /\ live' = << >>
      /\ watched' = watched /\ link' = link /\ results' = results
      /\ UNCHANGED <<hosts, admitted, claimed>> /\ now' = now
  BY DEF FinishDrain, Goto
<1>2. entries' = [u \in DOMAIN entries |->
                    IF u \in LiveUrls /\ Holds(u, 1)
                    THEN Settled(entries[u], 1, "CANCELLED")
                    ELSE IF u \in Pending THEN Terminated(entries[u], "CANCELLED")
                    ELSE entries[u]]
  BY HostOfUrl DEF FinishDrain, LiveUrls, PendingTerminated, JobIInv, FrontierInv, TypeOK
<1>3. DOMAIN entries' = DOMAIN entries
  BY <1>2
<1>4. ASSUME NEW u \in DOMAIN entries
      PROVE  /\ RecordSettles(entries[u], entries'[u])
             /\ Family(entries[u], entries'[u])
             /\ entries'[u].state = "TERMINAL"
             /\ u \in Terminal => entries'[u] = entries[u]
  <2>1. entries[u] \in Entry /\ FrontierInv
    BY DEF JobIInv, FrontierInv, TypeOK
  <2>2. CASE u \in Pending
    <3>2. entries'[u] = Terminated(entries[u], "CANCELLED")
      BY <1>2, <2>2 DEF Holds, InFlight, Pending, PendingStates
    <3>3. /\ Terminated(entries[u], "CANCELLED").state = "TERMINAL"
          /\ Family(entries[u], Terminated(entries[u], "CANCELLED"))
      BY <2>1, BudgetReasons, TerminatedRecord DEF Family
    <3>4. RecordSettles(entries[u], Terminated(entries[u], "CANCELLED"))
      BY <2>1, <2>2, BudgetReasons, RecordsAdvance
    <3>5. u \notin Terminal
      BY <2>2 DEF Terminal, Pending, PendingStates
    <3> QED
      BY <3>2, <3>3, <3>4, <3>5
  <2>4. CASE u \in InFlight
    <3>1. u \in LiveUrls /\ Holds(u, 1) /\ entries[u].attempts = 1
      BY <2>1, <2>4, OneAttempt DEF JobIInv, Matched, Holds
    <3>2. entries'[u] = Settled(entries[u], 1, "CANCELLED")
      BY <1>2, <3>1
    <3>3. /\ Settled(entries[u], 1, "CANCELLED").state = "TERMINAL"
          /\ Family(entries[u], Settled(entries[u], 1, "CANCELLED"))
      BY <2>1, BudgetReasons, SettledRecord DEF Family
    <3>4. RecordSettles(entries[u], Settled(entries[u], 1, "CANCELLED"))
      BY <2>1, <2>4, <3>1, BudgetReasons, RecordsAdvance
    <3>5. u \notin Terminal
      BY <2>4 DEF Terminal, InFlight
    <3> QED
      BY <3>2, <3>3, <3>4, <3>5
  <2>3. CASE u \notin Pending /\ u \notin InFlight
    <3>1. entries'[u] = entries[u]
      BY <1>2, <2>3 DEF Holds
    <3>2. entries[u].state = "TERMINAL"
      BY <2>1, <2>3 DEF Entry, Pending, InFlight
    <3>3. RecordSettles(entries[u], entries[u])
      BY <2>1, RecordsAdvance
    <3> QED
      BY <3>1, <3>2, <3>3 DEF Family
  <2> QED
    BY <2>2, <2>3, <2>4
<1>5. FrontierInv'
  <2>1. FrontierInv /\ now' \in Nat
    BY <1>1 DEF JobIInv, FrontierInv, TypeOK
  <2> QED
    BY <1>1, <1>3, <1>4, <2>1, TerminationStep
<1>6. FoundOnParent'
  <2>1. FrontierInv /\ FoundOnParent /\ \A u \in Terminal : entries'[u] = entries[u]
    BY <1>4 DEF JobIInv, Terminal
  <2> QED
    BY <1>3, <1>4, <2>1, FamiliesStay
<1>7. InFlight' = {} /\ AllClosed'
  BY <1>3, <1>4 DEF InFlight, AllClosed, Terminal
<1>8. DOMAIN live' = {}
  BY <1>1
<1>9. JobTypes'
  <2>1. live' \in [DOMAIN live' -> Task]
    BY <1>1, <1>8
  <2> QED
    BY <1>1, <2>1 DEF JobIInv, JobTypes, Labels
<1>10. Ordered'
  BY <1>1, <1>8 DEF JobIInv, Ordered
<1>11. Running' = {} /\ LiveUrls' = {} /\ ~Retiring'
  BY <1>1, <1>8 DEF Running, LiveUrls, Retiring
<1>12. Cardinality(Running') <= Concurrency
  BY <1>11, FS_EmptySet, ConcurrencyType
<1>13. Matched' /\ RetiringSound'
  BY <1>7, <1>8, <1>11 DEF Matched, RetiringSound
<1> QED
  BY <1>5, <1>6, <1>7, <1>9, <1>10, <1>12, <1>13 DEF JobIInv
-----------------------------------------------------------------------------
(* The start, and the theorems *)

\* A job starts with its seeds and nothing live.
LEMMA JobStart ==
  ASSUME Init
  PROVE  JobIInv
<1>1. /\ FrontierInit /\ pc = "fill" /\ live = << >> /\ watched = {}
      /\ link = 0 /\ results = << >>
  BY DEF Init
<1>2. FrontierInv
  BY <1>1, FrontierStart
<1>3. DOMAIN live = {} /\ Len(results) = 0 /\ claimed = 0
  BY <1>1 DEF FrontierInit
<1>4. JobTypes
  <2>1. live \in [DOMAIN live -> Task]
    BY <1>1, <1>3
  <2>2. results \in Seq(Result)
    BY <1>1
  <2> QED
    BY <1>1, <2>1, <2>2 DEF JobTypes, Labels
<1>5. Ordered
  BY <1>1, <1>3 DEF Ordered
<1>6. Running = {} /\ LiveUrls = {} /\ ~Retiring /\ pc # "raised"
  BY <1>1, <1>3 DEF Running, LiveUrls, Retiring
<1>7. Cardinality(Running) <= Concurrency
  BY <1>6, FS_EmptySet, ConcurrencyType
<1>8. ASSUME NEW u \in DOMAIN entries
      PROVE  /\ u \in SeedUrls /\ entries[u].state \in PendingStates
             /\ entries[u].depth = 0 /\ entries[u].parent = None
  <2> DEFINE ord == SeedOrder(u)
             par == None
             e == NewEntry(0, SeedPriority, par, ord, 0)
  <2>1. u \in SeedUrls /\ entries[u] = e
    BY <1>1 DEF FrontierInit, SeedEntries
  <2>2. ord \in Nat /\ SeedPriority \in Int /\ par \in Url \cup {None}
    BY <2>1, SeedOrders, SeedAssumption
  <2> HIDE DEF ord, par
  <2>3. e.state \in PendingStates
    BY <2>2, NewEntryRecord
  <2>4. e.depth = 0
    BY <2>2, NewEntryRecord
  <2>5. e.parent = par
    BY <2>2, NewEntryRecord
  <2> HIDE DEF e
  <2> QED
    BY <2>1, <2>3, <2>4, <2>5 DEF par
<1>9. InFlight = {}
  BY <1>8 DEF InFlight, PendingStates
<1>10. FoundOnParent
  BY <1>8 DEF FoundOnParent
<1>11. Matched /\ RetiringSound /\ AllClosed
  BY <1>3, <1>6, <1>9 DEF Matched, RetiringSound, AllClosed
<1> QED
  BY <1>2, <1>4, <1>5, <1>7, <1>10, <1>11 DEF JobIInv

\* A step of somebody else changes nothing of the job.
LEMMA JobRests ==
  ASSUME JobIInv, UNCHANGED vars
  PROVE  JobIInv'
<1>0. UNCHANGED clockedVars
  BY DEF vars
<1>1. pc' = pc /\ live' = live /\ watched' = watched /\ link' = link /\ results' = results
  BY DEF vars, jobVars
<1>2. /\ FrontierInv' /\ FoundOnParent' /\ claimed' = claimed /\ InFlight' = InFlight
      /\ entries' = entries
  BY <1>0, FrontierRests
<1>3. JobTypes' /\ Ordered'
  BY <1>1, <1>2 DEF JobIInv, JobTypes, Ordered
<1>4. Cardinality(Running') <= Concurrency
  BY <1>1, SameLive DEF JobIInv
<1>5. AllClosed'
  BY <1>1, <1>2 DEF JobIInv, AllClosed, Terminal
<1>6. Oldest' = Oldest /\ (Retiring' <=> Retiring) /\ Terminal' = Terminal
  BY <1>1, <1>2 DEF Oldest, Retiring, Terminal
<1>7. Matched' /\ RetiringSound'
  BY <1>1, <1>2, <1>6, SameLive DEF JobIInv, Matched, RetiringSound
<1> QED
  BY <1>2, <1>3, <1>4, <1>5, <1>7 DEF JobIInv

\* Every step of the job keeps the invariant.
LEMMA JobStep ==
  ASSUME JobIInv, [Next]_vars
  PROVE  JobIInv'
<1>1. CASE OwnerStep
  BY <1>1, FillOneStep, FillFullStep, FillNoneStep, RetireStopStep, RetireFailedStep,
     RetireOkStep, AdmitLinkStep, ResumeAdmittingStep, AdmitEndStep, WakeUpStep,
     FinishDrainStep DEF OwnerStep
<1>2. CASE \E o \in DOMAIN live : TaskEnds(o)
  BY <1>2, TaskEndsStep
<1>3. CASE CancelJob
  BY <1>3, WakeUpStep
<1>4. CASE UNCHANGED vars
  BY <1>4, JobRests
<1> QED
  BY <1>1, <1>2, <1>3, <1>4 DEF Next

\* In every reachable state of a recursive crawl its frontier is sound, its
\* tasks and its leases match, claims and results are in order, and discovery
\* is sound.
THEOREM JobInvariant == Spec => []JobIInv
<1>1. Init => JobIInv
  BY JobStart
<1>2. JobIInv /\ [Next]_vars => JobIInv'
  BY JobStep
<1> QED
  BY <1>1, <1>2, PTL DEF Spec

\* _fill_capacity: never more running pages than the concurrency, and never
\* more claims than pages asked for.
THEOREM TasksAreBounded == Spec => []TasksBounded
<1>1. JobIInv => TasksBounded
  <2> SUFFICES ASSUME JobIInv PROVE TasksBounded
    OBVIOUS
  <2>1. claimed \in Nat /\ claimed <= MaxPages /\ Len(results) \in Nat /\ Len(results) <= claimed
    BY RunningIsClaimed, LenProperties DEF JobIInv, JobTypes, Ordered
  <2>2. CASE DOMAIN live = {}
    <3>1. Cardinality(DOMAIN live) = 0
      BY <2>2, FS_EmptySet
    <3> QED
      BY <2>1, <3>1, FetchLimit DEF TasksBounded, JobIInv
  <2>3. CASE DOMAIN live # {}
    <3>1. DOMAIN live = Len(results) .. claimed - 1
      BY <2>3 DEF JobIInv, Ordered
    <3>2. Cardinality(DOMAIN live) = claimed - Len(results)
      BY <2>1, <2>3, <3>1, FS_Interval
    <3> QED
      BY <2>1, <3>2, FetchLimit DEF TasksBounded, JobIInv
  <2> QED
    BY <2>2, <2>3
<1> QED
  BY <1>1, JobInvariant, PTL

\* _fill_capacity and _retire_completed: every URL in flight has exactly one
\* task and every task its lease, so no URL is fetched twice;
\* and they stay within the concurrency and the page budget.
THEOREM LeasesMatchTasks == Spec => []JobInv
<1>1. JobIInv => JobTypeOK /\ LeasesHaveTasks
  <2> SUFFICES ASSUME JobIInv PROVE JobTypeOK /\ LeasesHaveTasks
    OBVIOUS
  <2>1. DOMAIN live \subseteq 0 .. MaxPages - 1
    <3>1. DOMAIN live \subseteq 0 .. claimed - 1
      BY LiveFinite DEF JobIInv
    <3> QED
      BY <3>1, RunningIsClaimed, FetchLimit
  <2>2. JobTypeOK
    <3>1. \A i \in DOMAIN results : results[i] \in [url : Url, order : Nat, outcome : Outcome]
      BY LenProperties, ElementOfSeq DEF JobIInv, JobTypes, Result
    <3> QED
      BY <2>1, <3>1 DEF JobTypeOK, JobIInv, JobTypes, Labels
  <2>3. LeasesHaveTasks
    BY DEF JobIInv, Matched, LeasesHaveTasks, LiveUrls, Retiring
  <2> QED
    BY <2>2, <2>3
<1>2. JobTypeOK /\ LeasesHaveTasks /\ TasksBounded => JobInv
  BY DEF JobInv
<1> QED
  BY <1>1, <1>2, JobInvariant, TasksAreBounded, PTL

\* _retire_ready_prefix: results come in claim order without a gap.
THEOREM RetirementIsOrdered == Spec => []RetiredInClaimOrder
<1>1. JobIInv => RetiredInClaimOrder
  BY LenProperties DEF JobIInv, JobTypes, Ordered, RetiredInClaimOrder
<1> QED
  BY <1>1, JobInvariant, PTL

\* _admit_discovered_links: a page that is not a seed was found on a page that
\* succeeded, one level above it.
THEOREM DiscoveryIsSound == Spec => []FoundOnParent
<1>1. JobIInv => FoundOnParent
  BY DEF JobIInv
<1> QED
  BY <1>1, JobInvariant, PTL

\* _cancel_and_drain: a cancelled job leaves no task and no open record.
THEOREM CancellationIsClean == Spec => []CancelledIsClean
<1>1. JobIInv => CancelledIsClean
  BY EmptyLive DEF JobIInv, Ordered, AllClosed, CancelledIsClean
<1> QED
  BY <1>1, JobInvariant, PTL
-----------------------------------------------------------------------------
(* Every page is reported: what the results say of the records, and why the *)
(* budgets never stop a page that was admitted.                             *)

\* No time passes in a job, and nothing in it waits for a time.
Timeless ==
  /\ now = 0
  /\ \A u \in DOMAIN entries : entries[u].readyAt = 0
  /\ \A h \in Host : hosts[h].nextAllowed = 0

Reported == {results[i].url : i \in 1 .. Len(results)}

\* A result is the settled outcome of its page, and a page has one result.
ResultsSound ==
  /\ \A i \in 1 .. Len(results) :
       /\ results[i].url \in Terminal
       /\ entries[results[i].url].reason = ReasonOf[results[i].outcome]
  /\ \A i, j \in 1 .. Len(results) : results[i].url = results[j].url => i = j

\* As long as the job is not cancelled, what is settled is reported, except for
\* the page whose links are being admitted.
ResultsComplete ==
  pc \notin {"drain", "raised"} =>
    /\ Terminal = Reported \cup (IF Retiring THEN {live[Oldest].url} ELSE {})
    /\ Retiring => live[Oldest].url \notin Reported

NothingLeft == pc = "returned" => Pending = {}

PagesIInv == JobIInv /\ Timeless /\ ResultsSound /\ ResultsComplete /\ NothingLeft

\* A URL is attempted at most once and the budgets allow as many attempts as
\* URLs: while one is pending, neither its host nor the job is out of budget.
LEMMA PendingHasBudget ==
  ASSUME FrontierInv, NEW u \in Pending
  PROVE  claimed < GlobalFetchLimit /\ ~Exhausted(Info[u].host)
<1> DEFINE h == Info[u].host
<1>1. /\ IsFiniteSet(DOMAIN entries) /\ \A g : IsFiniteSet(OnHost(DOMAIN entries, g))
      /\ \A v \in DOMAIN entries : /\ Attempts[v] = entries[v].attempts
                                   /\ Attempts[v] \in Nat /\ Attempts[v] <= 1
  BY AttemptsAreNat, JobAssumption DEF FrontierInv, WithinBudgets
<1>2. u \in DOMAIN entries /\ u \in Url /\ Attempts[u] = 0
  <2>1. u \in DOMAIN entries /\ u \in Url
    BY DEF FrontierInv, TypeOK, Pending
  <2>2. entries[u].attempts < 1
    BY <2>1, JobAssumption DEF FrontierInv, WithinBudgets
  <2> QED
    BY <1>1, <2>1, <2>2
<1>3. ASSUME NEW S \in SUBSET DOMAIN entries, IsFiniteSet(S), u \in S
      PROVE  /\ AttemptsOf(S) \in Nat /\ Cardinality(S) \in Nat
             /\ AttemptsOf(S) < Cardinality(S)
  BY <1>1, <1>2, <1>3, SumBounds, FS_CardinalityType DEF AttemptsOf
<1>4. h \in Host /\ u \in OnHost(DOMAIN entries, h)
  BY <1>2, HostOfUrl DEF OnHost
<1>5. claimed < admitted /\ admitted <= MaxPages /\ claimed \in Nat /\ admitted \in Nat
  BY <1>1, <1>2, <1>3, JobAssumption DEF FrontierInv, TypeOK, WithinBudgets, CountersExact
<1>6. OnHost(DOMAIN entries, h) \in SUBSET DOMAIN entries
  BY DEF OnHost
<1>7. /\ hosts[h].fetches < hosts[h].admitted /\ hosts[h].admitted <= MaxPages
      /\ hosts[h].fetches \in Nat /\ hosts[h].admitted \in Nat
  <2>1. /\ hosts[h].fetches = AttemptsOf(OnHost(DOMAIN entries, h))
        /\ hosts[h].admitted = Cardinality(OnHost(DOMAIN entries, h))
        /\ hosts[h].admitted <= MaxPages
    BY <1>4, JobAssumption DEF FrontierInv, WithinBudgets, CountersExact
  <2> QED
    BY <1>1, <1>3, <1>4, <1>6, <2>1
<1>8. HostFetchLimit = MaxPages
  BY JobAssumption DEF HostFetchLimit
<1> HIDE DEF h
<1>9. ~Exhausted(h)
  BY <1>7, <1>8, JobAssumption DEF Exhausted
<1> QED
  BY <1>5, <1>9, FetchLimit DEF h

\* So a claim drops no page for a budget.
LEMMA NothingDropped ==
  ASSUME FrontierInv
  PROVE  /\ DOMAIN DrainedEntries = DOMAIN entries
         /\ \A u \in DOMAIN entries : DrainedEntries[u] = entries[u]
BY PendingHasBudget DEF DrainedEntries, PendingTerminated

\* When nothing is claimable, nothing is pending: no host is out of budget, and
\* no URL and no host waits for a time.
LEMMA NothingPending ==
  ASSUME FrontierInv, Timeless, NEW u \in Pending
  PROVE  Candidates(now) # {} /\ claimed < GlobalFetchLimit
<1>1. u \in DOMAIN entries /\ u \in Url
  BY DEF Pending, FrontierInv, TypeOK
<1> DEFINE h == Info[u].host
<1>2. h \in Host /\ ~Exhausted(h) /\ claimed < GlobalFetchLimit
  BY <1>1, HostOfUrl, PendingHasBudget
<1>3. hosts[h].fetches \in Nat /\ HostFetchLimit \in Nat
  BY <1>2, ConfigIsNat DEF FrontierInv, TypeOK, HostState
<1>4. u \in Due(h, now)
  BY <1>1 DEF Due, Timeless
<1>5. Claimable(h, now)
  BY <1>2, <1>3, <1>4 DEF Claimable, Exhausted, Timeless
<1> QED
  BY <1>2, <1>5, ClaimableIsCandidate

\* A claim without a lease leaves every record as it is.
LEMMA IdleClaim ==
  ASSUME FrontierInv, ClaimNothing \/ ClaimOverBudget
  PROVE  /\ DOMAIN entries' = DOMAIN entries
         /\ \A u \in DOMAIN entries : entries'[u] = entries[u]
<1>1. CASE ClaimNothing
  BY <1>1, NothingDropped DEF ClaimNothing
<1>2. CASE ClaimOverBudget
  <2>1. Pending = {}
    BY <1>2, PendingHasBudget, ConfigIsNat DEF ClaimOverBudget, FrontierInv, TypeOK
  <2> QED
    BY <1>2, <2>1 DEF ClaimOverBudget, PendingTerminated
<1> QED
  BY <1>1, <1>2

\* A lease moves one record, and settles none.
LEMMA OneLease ==
  ASSUME FrontierInv, ClaimLease
  PROVE  /\ DOMAIN entries' = DOMAIN entries
         /\ \E u \in Pending : /\ entries'[u].state = "IN_FLIGHT"
                               /\ entries'[u].readyAt = entries[u].readyAt
                               /\ \A v \in DOMAIN entries \ {u} : entries'[v] = entries[v]
<1> DEFINE h == SelectedHost
           top == HeapTop(Scanned(h, now).ready)
           u == top.url
<1>1. u \in Pending
  BY LeasedUrl DEF ClaimLease
<1>2. entries' = [DrainedEntries EXCEPT ![u].state = "IN_FLIGHT", ![u].attempts = @ + 1]
  BY DEF ClaimLease
<1> HIDE DEF h, top, u
<1>3. u \in DOMAIN entries /\ entries[u] \in Entry
  BY <1>1 DEF Pending, FrontierInv, TypeOK
<1>4. /\ DOMAIN DrainedEntries = DOMAIN entries
      /\ \A v \in DOMAIN entries : DrainedEntries[v] = entries[v]
  BY NothingDropped
<1>5. /\ DOMAIN entries' = DOMAIN entries
      /\ entries'[u] = [entries[u] EXCEPT !.state = "IN_FLIGHT", !.attempts = @ + 1]
      /\ \A v \in DOMAIN entries \ {u} : entries'[v] = entries[v]
  <2>1. DrainedEntries = [v \in DOMAIN entries |-> DrainedEntries[v]]
    BY DEF DrainedEntries, PendingTerminated
  <2> QED
    BY <1>2, <1>3, <1>4, <2>1
<1>6. entries'[u].state = "IN_FLIGHT" /\ entries'[u].readyAt = entries[u].readyAt
  BY <1>3, <1>5 DEF Entry
<1> QED
  BY <1>1, <1>5, <1>6

\* Advancing heaps leaves the clock of their host alone.
LEMMA ScannedClock ==
  ASSUME TypeOK, NEW h \in Host, NEW t
  PROVE  Scanned(h, t).nextAllowed = hosts[h].nextAllowed
<1>1. hosts[h] \in HostState
  BY DEF TypeOK
<1>2. Promoted(hosts[h], t).nextAllowed = hosts[h].nextAllowed
  BY <1>1 DEF Promoted, HostState
<1> DEFINE P == Promoted(hosts[h], t)
<1>3. "nextAllowed" \in DOMAIN P
  BY <1>1 DEF Promoted, HostState
<1> HIDE DEF P
<1>4. Peeked(P).nextAllowed = P.nextAllowed
  BY <1>3 DEF Peeked
<1> QED
  BY <1>2, <1>4 DEF P, Scanned

\* No time: a claim.
LEMMA ClaimTimeless ==
  ASSUME FrontierInv, Timeless, ClaimNothing \/ ClaimOverBudget \/ ClaimLease, UNCHANGED now
  PROVE  Timeless'
<1>0. TypeOK /\ now = 0
  BY DEF FrontierInv, Timeless
<1>1. \A u \in DOMAIN entries' : entries'[u].readyAt = 0
  <2>1. CASE ClaimLease
    BY <2>1, OneLease DEF Timeless
  <2>2. CASE ~ClaimLease
    BY <2>2, IdleClaim DEF Timeless
  <2> QED
    BY <2>1, <2>2
<1>2. ASSUME NEW h \in Host PROVE hosts'[h].nextAllowed = 0
  <2>1. ScannedHosts[h].nextAllowed = 0
    BY <1>0, ScannedClock DEF ScannedHosts, Timeless
  <2>2. CASE ClaimNothing
    BY <2>1, <2>2 DEF ClaimNothing
  <2>3. CASE ClaimOverBudget
    BY <2>3 DEF ClaimOverBudget, Timeless
  <2>4. CASE ClaimLease
    <3> DEFINE g == SelectedHost
               top == HeapTop(Scanned(g, now).ready)
               L == LeasedHost(ScannedHosts[g], top)
    <3>1. hosts' = [ScannedHosts EXCEPT ![g] = L]
      BY <2>4 DEF ClaimLease
    <3>2. h = g => L.nextAllowed = 0
      <4>1. h = g => ScannedHosts[g] \in HostState /\ ScannedHosts[g].nextAllowed = 0
        BY <2>1, ScannedHostsAdvance
      <4> HIDE DEF g, top
      <4> QED
        BY <1>0, <4>1, JobAssumption DEF LeasedHost, HostState, LaterOf
    <3> HIDE DEF g, top, L
    <3>3. DOMAIN ScannedHosts = Host
      BY DEF ScannedHosts
    <3> QED
      BY <2>1, <3>1, <3>2, <3>3
  <2> QED
    BY <2>2, <2>3, <2>4
<1> QED
  BY <1>0, <1>1, <1>2 DEF Timeless

\* No time: settling records.
LEMMA SettledTimeless ==
  ASSUME FrontierInv, Timeless, UNCHANGED <<hosts, now>>, DOMAIN entries' = DOMAIN entries,
         \A u \in DOMAIN entries : \/ entries'[u] = entries[u]
                                   \/ \E r \in TerminalReasons :
                                        \/ entries'[u] = Terminated(entries[u], r)
                                        \/ entries'[u] = Settled(entries[u], 1, r)
  PROVE  Timeless'
<1>1. ASSUME NEW u \in DOMAIN entries, NEW r \in TerminalReasons
      PROVE  /\ Terminated(entries[u], r).readyAt = entries[u].readyAt
             /\ Settled(entries[u], 1, r).readyAt = entries[u].readyAt
  <2>1. entries[u] \in Entry
    BY DEF FrontierInv, TypeOK
  <2>2. Terminated(entries[u], r).readyAt = entries[u].readyAt
    BY <2>1 DEF Terminated, Entry
  <2> QED
    BY <2>1, <2>2, SettledRecord
<1> QED
  BY <1>1 DEF Timeless

\* No time: a link is admitted at the owner's clock.
LEMMA AdmitTimeless ==
  ASSUME FrontierInv, Timeless, NEW lk \in Link, NEW d \in Nat, NEW p \in Int,
         NEW par \in Url \cup {None}, Admit(lk, d, p, par, now), UNCHANGED now
  PROVE  Timeless'
<1> DEFINE u == Canonical[lk]
<1>1. \/ Admissible(u, d) /\ AdmitNew(u, d, p, par, now)
      \/ Improves(u, d, p) /\ Reprioritize(u, d, p, par, now)
      \/ UNCHANGED frontierVars
  BY DEF Admit
<1>2. u \in Url \cup {Malformed} /\ now = 0 /\ TypeOK /\ now \in Nat
  BY DataAssumption DEF Timeless, FrontierInv, TypeOK
<1> HIDE DEF u
<1>3. CASE Admissible(u, d) /\ AdmitNew(u, d, p, par, now)
  <2>1. PICK ord \in Nat : ord = admitted + 1
    BY <1>2 DEF TypeOK
  <2> DEFINE h == Info[u].host
             e == NewEntry(d, p, par, ord, now)
             Q == [Push(hosts[h], u, e) EXCEPT !.admitted = @ + 1]
  <2>2. /\ entries' = [v \in DOMAIN entries \cup {u} |-> IF v = u THEN e ELSE entries[v]]
        /\ hosts' = [hosts EXCEPT ![h] = Q]
    BY <1>3, <2>1 DEF AdmitNew
  <2>3. e.readyAt = 0
    <3>1. PICK at \in Nat : at = now
      BY <1>2
    <3>2. NewEntry(d, p, par, ord, at).readyAt = at
      BY NewEntryRecord
    <3> QED
      BY <1>2, <3>1, <3>2
  <2>4. u \in Url /\ h \in Host /\ hosts[h] \in HostState /\ DOMAIN hosts = Host
    BY <1>2, <1>3, HostOfUrl DEF Admissible, TypeOK
  <2> HIDE DEF e
  <2>5. Q.nextAllowed = hosts[h].nextAllowed
    BY <2>4 DEF Push, HostState
  <2> HIDE DEF Q, h
  <2>6. \A v \in DOMAIN entries' : entries'[v].readyAt = 0
    BY <2>2, <2>3 DEF Timeless
  <2>7. \A g \in Host : hosts'[g].nextAllowed = 0
    BY <2>2, <2>4, <2>5 DEF Timeless
  <2> QED
    BY <1>2, <2>6, <2>7 DEF Timeless
<1>4. CASE Improves(u, d, p) /\ Reprioritize(u, d, p, par, now)
  <2> DEFINE h == Info[u].host
             old == entries[u]
             dd == EarlierOf(d, old.depth)
             pp == IF d < old.depth THEN par ELSE old.parent
             qq == LaterOf(p, old.priority)
             tt == EarlierOf(old.readyAt, now)
             f == [old EXCEPT !.depth = dd, !.parent = pp, !.priority = qq]
             e == Enqueued(f, tt)
             P == Push(hosts[h], u, e)
  <2>1. u \in DOMAIN entries /\ u \in Url /\ old \in Entry
    BY <1>2, <1>4 DEF Improves, Pending, TypeOK
  <2>2. entries' = [entries EXCEPT ![u] = e] /\ hosts' = [hosts EXCEPT ![h] = P]
    BY <1>4 DEF Reprioritize
  <2>3. tt = 0 /\ dd \in Nat /\ pp \in Url \cup {None} /\ qq \in Int
    BY <1>2, <2>1 DEF EarlierOf, LaterOf, Entry, Timeless
  <2> HIDE DEF dd, pp, qq, tt
  <2>4. f \in Entry
    BY <2>1, <2>3, ReprioritizeType
  <2> HIDE DEF f
  <2>5. e.readyAt = 0
    BY <2>3, <2>4, EnqueuedRecord
  <2>6. h \in Host /\ hosts[h] \in HostState /\ DOMAIN hosts = Host
    BY <1>2, <2>1, HostOfUrl DEF TypeOK
  <2> HIDE DEF e
  <2>7. P.nextAllowed = hosts[h].nextAllowed
    BY <2>6 DEF Push, HostState
  <2> HIDE DEF P, h
  <2>8. \A v \in DOMAIN entries' : entries'[v].readyAt = 0
    BY <2>1, <2>2, <2>5 DEF Timeless
  <2>9. \A g \in Host : hosts'[g].nextAllowed = 0
    BY <2>2, <2>6, <2>7 DEF Timeless
  <2> QED
    BY <1>2, <2>8, <2>9 DEF Timeless
<1>5. CASE UNCHANGED frontierVars
  BY <1>5 DEF frontierVars, Timeless
<1> QED
  BY <1>1, <1>3, <1>4, <1>5

\* No time: any step.
LEMMA TimelessStep ==
  ASSUME JobIInv, Timeless, [Next]_vars
  PROVE  Timeless'
<1>1. FrontierInv
  BY DEF JobIInv
<1>2. CASE UNCHANGED clockedVars
  BY <1>2 DEF clockedVars, frontierVars, Timeless
<1>3. CASE FillOne \/ FillNone
  BY <1>1, <1>3, ClaimTimeless DEF FillOne, FillNone
<1>4. CASE RetireFailed \/ RetireOk
  <2>1. PICK u \in InFlight, reason \in TerminalReasons : Finish(u, 1, reason) /\ UNCHANGED now
    <3>1. CASE RetireFailed
      <4>1. live[Oldest].state \in Outcome
        BY <3>1 DEF RetireFailed, Outcome, ReasonOf
      <4> QED
        BY <3>1, <4>1, ReasonsAreTerminal DEF RetireFailed, FailPermanently, Holds
    <3>2. CASE RetireOk
      BY <3>2 DEF RetireOk, Succeed, Holds, TerminalReasons
    <3> QED
      BY <1>4, <3>1, <3>2
  <2>2. /\ DOMAIN entries' = DOMAIN entries /\ UNCHANGED <<hosts, now>>
        /\ \A v \in DOMAIN entries : \/ entries'[v] = entries[v]
                                     \/ entries'[v] = Settled(entries[v], 1, reason)
    BY <2>1 DEF Finish
  <2> QED
    BY <1>1, <2>2, SettledTimeless
<1>5. CASE AdmitLink
  <2> DEFINE u == live[Oldest].url
             lk == PageLinks[u][link]
             d == entries[u].depth + 1
  <2>1. Admit(lk, d, SeedPriority, u, now) /\ UNCHANGED now /\ link <= Len(PageLinks[u])
    BY <1>5 DEF AdmitLink
  <2>2. u \in Terminal /\ link >= 1 /\ link \in Nat
    BY <1>5 DEF AdmitLink, Retiring, JobIInv, RetiringSound, JobTypes
  <2>3. u \in Url /\ d \in Nat
    BY <1>1, <2>2 DEF Terminal, FrontierInv, TypeOK, Entry
  <2> HIDE DEF u
  <2>4. lk \in Link
    <3>1. PageLinks[u] \in Seq(Link) /\ link \in 1 .. Len(PageLinks[u])
      BY <2>1, <2>2, <2>3, JobAssumption, LenProperties
    <3> QED
      BY <3>1, ElementOfSeq
  <2> HIDE DEF lk, d
  <2> QED
    BY <1>1, <2>1, <2>3, <2>4, SeedAssumption, AdmitTimeless
<1>6. CASE FinishDrain
  <2>1. /\ DOMAIN entries' = DOMAIN entries /\ UNCHANGED <<hosts, now>>
        /\ \A v \in DOMAIN entries : \/ entries'[v] = entries[v]
                                     \/ entries'[v] = Terminated(entries[v], "CANCELLED")
                                     \/ entries'[v] = Settled(entries[v], 1, "CANCELLED")
    BY <1>6 DEF FinishDrain, PendingTerminated
  <2> QED
    BY <1>1, <2>1, BudgetReasons, SettledTimeless
<1>7. \/ UNCHANGED clockedVars \/ FillOne \/ FillNone \/ RetireFailed \/ RetireOk
      \/ AdmitLink \/ FinishDrain
  BY DEF Next, OwnerStep, FillFull, RetireStop, RetireCancelled, ResumeAdmitting, AdmitEnd,
         WakeUp, TaskEnds, CancelJob, vars
<1> QED
  BY <1>2, <1>3, <1>4, <1>5, <1>6, <1>7

\* A step that reports nothing.
LEMMA ReportsKept ==
  ASSUME PagesIInv, results' = results,
         \A u \in Terminal : u \in Terminal' /\ entries'[u] = entries[u],
         pc' \notin {"drain", "raised"} =>
           /\ pc \notin {"drain", "raised"} /\ Terminal' = Terminal
           /\ Retiring' <=> Retiring
           /\ Retiring => live'[Oldest'].url = live[Oldest].url,
         pc' = "returned" => Pending' = {}
  PROVE  ResultsSound' /\ ResultsComplete' /\ NothingLeft'
<1>1. ResultsSound' /\ Reported' = Reported
  BY DEF PagesIInv, ResultsSound, Reported
<1>2. ResultsComplete'
  BY <1>1 DEF PagesIInv, ResultsComplete
<1> QED
  BY <1>1, <1>2 DEF NothingLeft

\* The head of the buffer while a page's links are admitted stays the head.
LEMMA SameHead ==
  ASSUME JobIInv, JobIInv', live' = live, results' = results, Retiring, pc' # "raised"
  PROVE  Oldest' = Oldest
<1>1. DOMAIN live # {} /\ pc # "raised"
  BY DEF JobIInv, RetiringSound, Retiring
<1>2. Oldest = Len(results)
  BY <1>1, OldestIs DEF JobIInv
<1>3. Oldest' = Len(results')
  BY <1>1, OldestIsNext DEF JobIInv
<1> QED
  BY <1>2, <1>3

\* The head of the buffer is reported: it is settled, with the reason of its
\* outcome, and had no result before.
LEMMA HeadReported ==
  ASSUME PagesIInv, JobIInv', DOMAIN live # {}, pc \in {"retire", "admit"}, pc' = "retire",
         AppendResult(Oldest), live[Oldest].state # "running",
         \A u \in Terminal : u \in Terminal' /\ entries'[u] = entries[u],
         Terminal' = Reported \cup {live[Oldest].url},
         live[Oldest].url \notin Reported,
         entries'[live[Oldest].url].reason = ReasonOf[live[Oldest].state]
  PROVE  ResultsSound' /\ ResultsComplete' /\ NothingLeft'
<1> DEFINE u == live[Oldest].url
           r == [url |-> u, order |-> Oldest, outcome |-> live[Oldest].state]
           n == Len(results)
<1>1. results' = Append(results, r)
  BY DEF AppendResult
<1>2. Oldest \in DOMAIN live /\ Oldest = n /\ n \in Nat /\ results \in Seq(Result)
  BY OldestIs, LenProperties DEF PagesIInv, JobIInv, JobTypes
<1>3. r \in Result
  BY <1>2, LiveTasks DEF PagesIInv, JobIInv, Result
<1>4. r.url = u /\ r.outcome = live[Oldest].state
  OBVIOUS
<1> HIDE DEF r
<1>5. /\ Len(results') = n + 1
      /\ \A i \in 1 .. n : results'[i] = results[i]
      /\ results'[n + 1] = r
  BY <1>1, <1>2, <1>3, AppendProperties
<1> HIDE DEF u, n
<1>6. \A i \in 1 .. n + 1 : i \in 1 .. n \/ i = n + 1
  BY <1>2
<1>7. Reported' = Reported \cup {u}
  BY <1>2, <1>4, <1>5, <1>6 DEF Reported, n
<1>8. u \in Terminal' /\ u \notin Reported
      /\ entries'[u].reason = ReasonOf[live[Oldest].state]
  BY DEF u
<1>9. \A i \in 1 .. n : /\ results[i].url \in Terminal /\ results[i].url \in Reported
                        /\ entries[results[i].url].reason = ReasonOf[results[i].outcome]
  BY DEF PagesIInv, ResultsSound, Reported, n
<1>10. \A i \in 1 .. n + 1 :
         /\ results'[i].url \in Terminal'
         /\ entries'[results'[i].url].reason = ReasonOf[results'[i].outcome]
  BY <1>4, <1>5, <1>6, <1>8, <1>9
<1>11. \A i, j \in 1 .. n + 1 : results'[i].url = results'[j].url => i = j
  <2>1. \A i, j \in 1 .. n : results[i].url = results[j].url => i = j
    BY DEF PagesIInv, ResultsSound, n
  <2> QED
    BY <1>4, <1>5, <1>6, <1>8, <1>9, <2>1
<1>12. ResultsSound'
  BY <1>5, <1>10, <1>11 DEF ResultsSound
<1> QED
  BY <1>7, <1>12 DEF ResultsComplete, NothingLeft, Retiring, u

\* Filling: a claim settles nothing, and a job that returns has nothing left.
LEMMA FillReports ==
  ASSUME PagesIInv, JobIInv', FillOne \/ FillFull \/ FillNone
  PROVE  ResultsSound' /\ ResultsComplete' /\ NothingLeft'
<1>1. /\ FrontierInv /\ Timeless /\ JobIInv /\ Filling /\ results' = results
      /\ ~Retiring /\ pc \notin {"drain", "raised", "returned"}
  BY DEF PagesIInv, JobIInv, FillOne, FillFull, FillNone, Filling, Retiring
<1>2. CASE FillOne
  <2>1. pc' = pc
    BY <1>2 DEF FillOne
  <2>2. /\ DOMAIN entries' = DOMAIN entries
        /\ \E u \in Pending : /\ entries'[u].state = "IN_FLIGHT"
                              /\ \A v \in DOMAIN entries \ {u} : entries'[v] = entries[v]
    BY <1>1, <1>2, OneLease DEF FillOne
  <2>3. Terminal' = Terminal /\ \A u \in Terminal : entries'[u] = entries[u]
    BY <2>2 DEF Terminal, Pending, PendingStates
  <2>4. ~Retiring'
    BY <1>1, <2>1 DEF Retiring
  <2> QED
    BY <1>1, <2>1, <2>3, <2>4, ReportsKept
<1>3. CASE FillFull \/ FillNone
  <2>1. AfterFill /\ live' = live
    BY <1>3 DEF FillFull, FillNone
  <2>2. /\ pc' \in {"returned", "retire", "fill", "wait"}
        /\ pc' = "returned" => DOMAIN live = {}
    BY <1>1, <2>1, AfterFillMoves
  <2>3. /\ DOMAIN entries' = DOMAIN entries
        /\ \A u \in DOMAIN entries : entries'[u] = entries[u]
    BY <1>1, <1>3, IdleClaim DEF FillFull, FillNone, clockedVars, frontierVars
  <2>4. Terminal' = Terminal /\ Pending' = Pending
    BY <2>3 DEF Terminal, Pending
  <2>5. ASSUME pc' = "returned" PROVE Pending = {}
    <3>1. DOMAIN live = {} /\ Running = {}
      BY <2>2, <2>5 DEF Running
    <3>2. Cardinality(Running) = 0
      BY <3>1, FS_EmptySet
    <3>3. FillNone
      BY <1>3, <3>2, ConcurrencyType DEF FillFull
    <3>4. claimed \in Nat /\ GlobalFetchLimit \in Nat
      BY <1>1, ConfigIsNat DEF FrontierInv, TypeOK
    <3> QED
      BY <1>1, <3>3, <3>4, NothingPending DEF FillNone, ClaimNothing, ClaimOverBudget
  <2>6. ~Retiring'
    BY <2>2 DEF Retiring
  <2> QED
    BY <1>1, <1>3, <2>2, <2>3, <2>4, <2>5, <2>6, ReportsKept DEF Terminal
<1> QED
  BY <1>2, <1>3

\* Retiring the head of the buffer.
LEMMA RetireReports ==
  ASSUME PagesIInv, JobIInv', RetireFailed \/ RetireOk \/ AdmitEnd
  PROVE  ResultsSound' /\ ResultsComplete' /\ NothingLeft'
<1> DEFINE u == live[Oldest].url
<1>1. JobIInv /\ FrontierInv /\ \A i \in 1 .. Len(results) : results[i].url \in Terminal
  BY DEF PagesIInv, JobIInv, ResultsSound
<1>2. CASE RetireFailed \/ RetireOk
  <2> DEFINE reason == ReasonOf[live[Oldest].state]
  <2>1. /\ pc = "retire" /\ live # << >>
        /\ live[Oldest].state \in {"ok", "failed", "robots", "rejected"}
        /\ Holds(u, 1) /\ Finish(u, 1, reason) /\ UNCHANGED now
    BY <1>2 DEF RetireFailed, RetireOk, FailPermanently, Succeed, ReasonOf
  <2>2. reason \in TerminalReasons
    <3>1. live[Oldest].state \in Outcome
      BY <2>1 DEF Outcome, ReasonOf
    <3> QED
      BY <3>1, ReasonsAreTerminal
  <2>3. ~Retiring /\ DOMAIN live # {} /\ Terminal = Reported
    BY <1>1, <2>1, EmptyLive DEF Retiring, JobIInv, PagesIInv, ResultsComplete
  <2> HIDE DEF u, reason
  <2>4. u \in InFlight
    BY <2>1 DEF Holds
  <2>5. /\ DOMAIN entries' = DOMAIN entries
        /\ entries'[u].state = "TERMINAL" /\ entries'[u].reason = reason
        /\ \A v \in DOMAIN entries \ {u} : entries'[v] = entries[v]
    BY <1>1, <2>1, <2>2, <2>4, FinishEffect
  <2>6. /\ Terminal' = Terminal \cup {u} /\ u \notin Terminal
        /\ \A v \in Terminal : v \in Terminal' /\ entries'[v] = entries[v]
    BY <2>4, <2>5 DEF Terminal, InFlight
  <2>7. CASE RetireFailed
    <3>1. AppendResult(Oldest) /\ pc' = "retire" /\ live[Oldest].state # "running"
      BY <2>7 DEF RetireFailed
    <3> QED
      BY <2>1, <2>3, <2>5, <2>6, <3>1, HeadReported DEF u, reason
  <2>8. CASE RetireOk
    <3>1. results' = results /\ pc' = "admit" /\ live' = live
      BY <2>8 DEF RetireOk, Goto
    <3>2. DOMAIN live' # {}
      BY <2>3, <3>1
    <3>3. Oldest = Len(results) /\ Oldest' = Len(results')
      BY <1>1, <2>1, <2>3, <3>1, <3>2, OldestIs, OldestIsNext DEF JobIInv
    <3>4. live'[Oldest'].url = u
      BY <3>1, <3>3 DEF u
    <3>5. ResultsSound' /\ Reported' = Reported
      BY <2>6, <3>1 DEF PagesIInv, ResultsSound, Reported
    <3> QED
      BY <2>3, <2>6, <3>1, <3>4, <3>5 DEF ResultsComplete, NothingLeft, Retiring
  <2> QED
    BY <1>2, <2>7, <2>8
<1>3. CASE AdmitEnd
  <2>1. /\ pc = "admit" /\ pc' = "retire" /\ AppendResult(Oldest) /\ UNCHANGED clockedVars
    BY <1>3 DEF AdmitEnd, Goto
  <2>2. /\ Retiring /\ DOMAIN live # {} /\ live[Oldest].state = "ok"
        /\ u \in Terminal /\ entries[u].reason = "SUCCEEDED"
    BY <1>1, <2>1 DEF JobIInv, RetiringSound, Retiring
  <2>3. Terminal = Reported \cup {u} /\ u \notin Reported
    BY <2>1, <2>2 DEF PagesIInv, ResultsComplete
  <2>4. entries' = entries /\ Terminal' = Terminal
    BY <2>1 DEF clockedVars, frontierVars, Terminal
  <2>5. ReasonOf[live[Oldest].state] = "SUCCEEDED"
    BY <2>2 DEF ReasonOf
  <2> QED
    BY <2>1, <2>2, <2>3, <2>4, <2>5, HeadReported
<1> QED
  BY <1>2, <1>3

\* The other steps of the job.
LEMMA OtherReports ==
  ASSUME PagesIInv, JobIInv',
         \/ RetireStop \/ RetireCancelled \/ AdmitLink \/ ResumeAdmitting \/ WakeUp
         \/ FinishDrain \/ CancelJob \/ UNCHANGED vars
         \/ \E o \in DOMAIN live : TaskEnds(o)
  PROVE  ResultsSound' /\ ResultsComplete' /\ NothingLeft'
<1>1. JobIInv /\ FrontierInv /\ NothingLeft
  BY DEF PagesIInv, JobIInv
<1>2. CASE RetireStop \/ RetireCancelled \/ WakeUp \/ CancelJob
  <2>1. /\ entries' = entries /\ results' = results /\ pc' \in {"refill", "drain", "fill"}
        /\ pc' # "drain" => pc \in {"retire", "wait"}
    BY <1>2 DEF RetireStop, RetireCancelled, WakeUp, CancelJob, Goto, clockedVars, frontierVars
  <2> QED
    BY <2>1, ReportsKept DEF Terminal, Retiring
<1>3. CASE ResumeAdmitting \/ AdmitLink
  <2>1. /\ results' = results /\ live' = live /\ pc \in {"admit", "yield"}
        /\ pc' \in {"admit", "yield"}
    BY <1>3 DEF ResumeAdmitting, AdmitLink, Goto
  <2>2. Oldest' = Oldest
    BY <1>1, <2>1, SameHead DEF Retiring
  <2>3. Terminal' = Terminal /\ \A u \in Terminal : entries'[u] = entries[u]
    <3>1. CASE ResumeAdmitting
      BY <3>1 DEF ResumeAdmitting, clockedVars, frontierVars, Terminal
    <3>2. CASE AdmitLink
      <4> DEFINE u == live[Oldest].url
                 lk == PageLinks[u][link]
                 d == entries[u].depth + 1
      <4>1. Admit(lk, d, SeedPriority, u, now) /\ UNCHANGED now /\ link <= Len(PageLinks[u])
        BY <3>2 DEF AdmitLink
      <4>2. u \in Terminal /\ link >= 1 /\ link \in Nat /\ now \in Nat
        BY <1>1, <2>1 DEF Retiring, JobIInv, RetiringSound, JobTypes, FrontierInv, TypeOK
      <4>3. u \in Url /\ d \in Nat
        BY <1>1, <4>2 DEF Terminal, FrontierInv, TypeOK, Entry
      <4> HIDE DEF u
      <4>4. lk \in Link
        <5>1. PageLinks[u] \in Seq(Link) /\ link \in 1 .. Len(PageLinks[u])
          BY <4>1, <4>2, <4>3, JobAssumption, LenProperties
        <5> QED
          BY <5>1, ElementOfSeq
      <4> HIDE DEF lk, d
      <4>5. /\ DOMAIN entries \subseteq DOMAIN entries'
            /\ \A v \in DOMAIN entries \ Pending : entries'[v] = entries[v]
            /\ \A v \in DOMAIN entries' : v \notin DOMAIN entries \/ v \in Pending =>
                 entries'[v].state \in PendingStates
        BY <1>1, <4>1, <4>2, <4>3, <4>4, SeedAssumption, AdmitEffect
      <4> QED
        BY <4>5 DEF Terminal, Pending, PendingStates
    <3> QED
      BY <1>3, <3>1, <3>2
  <2> QED
    BY <2>1, <2>2, <2>3, ReportsKept DEF Retiring
<1>4. CASE FinishDrain
  <2>1. /\ pc' = "raised" /\ results' = results
        /\ entries' = [u \in DOMAIN entries |->
                         IF u \in {live[o].url : o \in DOMAIN live} /\ Holds(u, 1)
                         THEN Settled(entries[u], 1, "CANCELLED")
                         ELSE PendingTerminated(Host, "CANCELLED")[u]]
    BY <1>4 DEF FinishDrain, Goto
  <2>2. \A u \in Terminal : u \in Terminal' /\ entries'[u] = entries[u]
    BY <2>1 DEF Terminal, Pending, PendingStates, Holds, InFlight, PendingTerminated
  <2> QED
    BY <2>1, <2>2, ReportsKept
<1>5. CASE UNCHANGED vars
  <2>1. /\ entries' = entries /\ results' = results /\ live' = live /\ pc' = pc
    BY <1>5 DEF vars, jobVars, clockedVars, frontierVars
  <2>2. Oldest' = Oldest
    BY <2>1 DEF Oldest
  <2> QED
    BY <1>1, <2>1, <2>2, ReportsKept DEF Terminal, Retiring, Pending, NothingLeft
<1>6. CASE \E o \in DOMAIN live : TaskEnds(o)
  <2>1. PICK o \in DOMAIN live : TaskEnds(o)
    BY <1>6
  <2>2. /\ entries' = entries /\ results' = results /\ pc' = pc
        /\ pc \in {"wait", "yield", "drain"} /\ o \in Running
        /\ \E result : live' = [live EXCEPT ![o].state = result]
    BY <2>1 DEF TaskEnds, AtAwait, clockedVars, frontierVars
  <2>3. DOMAIN live' = DOMAIN live /\ \A q \in DOMAIN live : live'[q].url = live[q].url
    <3>1. \A q \in DOMAIN live : live[q] \in Task
      BY <1>1 DEF JobIInv, JobTypes
    <3> QED
      BY <2>1, <2>2, <3>1 DEF Task
  <2>4. Oldest' = Oldest
    BY <2>3 DEF Oldest
  <2>5. pc = "yield" => Oldest \in DOMAIN live
    <3>1. pc = "yield" => DOMAIN live # {}
      BY <1>1 DEF JobIInv, RetiringSound, Retiring
    <3> QED
      BY <1>1, <3>1, OldestIs DEF JobIInv
  <2> QED
    BY <2>2, <2>3, <2>4, <2>5, ReportsKept DEF Terminal, Retiring
<1> QED
  BY <1>2, <1>3, <1>4, <1>5, <1>6

\* Every step of the job keeps the results in agreement with the records.
LEMMA PagesStep ==
  ASSUME PagesIInv, [Next]_vars
  PROVE  PagesIInv'
<1>1. JobIInv'
  BY JobStep DEF PagesIInv
<1>2. Timeless'
  BY TimelessStep DEF PagesIInv
<1>3. ResultsSound' /\ ResultsComplete' /\ NothingLeft'
  BY <1>1, FillReports, RetireReports, OtherReports DEF Next, OwnerStep
<1> QED
  BY <1>1, <1>2, <1>3 DEF PagesIInv

\* A job starts with no result and every seed pending.
LEMMA PagesStart ==
  ASSUME Init
  PROVE  PagesIInv
<1>1. JobIInv
  BY JobStart
<1>2. /\ FrontierInit /\ pc = "fill" /\ results = << >> /\ Len(results) = 0
  BY DEF Init
<1>3. ASSUME NEW u \in DOMAIN entries
      PROVE  entries[u].readyAt = 0 /\ entries[u].state \in PendingStates
  <2>1. u \in SeedUrls /\ entries[u] = NewEntry(0, SeedPriority, None, SeedOrder(u), 0)
    BY <1>2 DEF FrontierInit, SeedEntries
  <2>2. SeedOrder(u) \in Nat /\ SeedPriority \in Int
    BY <2>1, SeedOrders, SeedAssumption
  <2> DEFINE ord == SeedOrder(u)
             par == None
             e == NewEntry(0, SeedPriority, par, ord, 0)
  <2>3. ord \in Nat /\ par \in Url \cup {None} /\ entries[u] = e
    BY <2>1, <2>2
  <2> HIDE DEF ord, par
  <2>4. e.readyAt = 0
    BY <2>2, <2>3, SeedReady
  <2>5. e.state \in PendingStates
    BY <2>2, <2>3, NewEntryRecord
  <2> HIDE DEF e
  <2> QED
    BY <2>3, <2>4, <2>5
<1>4. Terminal = {}
  BY <1>3 DEF Terminal, PendingStates
<1>5. Timeless
  BY <1>2, <1>3 DEF Timeless, FrontierInit, SeedHosts
<1>6. Reported = {} /\ ResultsSound
  BY <1>2 DEF Reported, ResultsSound
<1> QED
  BY <1>1, <1>2, <1>4, <1>5, <1>6 DEF PagesIInv, ResultsComplete, NothingLeft, Retiring

\* run(): a job that returns has one result for every URL it ever admitted, with
\* the outcome its record has: no page is left pending, none is dropped for a
\* budget, none is reported twice.
THEOREM EveryPageIsReturned == Spec => []ReturnsEveryPage
<1>1. Init => PagesIInv
  BY PagesStart
<1>2. PagesIInv /\ [Next]_vars => PagesIInv'
  BY PagesStep
<1>3. PagesIInv => ReturnsEveryPage
  <2> SUFFICES ASSUME PagesIInv, pc = "returned"
               PROVE  /\ {results[i].url : i \in DOMAIN results} = DOMAIN entries
                      /\ Len(results) = Cardinality(DOMAIN entries)
                      /\ \A i \in DOMAIN results :
                           entries[results[i].url].reason = ReasonOf[results[i].outcome]
    BY DEF ReturnsEveryPage
  <2>1. Len(results) \in Nat /\ DOMAIN results = 1 .. Len(results)
    BY LenProperties DEF PagesIInv, JobIInv, JobTypes
  <2>2. InFlight = {} /\ Pending = {} /\ ~Retiring /\ Terminal = Reported
    BY DEF PagesIInv, JobIInv, Ordered, Matched, LiveUrls, Retiring, NothingLeft, ResultsComplete
  <2>3. DOMAIN entries = Reported
    BY <2>2 DEF PagesIInv, JobIInv, FrontierInv, TypeOK, Entry, InFlight, Pending, Terminal
  <2>4. Cardinality(Reported) = Len(results)
    <3> DEFINE n == Len(results)
               f == [i \in 1 .. n |-> results[i].url]
    <3>1. f \in Bijection(1 .. n, Reported)
      BY DEF PagesIInv, ResultsSound, Bijection, Injection, Surjection, IsInjective, Reported
    <3>2. n \in Nat
      BY <2>1
    <3> HIDE DEF n
    <3>3. IsFiniteSet(1 .. n) /\ Cardinality(1 .. n) = n
      <4>1. /\ IsFiniteSet(1 .. n)
            /\ Cardinality(1 .. n) = IF 1 > n THEN 0 ELSE n - 1 + 1
        BY <3>2, FS_Interval
      <4> QED
        BY <3>2, <4>1
    <3> HIDE DEF f
    <3>4. ExistsBijection(1 .. n, Reported)
      BY <3>1 DEF ExistsBijection
    <3>5. Cardinality(Reported) = Cardinality(1 .. n)
      BY <3>3, <3>4, FS_Bijection
    <3> QED
      BY <3>3, <3>5 DEF n
  <2> QED
    BY <2>1, <2>3, <2>4 DEF PagesIInv, ResultsSound, Reported
<1> QED
  BY <1>1, <1>2, <1>3, PTL DEF Spec
=============================================================================
