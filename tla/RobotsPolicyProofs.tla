------------------------- MODULE RobotsPolicyProofs -------------------------
(***************************************************************************)
(* Proofs about the policy service, for every number of checks, origins,   *)
(* files, permits and cache entries: a fetch is shared exactly by those    *)
(* that wait for it, permits and cache stay within their limits, and a     *)
(* page is allowed only by an answer of its own origin that is fresh.      *)
(*                                                                         *)
(* Then, about the operators of RobotsRules and for every file, pattern    *)
(* and path: the matcher matches what a pattern covers, and a file decides *)
(* as its lines say.                                                       *)
(***************************************************************************)
EXTENDS RobotsPolicyProperties, Facts

(* The inductive invariant *)

\* A check that waits for a fetch, or for the end of one, has one.
Placed == \A c \in Check : checks[c].at \in {"waiting", "releasing"} => checks[c].flight # 0

\* Only close cancels a fetch before its first step, and after close no fetch
\* is begun or goes on.
ClosedStates ==
  /\ closing = "no" => \A f \in DOMAIN flights : flights[f].state # "stillborn"
  /\ closing # "no" => \A f \in DOMAIN flights :
                         flights[f].state \notin {"created", "queued", "fetching"}

\* The checks that share a fetch can be counted, however many there are.
Countable == \A f \in registry : IsFiniteSet(Waiting(f))

Shared == FetchesShared /\ ClosedStates /\ Countable

IInv == TypeOK /\ ChecksKeyed /\ Placed /\ Shared /\ PermitsKept /\ CacheSound
-----------------------------------------------------------------------------
(* Facts about the state *)

Outcomes == {"none", "allowed", "denied", "refused", "cancelled", "aborted"}

\* A sequence of flights has as domain the naturals up to its length.
LEMMA FlightsTyped ==
  ASSUME TypeOK
  PROVE  /\ flights \in Seq(Flight) /\ Len(flights) \in Nat /\ DOMAIN flights = 1 .. Len(flights)
         /\ \A f \in DOMAIN flights : flights[f] \in Flight
         /\ checks \in [Check -> CheckState] /\ registry \subseteq DOMAIN flights
         /\ clock \in Nat
<1>1. flights \in Seq(Flight) /\ Len(flights) \in Nat /\ DOMAIN flights = 1 .. Len(flights)
  BY LenProperties DEF TypeOK
<1>2. \A f \in DOMAIN flights : flights[f] \in Flight
  BY <1>1, ElementOfSeq
<1> QED
  BY <1>1, <1>2, RobotsAssumption DEF TypeOK

\* Changing one flight leaves the others alone.
LEMMA FlightChanged ==
  ASSUME TypeOK, NEW f \in DOMAIN flights, NEW s \in Flight, flights' = [flights EXCEPT ![f] = s]
  PROVE  /\ flights' \in Seq(Flight) /\ DOMAIN flights' = DOMAIN flights
         /\ flights'[f] = s
         /\ \A g \in DOMAIN flights \ {f} : flights'[g] = flights[g]
<1>1. flights \in Seq(Flight) /\ DOMAIN flights = 1 .. Len(flights)
  BY FlightsTyped
<1>2. flights' \in Seq(Flight)
  BY <1>1, ExceptSeq
<1> QED
  BY <1>1, <1>2

\* The holders of permits are finitely many.
LEMMA HoldersFinite ==
  ASSUME TypeOK
  PROVE  IsFiniteSet(Holders) /\ Cardinality(Holders) \in Nat
<1>1. IsFiniteSet(1 .. Len(flights)) /\ Holders \subseteq 1 .. Len(flights)
  BY FlightsTyped, FS_Interval DEF Holders
<1> QED
  BY <1>1, FS_Subset, FS_CardinalityType

\* How a check ends: it leaves the flight it waited for, if it did.
LEMMA EndsCheck ==
  ASSUME TypeOK, NEW c \in Check, NEW o \in Outcomes, Ends(c, o)
  PROVE  /\ checks' \in [Check -> CheckState]
         /\ checks'[c].at = "done" /\ checks'[c].outcome = o /\ checks'[c].flight = checks[c].flight
         /\ \A d \in Check \ {c} : checks'[d] = checks[d]
         /\ \A g \in Nat : Waiting(g)' = Waiting(g) \ {c}
<1>1. checks \in [Check -> CheckState] /\ checks[c] \in CheckState
  BY DEF TypeOK
<1> DEFINE s == [checks[c] EXCEPT !.at = "done", !.outcome = o]
<1>2. s \in CheckState /\ s.at = "done" /\ s.outcome = o /\ s.flight = checks[c].flight
  BY <1>1 DEF CheckState, Outcomes
<1>3. checks' = [checks EXCEPT ![c] = s]
  BY <1>1 DEF Ends
<1> HIDE DEF s
<1>4. /\ checks' \in [Check -> CheckState] /\ checks'[c] = s
      /\ \A d \in Check \ {c} : checks'[d] = checks[d]
  BY <1>1, <1>2, <1>3
<1> QED
  BY <1>2, <1>4 DEF Waiting

\* A decision is an end.
LEMMA DecideEnds ==
  ASSUME NEW c \in Check, NEW p, Decide(c, p)
  PROVE  \E o \in Outcomes : /\ Ends(c, o)
                             /\ o = "allowed" => Permits(p, Asks[c].path)
BY DEF Decide, Outcomes

\* An end keeps every check at a flight of its origin.
LEMMA EndsKeyed ==
  ASSUME TypeOK, ChecksKeyed, Placed, NEW c \in Check, NEW o \in Outcomes, Ends(c, o),
         DOMAIN flights' = DOMAIN flights,
         \A g \in DOMAIN flights : flights'[g].origin = flights[g].origin
  PROVE  ChecksKeyed' /\ Placed'
<1>1. /\ checks'[c].at = "done" /\ checks'[c].flight = checks[c].flight
      /\ \A d \in Check \ {c} : checks'[d] = checks[d]
  BY EndsCheck
<1> QED
  BY <1>1 DEF ChecksKeyed, Placed

\* A step of the flights keeps the checks where they are.
LEMMA SameKeyed ==
  ASSUME ChecksKeyed, Placed, checks' = checks, DOMAIN flights' = DOMAIN flights,
         \A g \in DOMAIN flights : flights'[g].origin = flights[g].origin
  PROVE  ChecksKeyed' /\ Placed'
BY DEF ChecksKeyed, Placed

\* Sharing stays exact if no flight becomes active, and the registry loses at
\* most what is not.
LEMMA SharedKept ==
  ASSUME TypeOK, Shared, DOMAIN flights' = DOMAIN flights, closing' = closing,
         registry' \subseteq registry, Active' \subseteq Active, Active' \subseteq registry',
         closing = "no" => registry' = Active',
         \A g \in DOMAIN flights :
           /\ flights'[g].origin = flights[g].origin
           /\ flights'[g].state = "stillborn" => flights[g].state = "stillborn"
           /\ flights'[g].state \in {"created", "queued", "fetching"} =>
                flights[g].state \in {"created", "queued", "fetching"},
         \A g \in registry' : /\ IsFiniteSet(Waiting(g)')
                              /\ flights'[g].waiters = Cardinality(Waiting(g)'),
         \A g \in Active' : flights'[g].state = "cancelling" \/ Waiting(g)' # {}
  PROVE  Shared'
<1>1. Active \subseteq DOMAIN flights
  BY DEF Active
<1>2. /\ closing' = "done" => registry' = {}
      /\ \A f, g \in Active' : flights'[f].origin = flights'[g].origin => f = g
  BY <1>1 DEF Shared, FetchesShared
<1>3. FetchesShared'
  BY <1>2 DEF FetchesShared
<1>4. ClosedStates'
  BY DEF Shared, ClosedStates
<1>5. Countable'
  BY DEF Countable
<1> QED
  BY <1>3, <1>4, <1>5 DEF Shared

\* Permits stay counted if no flight takes one.
LEMMA PermitsStay ==
  ASSUME TypeOK, PermitsKept, DOMAIN flights' = DOMAIN flights,
         \A g \in DOMAIN flights :
           /\ flights'[g].holds => flights[g].holds
           /\ flights'[g].state = "fetching" => flights'[g].holds
           /\ flights'[g].holds => flights'[g].state \in {"fetching", "cancelling"}
  PROVE  PermitsKept'
<1>1. IsFiniteSet(Holders) /\ Cardinality(Holders) \in Nat
  BY HoldersFinite
<1>2. Holders' \subseteq Holders
  BY DEF Holders
<1>3. Cardinality(Holders') <= Cardinality(Holders) /\ Cardinality(Holders') \in Nat
  BY <1>1, <1>2, FS_Subset, FS_CardinalityType
<1>4. Cardinality(Holders') <= MaxConcurrency
  BY <1>1, <1>3, RobotsAssumption DEF PermitsKept
<1> QED
  BY <1>4 DEF PermitsKept, Holders

\* What is known stays known.
Remembered ==
  \A f \in DOMAIN flights : flights[f].state = "done" =>
    /\ f \in DOMAIN flights'
    /\ flights'[f].state = "done" /\ flights'[f].origin = flights[f].origin
    /\ flights'[f].policy = flights[f].policy /\ flights'[f].ended = flights[f].ended

\* A cache that is left alone stays sound.
LEMMA CacheStays ==
  ASSUME CacheSound, Remembered, cache' = cache, closing' = closing
  PROVE  CacheSound'
BY DEF CacheSound, Remembered
-----------------------------------------------------------------------------
(* The cache *)

\* One entry per origin.
OneEach(s) == \A i, j \in DOMAIN s : s[i].origin = s[j].origin => i = j
Among(s, t) == \A i \in DOMAIN s : \E j \in DOMAIN t : s[i] = t[j]

\* Taking out the entry of an origin leaves the others, in their order.
LEMMA WithoutEntries ==
  ASSUME TypeOK, CacheSound, NEW o
  PROVE  /\ Without(o) \in Seq(Entry) /\ Len(Without(o)) <= Len(cache)
         /\ EntriesOf(o) # {} => Len(Without(o)) = Len(cache) - 1
         /\ OneEach(Without(o)) /\ Among(Without(o), cache)
         /\ \A i \in DOMAIN Without(o) : Without(o)[i].origin # o
<1>1. cache \in Seq(Entry) /\ Len(cache) \in Nat /\ DOMAIN cache = 1 .. Len(cache)
  BY LenProperties DEF TypeOK
<1>2. OneEach(cache)
  BY DEF CacheSound, OneEach
<1>3. CASE EntriesOf(o) = {}
  <2>1. Without(o) = cache
    BY <1>3 DEF Without
  <2>2. Among(cache, cache) /\ \A i \in DOMAIN cache : cache[i].origin # o
    BY <1>3 DEF EntriesOf, Among
  <2> QED
    BY <1>1, <1>2, <1>3, <2>1, <2>2
<1>4. CASE EntriesOf(o) # {}
  <2> DEFINE i == CHOOSE k \in EntriesOf(o) : TRUE
             t == RemoveAt(cache, i)
  <2>1. i \in 1 .. Len(cache) /\ cache[i].origin = o
    BY <1>1, <1>4 DEF EntriesOf
  <2>2. Without(o) = t
    BY <1>4 DEF Without
  <2> HIDE DEF i
  <2>3. /\ t \in Seq(Entry) /\ Len(t) = Len(cache) - 1
        /\ \A j \in 1 .. Len(cache) - 1 : t[j] = IF j < i THEN cache[j] ELSE cache[j + 1]
    BY <1>1, <2>1, RemoveAtElements
  <2> HIDE DEF t
  <2>4. DOMAIN t = 1 .. Len(cache) - 1
    BY <2>3, LenProperties
  <2> DEFINE at(j) == IF j < i THEN j ELSE j + 1
  <2>8. \A j \in DOMAIN t : at(j) \in DOMAIN cache /\ at(j) # i /\ t[j] = cache[at(j)]
    BY <1>1, <2>1, <2>3, <2>4
  <2>9. \A j, k \in DOMAIN t : at(j) = at(k) => j = k
    BY <1>1, <2>1, <2>4
  <2> HIDE DEF at
  <2>5. Among(t, cache)
    BY <2>8 DEF Among
  <2>6. \A j \in DOMAIN t : t[j].origin # o
    BY <1>1, <1>2, <2>1, <2>8 DEF OneEach
  <2>7. OneEach(t)
    BY <1>2, <2>8, <2>9 DEF OneEach
  <2> QED
    BY <1>1, <2>2, <2>3, <2>5, <2>6, <2>7
<1> QED
  BY <1>3, <1>4

\* Putting an entry last, in place of the one of its origin.
LEMMA Replaced ==
  ASSUME TypeOK, CacheSound, NEW e \in Entry
  PROVE  LET t == Append(Without(e.origin), e)
         IN /\ t \in Seq(Entry) /\ Len(t) <= Len(cache) + 1
            /\ EntriesOf(e.origin) # {} => Len(t) <= Len(cache)
            /\ OneEach(t)
            /\ \A i \in DOMAIN t : t[i] = e \/ \E j \in DOMAIN cache : t[i] = cache[j]
<1> DEFINE w == Without(e.origin)
           t == Append(w, e)
<1>1. /\ w \in Seq(Entry) /\ Len(w) <= Len(cache)
      /\ EntriesOf(e.origin) # {} => Len(w) = Len(cache) - 1
      /\ OneEach(w) /\ Among(w, cache)
      /\ \A i \in DOMAIN w : w[i].origin # e.origin
  BY WithoutEntries
<1> HIDE DEF w
<1>3. Len(w) \in Nat /\ DOMAIN w = 1 .. Len(w) /\ Len(cache) \in Nat
  BY <1>1, LenProperties DEF TypeOK
<1>4. /\ t \in Seq(Entry) /\ Len(t) = Len(w) + 1
      /\ \A i \in 1 .. Len(w) : t[i] = w[i]
      /\ t[Len(w) + 1] = e
  BY <1>1, AppendProperties
<1> HIDE DEF t
<1>5. DOMAIN t = 1 .. Len(w) + 1
  BY <1>4, LenProperties
<1>6. OneEach(t)
  BY <1>1, <1>3, <1>4, <1>5 DEF OneEach
<1>7. \A i \in DOMAIN t : t[i] = e \/ \E j \in DOMAIN cache : t[i] = cache[j]
  BY <1>1, <1>3, <1>4, <1>5 DEF Among
<1> QED
  BY <1>1, <1>3, <1>4, <1>6, <1>7 DEF t, w

\* What eviction leaves.
LEMMA EvictedEntries ==
  ASSUME NEW s \in Seq(Entry), OneEach(s)
  PROVE  /\ Evicted(s) \in Seq(Entry) /\ Len(Evicted(s)) <= CacheEntries
         /\ OneEach(Evicted(s)) /\ Among(Evicted(s), s)
<1>1. CacheEntries \in Nat \ {0} /\ Len(s) \in Nat /\ DOMAIN s = 1 .. Len(s)
  BY RobotsAssumption, LenProperties
<1>2. CASE Len(s) > CacheEntries
  <2> DEFINE m == Len(s) - CacheEntries + 1
             t == SubSeq(s, m, Len(s))
  <2>1. m \in 1 .. Len(s) /\ m \in Int /\ Len(s) \in Int /\ Len(s) - m + 1 = CacheEntries
    BY <1>1, <1>2
  <2>2. Evicted(s) = t
    BY <1>2 DEF Evicted
  <2> HIDE DEF m
  <2>3. \A i \in m .. Len(s) : s[i] \in Entry
    BY <1>1, <2>1, ElementOfSeq
  <2>4. /\ t \in Seq(Entry) /\ Len(t) = CacheEntries
        /\ \A i \in 1 .. CacheEntries : t[i] = s[m + i - 1]
    BY <1>1, <2>1, <2>3, SubSeqProperties
  <2> HIDE DEF t
  <2>5. DOMAIN t = 1 .. CacheEntries
    BY <2>4, LenProperties
  <2> DEFINE at(i) == m + i - 1
  <2>6. \A i \in DOMAIN t : at(i) \in DOMAIN s /\ t[i] = s[at(i)]
    BY <1>1, <2>1, <2>4, <2>5
  <2>9. \A i, j \in DOMAIN t : at(i) = at(j) => i = j
    BY <1>1, <2>1, <2>5
  <2> HIDE DEF at
  <2>7. Among(t, s)
    BY <2>6 DEF Among
  <2>8. OneEach(t)
    BY <2>6, <2>9 DEF OneEach
  <2> QED
    BY <1>1, <2>2, <2>4, <2>7, <2>8
<1>3. CASE ~(Len(s) > CacheEntries)
  BY <1>1, <1>3 DEF Evicted, Among
<1> QED
  BY <1>2, <1>3
-----------------------------------------------------------------------------
(* Steps of a check *)

\* A check that ends without leaving a flight disturbs nobody.
LEMMA EndsAlone ==
  ASSUME IInv, NEW c \in Check, NEW o \in Outcomes, Ends(c, o),
         checks[c].at # "waiting" \/ checks[c].flight \notin registry,
         UNCHANGED <<clock, flights, registry, closing>>
  PROVE  /\ checks' \in [Check -> CheckState] /\ ChecksKeyed' /\ Placed' /\ Shared' /\ PermitsKept'
         /\ Remembered
<1>1. /\ checks' \in [Check -> CheckState]
      /\ \A g \in Nat : Waiting(g)' = Waiting(g) \ {c}
  BY EndsCheck DEF IInv
<1>2. registry \subseteq Nat
  BY FlightsTyped DEF IInv
<1>3. \A g \in registry : Waiting(g)' = Waiting(g)
  BY <1>1, <1>2 DEF Waiting
<1>4. ChecksKeyed' /\ Placed'
  BY EndsKeyed DEF IInv
<1>5. Active' = Active /\ Active \subseteq registry
  BY DEF Active, IInv, Shared, FetchesShared
<1>6. Shared'
  BY <1>3, <1>5 DEF IInv, Shared, FetchesShared, ClosedStates, Countable
<1>7. PermitsKept'
  BY DEF IInv, PermitsKept, Holders
<1>8. Remembered
  BY DEF Remembered
<1> QED
  BY <1>1, <1>4, <1>6, <1>7, <1>8

\* Refused, or done with waiting for a cancelled fetch to end.
LEMMA LeaveStep ==
  ASSUME IInv, NEW c \in Check, CheckClosed(c) \/ Released(c) \/ CancelReleasing(c)
  PROVE  IInv'
<1>1. PICK o \in {"refused", "cancelled"} : Ends(c, o)
  BY DEF CheckClosed, Released, CancelReleasing
<1>2. /\ checks[c].at # "waiting"
      /\ UNCHANGED <<clock, flights, registry, cache, closing>>
  BY DEF CheckClosed, Released, CancelReleasing
<1>3. o \in Outcomes
  BY DEF Outcomes
<1>4. /\ checks' \in [Check -> CheckState] /\ ChecksKeyed' /\ Placed' /\ Shared' /\ PermitsKept'
      /\ Remembered
  BY <1>1, <1>2, <1>3, EndsAlone
<1>5. CacheSound'
  BY <1>2, <1>4, CacheStays DEF IInv
<1>6. TypeOK'
  BY <1>2, <1>4 DEF IInv, TypeOK
<1> QED
  BY <1>4, <1>5, <1>6 DEF IInv

\* An answer from the cache is used again.
LEMMA CachedStep ==
  ASSUME IInv, NEW c \in Check, CheckCached(c)
  PROVE  IInv'
<1>1. PICK i \in EntriesOf(Asks[c].origin) :
        /\ Decide(c, cache[i].policy)
        /\ cache' = Append(Without(cache[i].origin), cache[i])
  BY DEF CheckCached
<1>2. /\ checks[c].at = "new" /\ closing = "no"
      /\ UNCHANGED <<clock, flights, registry, closing>>
  BY DEF CheckCached
<1>3. PICK o \in Outcomes : Ends(c, o)
  BY <1>1, DecideEnds
<1>4. /\ checks' \in [Check -> CheckState] /\ ChecksKeyed' /\ Placed' /\ Shared' /\ PermitsKept'
      /\ Remembered
  BY <1>2, <1>3, EndsAlone
<1>5. /\ i \in DOMAIN cache /\ cache[i] \in Entry /\ Len(cache) <= CacheEntries
      /\ EntriesOf(cache[i].origin) # {} /\ Len(cache) \in Nat
  BY LenProperties, ElementOfSeq DEF IInv, TypeOK, EntriesOf, CacheSound
<1>6. /\ cache' \in Seq(Entry) /\ Len(cache') <= Len(cache)
      /\ OneEach(cache')
      /\ \A k \in DOMAIN cache' : \E j \in DOMAIN cache : cache'[k] = cache[j]
  <2> DEFINE e == cache[i]
  <2>1. /\ cache' \in Seq(Entry) /\ Len(cache') <= Len(cache) /\ OneEach(cache')
        /\ \A k \in DOMAIN cache' : cache'[k] = e \/ \E j \in DOMAIN cache : cache'[k] = cache[j]
    <3> HIDE DEF e
    <3>1. e \in Entry /\ EntriesOf(e.origin) # {} /\ cache' = Append(Without(e.origin), e)
      BY <1>1, <1>5 DEF e
    <3> QED
      BY <3>1, Replaced DEF IInv
  <2> QED
    BY <1>5, <2>1
<1>7. CacheSound'
  <2>1. Len(cache') <= CacheEntries
    BY <1>5, <1>6, RobotsAssumption, LenProperties
  <2>2. \A k \in DOMAIN cache' : \E f \in DOMAIN flights' :
          /\ flights'[f].state = "done"
          /\ flights'[f].origin = cache'[k].origin
          /\ flights'[f].policy = cache'[k].policy
          /\ cache'[k].expires = flights'[f].ended + Ttl[cache'[k].policy.kind]
    BY <1>2, <1>6 DEF IInv, CacheSound
  <2> QED
    BY <1>2, <1>6, <2>1, <2>2 DEF CacheSound, OneEach
<1>8. TypeOK'
  BY <1>2, <1>4, <1>6 DEF IInv, TypeOK
<1> QED
  BY <1>4, <1>7, <1>8 DEF IInv
\* One of those that share a fetch leaves it, and if it was the last, may cancel it.
LEMMA LeavesFlight ==
  ASSUME IInv, NEW c \in Check, NEW f \in registry, checks[c].at = "waiting", checks[c].flight = f,
         NEW s \in Flight, flights' = [flights EXCEPT ![f] = s],
         s.origin = flights[f].origin, s.holds = flights[f].holds,
         s.policy = flights[f].policy, s.ended = flights[f].ended,
         s.waiters = flights[f].waiters - 1,
         \/ s.state = flights[f].state /\ (f \in Active => s.state = "cancelling" \/ s.waiters # 0)
         \/ f \in Active /\ s.state = "cancelling",
         \A g \in Nat : Waiting(g)' = Waiting(g) \ {c},
         UNCHANGED <<registry, closing>>
  PROVE  flights' \in Seq(Flight) /\ DOMAIN flights' = DOMAIN flights
         /\ Shared' /\ PermitsKept' /\ Remembered
         /\ \A g \in DOMAIN flights : flights'[g].origin = flights[g].origin
<1>1. /\ registry \subseteq DOMAIN flights /\ registry \subseteq Nat
      /\ f \in DOMAIN flights /\ f \in Nat /\ flights[f] \in Flight
  BY FlightsTyped DEF IInv
<1>2. /\ flights' \in Seq(Flight) /\ DOMAIN flights' = DOMAIN flights
      /\ flights'[f] = s /\ \A g \in DOMAIN flights \ {f} : flights'[g] = flights[g]
  BY <1>1, FlightChanged DEF IInv
<1>3. /\ Active' = Active /\ Active \subseteq registry
      /\ closing = "no" => registry = Active
  BY <1>1, <1>2 DEF Active, ActiveStates, IInv, Shared, FetchesShared
<1>4. \A g \in registry : /\ IsFiniteSet(Waiting(g))
                          /\ flights[g].waiters = Cardinality(Waiting(g))
  BY DEF IInv, Shared, FetchesShared, Countable
<1>5. \A g \in registry \ {f} : Waiting(g)' = Waiting(g)
  BY <1>1 DEF Waiting
<1>6. /\ IsFiniteSet(Waiting(f)') /\ Cardinality(Waiting(f)') = flights[f].waiters - 1
  <2>1. c \in Waiting(f) /\ Waiting(f)' = Waiting(f) \ {c}
    BY <1>1 DEF Waiting
  <2> QED
    BY <1>4, <2>1, FS_RemoveElement
<1>7. \A g \in registry : /\ IsFiniteSet(Waiting(g)')
                          /\ flights'[g].waiters = Cardinality(Waiting(g)')
  BY <1>1, <1>2, <1>4, <1>5, <1>6
<1>8. \A g \in Active' : flights'[g].state = "cancelling" \/ Waiting(g)' # {}
  <2> TAKE g \in Active'
  <2>1. CASE g # f
    BY <1>2, <1>3, <1>5, <2>1 DEF IInv, Shared, FetchesShared, Active
  <2>2. CASE g = f /\ s.state # "cancelling"
    <3>1. Cardinality(Waiting(f)') # 0
      BY <1>3, <1>6, <2>2
    <3> QED
      BY <2>2, <3>1, FS_EmptySet
  <2>3. CASE g = f /\ s.state = "cancelling"
    BY <1>2, <2>3
  <2> QED
    BY <2>1, <2>2, <2>3
<1>9. \A g \in DOMAIN flights :
        /\ flights'[g].origin = flights[g].origin
        /\ flights'[g].state = "stillborn" => flights[g].state = "stillborn"
        /\ flights'[g].state \in {"created", "queued", "fetching"} =>
             flights[g].state \in {"created", "queued", "fetching"}
  BY <1>1, <1>2
<1>10. Shared'
  BY <1>2, <1>3, <1>7, <1>8, <1>9, SharedKept DEF IInv
<1>11. \A g \in DOMAIN flights :
         /\ flights'[g].holds => flights[g].holds
         /\ flights'[g].state = "fetching" => flights'[g].holds
         /\ flights'[g].holds => flights'[g].state \in {"fetching", "cancelling"}
  BY <1>1, <1>2 DEF IInv, PermitsKept, Holders
<1>12. PermitsKept'
  BY <1>2, <1>11, PermitsStay DEF IInv
<1>13. Remembered
  BY <1>1, <1>2 DEF Remembered, Active, ActiveStates
<1> QED
  BY <1>2, <1>9, <1>10, <1>12, <1>13

\* Leaving a flight that is still in the registry keeps the type of its count.
LEMMA CountedWaiters ==
  ASSUME IInv, NEW c \in Check, NEW f \in registry, checks[c].at = "waiting", checks[c].flight = f
  PROVE  flights[f].waiters \in Nat \ {0}
<1>1. c \in Waiting(f) /\ IsFiniteSet(Waiting(f)) /\ flights[f].waiters = Cardinality(Waiting(f))
  BY DEF Waiting, IInv, Shared, FetchesShared, Countable
<1> QED
  BY <1>1, FS_EmptySet, FS_CardinalityType

\* A check gets what its fetch yielded.
LEMMA DeliverStep ==
  ASSUME IInv, NEW c \in Check, Deliver(c)
  PROVE  IInv'
<1> DEFINE f == checks[c].flight
<1>1. /\ checks[c].at = "waiting" /\ f \notin Active
      /\ flights' = IF f \in registry THEN [flights EXCEPT ![f].waiters = @ - 1] ELSE flights
      /\ UNCHANGED <<clock, registry, cache, closing>>
  BY DEF Deliver
<1>2. PICK o \in Outcomes : Ends(c, o)
  BY DecideEnds DEF Deliver, Outcomes
<1>3. /\ checks' \in [Check -> CheckState]
      /\ \A g \in Nat : Waiting(g)' = Waiting(g) \ {c}
  BY <1>2, EndsCheck DEF IInv
<1>4. CASE f \notin registry
  <2>1. /\ ChecksKeyed' /\ Placed' /\ Shared' /\ PermitsKept' /\ Remembered
    BY <1>1, <1>2, <1>4, EndsAlone
  <2>2. CacheSound'
    BY <1>1, <2>1, CacheStays DEF IInv
  <2>3. TypeOK'
    BY <1>1, <1>3, <1>4 DEF IInv, TypeOK
  <2> QED
    BY <2>1, <2>2, <2>3 DEF IInv
<1>5. CASE f \in registry
  <2> DEFINE s == [flights[f] EXCEPT !.waiters = @ - 1]
  <2>1. f \in DOMAIN flights /\ flights[f] \in Flight /\ flights[f].waiters \in Nat \ {0}
    BY <1>1, <1>5, FlightsTyped, CountedWaiters DEF IInv
  <2>2. flights[f].waiters - 1 \in Nat
    BY <2>1
  <2>3. /\ s \in Flight /\ s.origin = flights[f].origin /\ s.holds = flights[f].holds
        /\ s.policy = flights[f].policy /\ s.ended = flights[f].ended
        /\ s.waiters = flights[f].waiters - 1 /\ s.state = flights[f].state
    BY <2>1, <2>2 DEF Flight
  <2>4. flights' = [flights EXCEPT ![f] = s]
    BY <1>1, <1>5, <2>1
  <2> HIDE DEF s
  <2>5. /\ flights' \in Seq(Flight) /\ DOMAIN flights' = DOMAIN flights
        /\ Shared' /\ PermitsKept' /\ Remembered
        /\ \A g \in DOMAIN flights : flights'[g].origin = flights[g].origin
    BY <1>1, <1>3, <1>5, <2>3, <2>4, LeavesFlight
  <2>6. ChecksKeyed' /\ Placed'
    BY <1>2, <2>5, EndsKeyed DEF IInv
  <2>7. CacheSound'
    BY <1>1, <2>5, CacheStays DEF IInv
  <2>8. TypeOK'
    BY <1>1, <1>3, <2>5 DEF IInv, TypeOK
  <2> QED
    BY <2>5, <2>6, <2>7, <2>8 DEF IInv
<1> QED
  BY <1>4, <1>5

\* A check is cancelled while it waits.
LEMMA CancelWaitingStep ==
  ASSUME IInv, NEW c \in Check, CancelWaiting(c)
  PROVE  IInv'
<1> DEFINE f == checks[c].flight
<1>1. /\ checks[c].at = "waiting" /\ flights[f].state \notin {"created", "stillborn"}
      /\ UNCHANGED <<clock, registry, cache, closing>>
  BY DEF CancelWaiting
<1>2. CASE f \notin registry
  <2>1. Ends(c, "cancelled") /\ flights' = flights /\ "cancelled" \in Outcomes
    BY <1>2 DEF CancelWaiting, Outcomes
  <2>2. /\ checks' \in [Check -> CheckState]
        /\ ChecksKeyed' /\ Placed' /\ Shared' /\ PermitsKept' /\ Remembered
    BY <1>1, <1>2, <2>1, EndsAlone
  <2>3. CacheSound'
    BY <1>1, <2>2, CacheStays DEF IInv
  <2>4. TypeOK'
    BY <1>1, <2>1, <2>2 DEF IInv, TypeOK
  <2> QED
    BY <2>2, <2>3, <2>4 DEF IInv
<1>3. CASE f \in registry
  <2>1. /\ f \in DOMAIN flights /\ flights[f] \in Flight /\ flights[f].waiters \in Nat \ {0}
        /\ checks \in [Check -> CheckState] /\ checks[c] \in CheckState
    BY <1>1, <1>3, FlightsTyped, CountedWaiters DEF IInv, TypeOK
  <2>2. CASE ~LastWaiterLeaves(f)
    <3> DEFINE s == [flights[f] EXCEPT !.waiters = @ - 1]
    <3>1. flights[f].waiters - 1 \in Nat
      BY <2>1
    <3>2. /\ s \in Flight /\ s.origin = flights[f].origin /\ s.holds = flights[f].holds
          /\ s.policy = flights[f].policy /\ s.ended = flights[f].ended
          /\ s.waiters = flights[f].waiters - 1 /\ s.state = flights[f].state
      BY <2>1, <3>1 DEF Flight
    <3>3. flights' = [flights EXCEPT ![f] = s] /\ Ends(c, "cancelled") /\ "cancelled" \in Outcomes
      BY <1>3, <2>1, <2>2 DEF CancelWaiting, Outcomes
    <3>4. f \in Active => s.waiters # 0
      BY <2>1, <2>2, <3>2 DEF LastWaiterLeaves
    <3> HIDE DEF s
    <3>5. /\ checks' \in [Check -> CheckState]
          /\ \A g \in Nat : Waiting(g)' = Waiting(g) \ {c}
      BY <3>3, EndsCheck DEF IInv
    <3>6. /\ flights' \in Seq(Flight) /\ DOMAIN flights' = DOMAIN flights
          /\ Shared' /\ PermitsKept' /\ Remembered
          /\ \A g \in DOMAIN flights : flights'[g].origin = flights[g].origin
      BY <1>1, <1>3, <3>2, <3>3, <3>4, <3>5, LeavesFlight
    <3>7. ChecksKeyed' /\ Placed'
      BY <3>3, <3>6, EndsKeyed DEF IInv
    <3>8. CacheSound'
      BY <1>1, <3>6, CacheStays DEF IInv
    <3>9. TypeOK'
      BY <1>1, <3>5, <3>6 DEF IInv, TypeOK
    <3> QED
      BY <3>6, <3>7, <3>8, <3>9 DEF IInv
  <2>3. CASE LastWaiterLeaves(f)
    <3> DEFINE s == [flights[f] EXCEPT !.waiters = 0, !.state = "cancelling"]
               k == [checks[c] EXCEPT !.at = "releasing"]
    <3>1. flights[f].waiters = 1 /\ f \in Active
      BY <2>1, <2>3 DEF LastWaiterLeaves
    <3>2. /\ s \in Flight /\ s.origin = flights[f].origin /\ s.holds = flights[f].holds
          /\ s.policy = flights[f].policy /\ s.ended = flights[f].ended
          /\ s.waiters = 0 /\ s.state = "cancelling"
      BY <2>1 DEF Flight, ActiveStates
    <3>3. /\ flights' = [flights EXCEPT ![f] = s]
          /\ checks' = [checks EXCEPT ![c] = k]
      BY <1>3, <2>1, <2>3 DEF CancelWaiting
    <3>4. k \in CheckState /\ k.at = "releasing" /\ k.flight = f
      BY <2>1 DEF CheckState
    <3> HIDE DEF s, k
    <3>5. /\ checks' \in [Check -> CheckState] /\ checks'[c] = k
          /\ \A d \in Check \ {c} : checks'[d] = checks[d]
      BY <2>1, <3>3, <3>4
    <3>6. \A g \in Nat : Waiting(g)' = Waiting(g) \ {c}
      BY <3>4, <3>5 DEF Waiting
    <3>7. s.waiters = flights[f].waiters - 1
      BY <3>1, <3>2
    <3>8. /\ flights' \in Seq(Flight) /\ DOMAIN flights' = DOMAIN flights
          /\ Shared' /\ PermitsKept' /\ Remembered
          /\ \A g \in DOMAIN flights : flights'[g].origin = flights[g].origin
      BY <1>1, <1>3, <3>1, <3>2, <3>3, <3>6, <3>7, LeavesFlight
    <3>9. ChecksKeyed' /\ Placed'
      BY <1>1, <3>4, <3>5, <3>8 DEF IInv, ChecksKeyed, Placed
    <3>10. CacheSound'
      BY <1>1, <3>8, CacheStays DEF IInv
    <3>11. TypeOK'
      BY <1>1, <3>5, <3>8 DEF IInv, TypeOK
    <3> QED
      BY <3>8, <3>9, <3>10, <3>11 DEF IInv
  <2> QED
    BY <2>2, <2>3
<1> QED
  BY <1>2, <1>3
\* A check joins the fetch of its origin, or starts one.
LEMMA LiveStep ==
  ASSUME IInv, NEW c \in Check, CheckLive(c)
  PROVE  IInv'
<1> DEFINE o == Asks[c].origin
<1>1. /\ checks[c].at = "new" /\ closing = "no" /\ closing' = "no" /\ clock' = clock
      /\ cache' = Without(o)
  BY DEF CheckLive
<1>2. /\ flights \in Seq(Flight) /\ Len(flights) \in Nat /\ DOMAIN flights = 1 .. Len(flights)
      /\ \A f \in DOMAIN flights : flights[f] \in Flight
      /\ checks \in [Check -> CheckState] /\ registry \subseteq DOMAIN flights
      /\ checks[c] \in CheckState /\ o \in Origin
  BY FlightsTyped, RobotsAssumption DEF IInv, TypeOK, Ask
<1>3. registry = Active
  BY <1>1 DEF IInv, Shared, FetchesShared
<1>4. PICK f \in Nat \ {0} :
        /\ checks' = [checks EXCEPT ![c].at = "waiting", ![c].flight = f]
        /\ \/ /\ f \in registry /\ flights[f].origin = o
              /\ flights' = [flights EXCEPT ![f].waiters = @ + 1]
              /\ registry' = registry
           \/ /\ f = Len(flights) + 1
              /\ \A g \in registry : flights[g].origin # o
              /\ flights' = Append(flights, [origin |-> o, state |-> "created", waiters |-> 1,
                                             holds |-> FALSE, policy |-> NoPolicy, ended |-> 0])
              /\ registry' = registry \cup {f}
  <2>1. CASE \E f \in registry :
               /\ flights[f].origin = o
               /\ flights' = [flights EXCEPT ![f].waiters = @ + 1]
               /\ checks' = [checks EXCEPT ![c].at = "waiting", ![c].flight = f]
               /\ registry' = registry
    <3>1. PICK f \in registry :
               /\ flights[f].origin = o
               /\ flights' = [flights EXCEPT ![f].waiters = @ + 1]
               /\ checks' = [checks EXCEPT ![c].at = "waiting", ![c].flight = f]
               /\ registry' = registry
      BY <2>1
    <3>2. f \in Nat \ {0}
      BY <1>2
    <3> QED
      BY <3>1, <3>2
  <2>2. CASE /\ \A f \in registry : flights[f].origin # o
             /\ flights' = Append(flights, [origin |-> o, state |-> "created", waiters |-> 1,
                                            holds |-> FALSE, policy |-> NoPolicy, ended |-> 0])
             /\ registry' = registry \cup {Len(flights) + 1}
             /\ checks' = [checks EXCEPT ![c].at = "waiting", ![c].flight = Len(flights) + 1]
    <3>1. Len(flights) + 1 \in Nat \ {0}
      BY <1>2
    <3> QED
      BY <2>2, <3>1
  <2>3. \/ \E f \in registry :
             /\ flights[f].origin = o
             /\ flights' = [flights EXCEPT ![f].waiters = @ + 1]
             /\ checks' = [checks EXCEPT ![c].at = "waiting", ![c].flight = f]
             /\ registry' = registry
        \/ /\ \A f \in registry : flights[f].origin # o
           /\ flights' = Append(flights, [origin |-> o, state |-> "created", waiters |-> 1,
                                          holds |-> FALSE, policy |-> NoPolicy, ended |-> 0])
           /\ registry' = registry \cup {Len(flights) + 1}
           /\ checks' = [checks EXCEPT ![c].at = "waiting", ![c].flight = Len(flights) + 1]
    BY Zenon DEF CheckLive
  <2> HIDE DEF o
  <2> QED
    BY <2>1, <2>2, <2>3
<1>5. /\ checks' \in [Check -> CheckState]
      /\ checks'[c].at = "waiting" /\ checks'[c].flight = f
      /\ \A d \in Check \ {c} : checks'[d] = checks[d]
  <2> DEFINE k == [checks[c] EXCEPT !.at = "waiting", !.flight = f]
  <2>1. k \in CheckState /\ k.at = "waiting" /\ k.flight = f
    BY <1>2 DEF CheckState
  <2>2. checks' = [checks EXCEPT ![c] = k]
    BY <1>2, <1>4
  <2> HIDE DEF k
  <2> QED
    BY <1>2, <2>1, <2>2
<1>6. /\ c \notin Waiting(f) /\ Waiting(f)' = Waiting(f) \cup {c}
      /\ \A g \in Nat \ {f} : Waiting(g)' = Waiting(g)
  BY <1>1, <1>5 DEF Waiting
<1>7. \A g \in registry : /\ IsFiniteSet(Waiting(g))
                          /\ flights[g].waiters = Cardinality(Waiting(g))
  BY DEF IInv, Shared, FetchesShared, Countable
<1>8. CacheSound' /\ cache' \in Seq(Entry)
  <2>1. /\ cache' \in Seq(Entry) /\ Len(cache') <= Len(cache)
        /\ OneEach(cache') /\ Among(cache', cache)
    BY <1>1, WithoutEntries DEF IInv
  <2>2. Remembered
    <3>1. CASE f \in registry /\ flights' = [flights EXCEPT ![f].waiters = @ + 1]
      <4>1. flights[f].state # "done"
        BY <1>3, <3>1 DEF Active, ActiveStates
      <4> QED
        BY <1>2, <3>1, <4>1 DEF Remembered
    <3>2. CASE \E r : flights' = Append(flights, r)
      BY <1>2, <3>2, AppendProperties DEF Remembered
    <3> QED
      BY <1>4, <3>1, <3>2
  <2>3. Len(cache') <= CacheEntries
    BY <2>1, RobotsAssumption, LenProperties DEF IInv, CacheSound, TypeOK
  <2>4. \A k \in DOMAIN cache' : \E g \in DOMAIN flights' :
          /\ flights'[g].state = "done"
          /\ flights'[g].origin = cache'[k].origin
          /\ flights'[g].policy = cache'[k].policy
          /\ cache'[k].expires = flights'[g].ended + Ttl[cache'[k].policy.kind]
    <3> TAKE k \in DOMAIN cache'
    <3>1. PICK j \in DOMAIN cache : cache'[k] = cache[j]
      BY <2>1 DEF Among
    <3>2. PICK g \in DOMAIN flights :
            /\ flights[g].state = "done"
            /\ flights[g].origin = cache[j].origin
            /\ flights[g].policy = cache[j].policy
            /\ cache[j].expires = flights[g].ended + Ttl[cache[j].policy.kind]
      BY DEF IInv, CacheSound
    <3> QED
      BY <2>2, <3>1, <3>2 DEF Remembered
  <2> QED
    BY <1>1, <2>1, <2>3, <2>4 DEF CacheSound, OneEach
<1>9. CASE f \in registry /\ flights[f].origin = o
           /\ flights' = [flights EXCEPT ![f].waiters = @ + 1] /\ registry' = registry
  <2> DEFINE s == [flights[f] EXCEPT !.waiters = @ + 1]
  <2>1. f \in DOMAIN flights /\ flights[f].waiters + 1 \in Nat /\ flights[f] \in Flight
    BY <1>2, <1>9 DEF Flight
  <2>2. /\ s \in Flight /\ s.origin = flights[f].origin /\ s.holds = flights[f].holds
        /\ s.waiters = flights[f].waiters + 1 /\ s.state = flights[f].state
    BY <2>1 DEF Flight
  <2>3. flights' = [flights EXCEPT ![f] = s]
    BY <1>9, <2>1
  <2> HIDE DEF s
  <2>4. /\ flights' \in Seq(Flight) /\ DOMAIN flights' = DOMAIN flights
        /\ flights'[f] = s /\ \A g \in DOMAIN flights \ {f} : flights'[g] = flights[g]
    BY <2>1, <2>2, <2>3, FlightChanged DEF IInv
  <2>5. \A g \in DOMAIN flights :
          /\ flights'[g].origin = flights[g].origin /\ flights'[g].state = flights[g].state
          /\ flights'[g].holds = flights[g].holds
    BY <2>2, <2>4
  <2>6. Active' = Active
    BY <2>4, <2>5 DEF Active
  <2>7. IsFiniteSet(Waiting(f)') /\ Cardinality(Waiting(f)') = flights[f].waiters + 1
    BY <1>6, <1>7, <1>9, FS_AddElement
  <2>8. \A g \in registry' : /\ IsFiniteSet(Waiting(g)')
                             /\ flights'[g].waiters = Cardinality(Waiting(g)')
    <3> TAKE g \in registry'
    <3>1. CASE g = f
      BY <2>2, <2>4, <2>7, <3>1
    <3>2. CASE g # f
      BY <1>2, <1>6, <1>7, <1>9, <2>4, <3>2
    <3> QED
      BY <3>1, <3>2
  <2>9. \A g \in Active' : flights'[g].state = "cancelling" \/ Waiting(g)' # {}
    <3> TAKE g \in Active'
    <3>1. Waiting(g) \subseteq Waiting(g)'
      BY <1>2, <1>3, <1>6, <2>6
    <3>2. flights[g].state = "cancelling" \/ Waiting(g) # {}
      BY <2>6 DEF IInv, Shared, FetchesShared
    <3>3. flights'[g].state = flights[g].state
      BY <1>2, <1>3, <2>5, <2>6
    <3> QED
      BY <3>1, <3>2, <3>3
  <2>10. Shared'
    BY <1>1, <1>3, <1>9, <2>4, <2>5, <2>6, <2>8, <2>9, SharedKept DEF IInv
  <2>11. PermitsKept'
    BY <2>4, <2>5, PermitsStay DEF IInv, PermitsKept, Holders
  <2>12. ChecksKeyed' /\ Placed'
    <3>1. flights'[f].origin = o /\ f \in DOMAIN flights'
      BY <1>9, <2>1, <2>4, <2>5
    <3>2. ChecksKeyed /\ Placed
      BY DEF IInv
    <3>3. Placed'
      BY <1>4, <1>5, <3>2 DEF Placed
    <3>4. ChecksKeyed'
      BY <1>5, <2>4, <2>5, <3>1, <3>2 DEF ChecksKeyed
    <3> QED
      BY <3>3, <3>4
  <2>13. TypeOK'
    BY <1>1, <1>5, <1>8, <1>9, <2>4 DEF IInv, TypeOK
  <2> QED
    BY <1>8, <2>10, <2>11, <2>12, <2>13 DEF IInv
<1>10. CASE /\ f = Len(flights) + 1
            /\ \A g \in registry : flights[g].origin # o
            /\ flights' = Append(flights, [origin |-> o, state |-> "created", waiters |-> 1,
                                           holds |-> FALSE, policy |-> NoPolicy, ended |-> 0])
            /\ registry' = registry \cup {f}
  <2> DEFINE s == [origin |-> o, state |-> "created", waiters |-> 1,
                   holds |-> FALSE, policy |-> NoPolicy, ended |-> 0]
  <2>1. NoPolicy \in Policy
    BY DEF NoPolicy, Policy, Kinds
  <2>2. /\ s \in Flight /\ s.origin = o /\ s.state = "created" /\ s.waiters = 1 /\ ~s.holds
    BY <1>2, <2>1 DEF Flight, ActiveStates
  <2>3. flights' = Append(flights, s)
    BY <1>10
  <2> HIDE DEF s
  <2>4. /\ flights' \in Seq(Flight) /\ Len(flights') = Len(flights) + 1
        /\ \A g \in DOMAIN flights : flights'[g] = flights[g]
        /\ flights'[f] = s
    BY <1>2, <1>10, <2>2, <2>3, AppendProperties
  <2>5. DOMAIN flights' = DOMAIN flights \cup {f} /\ f \notin DOMAIN flights
    BY <1>2, <1>10, <2>4, LenProperties
  <2>6. Active' = Active \cup {f} /\ f \notin registry
    BY <1>2, <2>2, <2>4, <2>5 DEF Active, ActiveStates
  <2>7. Waiting(f) = {}
    BY <2>5 DEF Waiting, IInv, ChecksKeyed, Placed
  <2>8. IsFiniteSet(Waiting(f)') /\ Cardinality(Waiting(f)') = 1
    <3>1. Waiting(f)' = {c}
      BY <1>6, <2>7
    <3> QED
      BY <3>1, FS_Singleton
  <2>9. \A g \in registry' : /\ IsFiniteSet(Waiting(g)')
                             /\ flights'[g].waiters = Cardinality(Waiting(g)')
    <3> TAKE g \in registry'
    <3>1. CASE g = f
      BY <2>2, <2>4, <2>8, <3>1
    <3>2. CASE g # f
      <4>1. g \in registry /\ g \in DOMAIN flights /\ g \in Nat
        BY <1>2, <1>10, <3>2
      <4> QED
        BY <1>6, <1>7, <2>4, <3>2, <4>1
    <3> QED
      BY <3>1, <3>2
  <2>10. \A g \in Active' : flights'[g].state = "cancelling" \/ Waiting(g)' # {}
    <3> TAKE g \in Active'
    <3>1. CASE g = f
      BY <1>6, <3>1
    <3>2. CASE g # f
      <4>1. g \in Active /\ g \in DOMAIN flights /\ g \in Nat
        BY <1>2, <2>6, <3>2 DEF Active
      <4>2. flights[g].state = "cancelling" \/ Waiting(g) # {}
        BY <4>1 DEF IInv, Shared, FetchesShared
      <4> QED
        BY <1>6, <2>4, <3>2, <4>1, <4>2
    <3> QED
      BY <3>1, <3>2
  <2>11. \A g, h \in Active' : flights'[g].origin = flights'[h].origin => g = h
    <3>1. \A g \in Active : g \in DOMAIN flights /\ flights'[g] = flights[g] /\ flights[g].origin # o
      BY <1>2, <1>3, <1>10, <2>4
    <3>2. \A g, h \in Active : flights[g].origin = flights[h].origin => g = h
      BY DEF IInv, Shared, FetchesShared
    <3> QED
      BY <2>2, <2>4, <2>6, <3>1, <3>2
  <2>12. FetchesShared'
    BY <1>1, <1>3, <1>10, <2>6, <2>9, <2>10, <2>11 DEF FetchesShared
  <2>13. ClosedStates'
    BY <1>1, <2>2, <2>4, <2>5 DEF IInv, Shared, ClosedStates
  <2>14. Countable'
    BY <2>9 DEF Countable
  <2>15. PermitsKept'
    <3>1. Holders' = Holders
      BY <2>2, <2>4, <2>5 DEF Holders
    <3>2. \A g \in DOMAIN flights' :
            /\ flights'[g].state = "fetching" => g \in Holders
            /\ g \in Holders => flights'[g].state \in {"fetching", "cancelling"}
      BY <2>2, <2>4, <2>5 DEF IInv, PermitsKept, Holders
    <3> QED
      BY <3>1, <3>2 DEF IInv, PermitsKept
  <2>16. ChecksKeyed' /\ Placed'
    BY <1>5, <2>2, <2>4, <2>5 DEF IInv, ChecksKeyed, Placed
  <2>17. TypeOK'
    BY <1>1, <1>2, <1>5, <1>8, <1>10, <2>4, <2>5 DEF IInv, TypeOK
  <2> QED
    BY <1>8, <2>12, <2>13, <2>14, <2>15, <2>16, <2>17 DEF IInv, Shared
<1> QED
  BY <1>4, <1>9, <1>10
-----------------------------------------------------------------------------
(* Steps of a flight, of close and of the clock *)

\* A flight goes on, or ends and leaves the registry, if that is still in use.
LEMMA FlightMoves ==
  ASSUME IInv, NEW f \in Active, NEW s \in Flight, flights' = [flights EXCEPT ![f] = s],
         s.origin = flights[f].origin, s.waiters = flights[f].waiters,
         s.state # "stillborn",
         s.state \in {"created", "queued", "fetching"} =>
           flights[f].state \in {"created", "queued", "fetching"},
         \/ /\ s.state \in ActiveStates /\ registry' = registry
            /\ flights[f].state = "cancelling" => s.state = "cancelling"
         \/ s.state \notin ActiveStates /\ registry' = registry \ {f}
         \/ s.state \notin ActiveStates /\ registry' = registry /\ closing # "no",
         UNCHANGED <<checks, closing>>
  PROVE  /\ flights' \in Seq(Flight) /\ DOMAIN flights' = DOMAIN flights
         /\ flights'[f] = s /\ \A g \in DOMAIN flights \ {f} : flights'[g] = flights[g]
         /\ f \in DOMAIN flights
         /\ ChecksKeyed' /\ Placed' /\ Shared' /\ Remembered
         /\ registry' \subseteq DOMAIN flights'
<1>1. /\ registry \subseteq DOMAIN flights /\ f \in DOMAIN flights /\ flights[f] \in Flight
      /\ Active \subseteq registry /\ (closing = "no" => registry = Active)
  BY FlightsTyped DEF IInv, Active, Shared, FetchesShared
<1>2. /\ flights' \in Seq(Flight) /\ DOMAIN flights' = DOMAIN flights
      /\ flights'[f] = s /\ \A g \in DOMAIN flights \ {f} : flights'[g] = flights[g]
  BY <1>1, FlightChanged DEF IInv
<1>3. Active' = IF s.state \in ActiveStates THEN Active ELSE Active \ {f}
  BY <1>1, <1>2 DEF Active
<1>4. /\ registry' \subseteq registry /\ Active' \subseteq Active /\ Active' \subseteq registry'
      /\ closing = "no" => registry' = Active'
  BY <1>1, <1>3
<1>5. \A g \in DOMAIN flights :
        /\ flights'[g].origin = flights[g].origin
        /\ flights'[g].waiters = flights[g].waiters
        /\ flights'[g].state = "stillborn" => flights[g].state = "stillborn"
        /\ flights'[g].state \in {"created", "queued", "fetching"} =>
             flights[g].state \in {"created", "queued", "fetching"}
  BY <1>1, <1>2
<1>6. \A g \in Nat : Waiting(g)' = Waiting(g)
  BY DEF Waiting
<1>7. \A g \in registry' : /\ IsFiniteSet(Waiting(g)')
                           /\ flights'[g].waiters = Cardinality(Waiting(g)')
  <2>1. \A g \in registry' : g \in registry /\ g \in DOMAIN flights /\ Waiting(g)' = Waiting(g)
    BY <1>1, <1>4 DEF Waiting
  <2> QED
    BY <1>5, <2>1 DEF IInv, Shared, FetchesShared, Countable
<1>8. \A g \in Active' : flights'[g].state = "cancelling" \/ Waiting(g)' # {}
  <2> TAKE g \in Active'
  <2>1. g \in Active /\ g \in DOMAIN flights /\ Waiting(g)' = Waiting(g)
    BY <1>1, <1>4 DEF Waiting
  <2>2. flights[g].state = "cancelling" \/ Waiting(g) # {}
    BY <2>1 DEF IInv, Shared, FetchesShared
  <2>3. flights[g].state = "cancelling" => flights'[g].state = "cancelling"
    BY <1>2, <1>3, <2>1
  <2> QED
    BY <2>1, <2>2, <2>3
<1>9. Shared'
  BY <1>2, <1>4, <1>5, <1>7, <1>8, SharedKept DEF IInv
<1>10. ChecksKeyed' /\ Placed'
  BY <1>2, <1>5, SameKeyed DEF IInv
<1>11. Remembered
  BY <1>2 DEF Remembered, Active, ActiveStates
<1> QED
  BY <1>1, <1>2, <1>4, <1>9, <1>10, <1>11

\* A flight's first step, its turn at the semaphore, and the end of a flight
\* that was cancelled.
LEMMA FlightGoesStep ==
  ASSUME IInv, NEW f \in DOMAIN flights, Begin(f) \/ Acquire(f) \/ CancelEnds(f) \/ EndStillborn(f)
  PROVE  IInv'
<1>1. flights[f] \in Flight /\ f \in Active /\ UNCHANGED <<clock, checks, cache, closing>>
  BY FlightsTyped DEF IInv, Active, ActiveStates, Begin, Acquire, CancelEnds, EndStillborn
<1>2. PICK s \in Flight :
        /\ flights' = [flights EXCEPT ![f] = s]
        /\ s.origin = flights[f].origin /\ s.waiters = flights[f].waiters
        /\ \/ /\ flights[f].state = "created" /\ s.state = "queued"
              /\ s.holds = flights[f].holds /\ registry' = registry
           \/ /\ flights[f].state = "queued" /\ s.state = "fetching" /\ s.holds
              /\ Cardinality(Holders) < MaxConcurrency /\ registry' = registry
           \/ /\ flights[f].state = "cancelling" /\ s.state = "cancelled" /\ ~s.holds
              /\ registry' = registry \ {f}
           \/ /\ flights[f].state = "stillborn" /\ s.state = "cancelled" /\ ~s.holds
              /\ registry' = registry
  <2>1. CASE Begin(f)
    <3> DEFINE s == [flights[f] EXCEPT !.state = "queued"]
    <3>1. /\ s \in Flight /\ s.origin = flights[f].origin /\ s.waiters = flights[f].waiters
          /\ s.state = "queued" /\ s.holds = flights[f].holds
      BY <1>1 DEF Flight, ActiveStates
    <3>2. flights' = [flights EXCEPT ![f] = s]
      BY <2>1 DEF Begin
    <3> HIDE DEF s
    <3> QED
      BY <2>1, <3>1, <3>2 DEF Begin
  <2>2. CASE Acquire(f)
    <3> DEFINE s == [flights[f] EXCEPT !.state = "fetching", !.holds = TRUE]
    <3>1. /\ s \in Flight /\ s.origin = flights[f].origin /\ s.waiters = flights[f].waiters
          /\ s.state = "fetching" /\ s.holds = TRUE
      BY <1>1 DEF Flight, ActiveStates
    <3>2. flights' = [flights EXCEPT ![f] = s]
      BY <1>1, <2>2 DEF Acquire
    <3> HIDE DEF s
    <3> QED
      BY <2>2, <3>1, <3>2 DEF Acquire
  <2>3. CASE CancelEnds(f) \/ EndStillborn(f)
    <3> DEFINE s == [flights[f] EXCEPT !.state = "cancelled", !.holds = FALSE]
    <3>1. /\ s \in Flight /\ s.origin = flights[f].origin /\ s.waiters = flights[f].waiters
          /\ s.state = "cancelled" /\ s.holds = FALSE
      BY <1>1 DEF Flight, ActiveStates
    <3>2. flights' = [flights EXCEPT ![f] = s]
      BY <1>1, <2>3 DEF CancelEnds, EndStillborn, Ended
    <3> HIDE DEF s
    <3> QED
      BY <2>3, <3>1, <3>2 DEF CancelEnds, EndStillborn
  <2> QED
    BY <2>1, <2>2, <2>3
<1>3. flights[f].state = "stillborn" => closing # "no"
  BY DEF IInv, Shared, ClosedStates
<1>4. /\ flights' \in Seq(Flight) /\ DOMAIN flights' = DOMAIN flights
      /\ flights'[f] = s /\ \A g \in DOMAIN flights \ {f} : flights'[g] = flights[g]
      /\ ChecksKeyed' /\ Placed' /\ Shared' /\ Remembered
      /\ registry' \subseteq DOMAIN flights'
  <2>1. /\ s.state # "stillborn"
        /\ s.state \in {"created", "queued", "fetching"} =>
             flights[f].state \in {"created", "queued", "fetching"}
        /\ \/ /\ s.state \in ActiveStates /\ registry' = registry
              /\ flights[f].state = "cancelling" => s.state = "cancelling"
           \/ s.state \notin ActiveStates /\ registry' = registry \ {f}
           \/ s.state \notin ActiveStates /\ registry' = registry /\ closing # "no"
    BY <1>2, <1>3 DEF ActiveStates
  <2> QED
    BY <1>1, <1>2, <2>1, FlightMoves
<1>5. /\ \A g \in DOMAIN flights : flights[g].state = "fetching" => flights[g].holds
      /\ \A g \in DOMAIN flights : flights[g].holds => flights[g].state \in {"fetching", "cancelling"}
      /\ IsFiniteSet(Holders) /\ Cardinality(Holders) \in Nat /\ Cardinality(Holders) <= MaxConcurrency
  BY HoldersFinite DEF IInv, PermitsKept, Holders
<1>6. PermitsKept'
  <2>1. CASE flights[f].state = "queued" /\ s.holds
    <3>1. Holders' = Holders \cup {f} /\ f \notin Holders
      BY <1>4, <1>5, <2>1 DEF Holders
    <3>2. Cardinality(Holders') = Cardinality(Holders) + 1
      BY <1>5, <3>1, FS_AddElement
    <3>3. Cardinality(Holders') <= MaxConcurrency
      BY <1>2, <1>5, <2>1, <3>2, RobotsAssumption
    <3> QED
      BY <1>2, <1>4, <1>5, <2>1, <3>3 DEF PermitsKept, Holders
  <2>2. CASE ~(flights[f].state = "queued" /\ s.holds)
    <3>1. \A g \in DOMAIN flights :
           /\ flights'[g].holds => flights[g].holds
           /\ flights'[g].state = "fetching" => flights'[g].holds
           /\ flights'[g].holds => flights'[g].state \in {"fetching", "cancelling"}
      BY <1>2, <1>4, <1>5, <2>2
    <3> QED
      BY <1>4, <3>1, PermitsStay DEF IInv
  <2> QED
    BY <2>1, <2>2
<1>7. CacheSound'
  BY <1>1, <1>4, CacheStays DEF IInv
<1>8. TypeOK'
  BY <1>1, <1>4 DEF IInv, TypeOK
<1> QED
  BY <1>4, <1>6, <1>7, <1>8 DEF IInv

\* A fetch yields a policy, which is cached.
LEMMA FetchEndsStep ==
  ASSUME IInv, NEW f \in DOMAIN flights, FetchEnds(f)
  PROVE  IInv'
<1>1. PICK policy \in Answers :
        /\ flights' = [Ended(f, "done") EXCEPT ![f].policy = policy, ![f].ended = clock]
        /\ cache' = Cached(flights[f].origin, policy)
  BY DEF FetchEnds
<1>2. /\ flights[f].state = "fetching" /\ registry' = registry \ {f}
      /\ UNCHANGED <<clock, checks, closing>>
  BY DEF FetchEnds
<1>3. flights[f] \in Flight /\ f \in Active /\ flights \in Seq(Flight) /\ clock \in Nat
  BY <1>2, FlightsTyped DEF IInv, Active, ActiveStates
<1>4. closing = "no"
  BY <1>2 DEF IInv, Shared, ClosedStates
<1>5. policy \in Policy
  BY DEF Answers, NoPolicy, Policy, Kinds
<1> DEFINE s == [flights[f] EXCEPT !.state = "done", !.holds = FALSE, !.policy = policy, !.ended = clock]
<1>6. /\ s \in Flight /\ s.origin = flights[f].origin /\ s.waiters = flights[f].waiters
      /\ s.state = "done" /\ s.holds = FALSE /\ s.policy = policy /\ s.ended = clock
  BY <1>3, <1>5 DEF Flight
<1>7. flights' = [flights EXCEPT ![f] = s]
  BY <1>1, <1>3 DEF Ended
<1> HIDE DEF s
<1>8. /\ flights' \in Seq(Flight) /\ DOMAIN flights' = DOMAIN flights
      /\ flights'[f] = s /\ \A g \in DOMAIN flights \ {f} : flights'[g] = flights[g]
      /\ ChecksKeyed' /\ Placed' /\ Shared' /\ Remembered
      /\ registry' \subseteq DOMAIN flights'
  <2>1. s.state # "stillborn" /\ s.state \notin {"created", "queued", "fetching"}
        /\ s.state \notin ActiveStates
    BY <1>6 DEF ActiveStates
  <2> QED
    BY <1>2, <1>3, <1>6, <1>7, <2>1, FlightMoves
<1>9. PermitsKept'
  <2>1. \A g \in DOMAIN flights :
          /\ flights'[g].holds => flights[g].holds
          /\ flights'[g].state = "fetching" => flights'[g].holds
          /\ flights'[g].holds => flights'[g].state \in {"fetching", "cancelling"}
    BY <1>6, <1>8 DEF IInv, PermitsKept, Holders
  <2> QED
    BY <1>8, <2>1, PermitsStay DEF IInv
<1> DEFINE e == [origin |-> flights[f].origin, policy |-> policy,
                 expires |-> clock + Ttl[policy.kind]]
           t == Append(Without(e.origin), e)
<1>10. e \in Entry /\ e.origin = flights[f].origin /\ e.policy = policy
       /\ e.expires = clock + Ttl[policy.kind]
  <2>1. Ttl[policy.kind] \in Nat
    BY <1>5, RobotsAssumption DEF Policy
  <2>2. clock + Ttl[policy.kind] \in Nat
    BY <1>3, <2>1
  <2> QED
    BY <1>3, <1>5, <2>2 DEF Entry, Flight
<1>11. cache' = Evicted(t)
  BY <1>1, <1>10 DEF Cached
<1> HIDE DEF e
<1>12. /\ t \in Seq(Entry) /\ OneEach(t)
       /\ \A i \in DOMAIN t : t[i] = e \/ \E j \in DOMAIN cache : t[i] = cache[j]
  BY <1>10, Replaced DEF IInv
<1> HIDE DEF t
<1>13. /\ cache' \in Seq(Entry) /\ Len(cache') <= CacheEntries
       /\ OneEach(cache') /\ Among(cache', t)
  BY <1>11, <1>12, EvictedEntries
<1>14. \A k \in DOMAIN cache' : \E g \in DOMAIN flights' :
         /\ flights'[g].state = "done"
         /\ flights'[g].origin = cache'[k].origin
         /\ flights'[g].policy = cache'[k].policy
         /\ cache'[k].expires = flights'[g].ended + Ttl[cache'[k].policy.kind]
  <2> TAKE k \in DOMAIN cache'
  <2>1. CASE cache'[k] = e
    BY <1>6, <1>8, <1>10, <2>1
  <2>2. CASE \E j \in DOMAIN cache : cache'[k] = cache[j]
    <3>1. PICK j \in DOMAIN cache : cache'[k] = cache[j]
      BY <2>2
    <3>2. PICK g \in DOMAIN flights :
            /\ flights[g].state = "done"
            /\ flights[g].origin = cache[j].origin
            /\ flights[g].policy = cache[j].policy
            /\ cache[j].expires = flights[g].ended + Ttl[cache[j].policy.kind]
      BY DEF IInv, CacheSound
    <3> QED
      BY <1>8, <3>1, <3>2 DEF Remembered
  <2> QED
    BY <1>12, <1>13, <2>1, <2>2 DEF Among
<1>15. CacheSound'
  BY <1>2, <1>4, <1>13, <1>14 DEF CacheSound, OneEach
<1>16. TypeOK'
  BY <1>2, <1>8, <1>13 DEF IInv, TypeOK
<1> QED
  BY <1>8, <1>9, <1>15, <1>16 DEF IInv

\* close cancels every fetch that is in the registry.
LEMMA StartCloseStep ==
  ASSUME IInv, StartClose
  PROVE  IInv'
<1>1. /\ closing = "no" /\ closing' = "draining" /\ cache' = << >>
      /\ UNCHANGED <<clock, checks, registry>>
  BY DEF StartClose
<1>2. /\ registry = Active /\ registry \subseteq DOMAIN flights
      /\ flights \in Seq(Flight) /\ Len(flights) \in Nat /\ DOMAIN flights = 1 .. Len(flights)
      /\ \A f \in DOMAIN flights : flights[f] \in Flight
  BY <1>1, FlightsTyped DEF IInv, Shared, FetchesShared
<1> DEFINE s(f) == [flights[f] EXCEPT !.state = IF @ = "created" THEN "stillborn" ELSE "cancelling"]
<1>3. ASSUME NEW f \in DOMAIN flights
      PROVE  /\ s(f) \in Flight /\ s(f).origin = flights[f].origin /\ s(f).holds = flights[f].holds
             /\ s(f).waiters = flights[f].waiters
             /\ s(f).state = IF flights[f].state = "created" THEN "stillborn" ELSE "cancelling"
  BY <1>2 DEF Flight, ActiveStates
<1>4. flights' = [f \in 1 .. Len(flights) |-> IF f \notin registry THEN flights[f] ELSE s(f)]
  BY <1>2 DEF StartClose
<1> HIDE DEF s
<1>5. /\ flights' \in Seq(Flight) /\ DOMAIN flights' = DOMAIN flights
      /\ \A f \in DOMAIN flights : flights'[f] = IF f \notin registry THEN flights[f] ELSE s(f)
  <2>1. \A f \in 1 .. Len(flights) : (IF f \notin registry THEN flights[f] ELSE s(f)) \in Flight
    BY <1>2, <1>3
  <2> QED
    BY <1>2, <1>4, <2>1
<1>6. \A f \in DOMAIN flights :
        /\ flights'[f].origin = flights[f].origin /\ flights'[f].holds = flights[f].holds
        /\ flights'[f].waiters = flights[f].waiters
        /\ f \notin registry => flights'[f] = flights[f]
        /\ f \in registry => flights'[f].state =
                               IF flights[f].state = "created" THEN "stillborn" ELSE "cancelling"
  BY <1>3, <1>5
<1>7. Active' = Active
  BY <1>2, <1>5, <1>6 DEF Active, ActiveStates
<1>8. \A g \in Active : Waiting(g)' = Waiting(g)
  BY <1>1 DEF Waiting
<1>9. FetchesShared'
  <2>1. \A f, g \in Active' : flights'[f].origin = flights'[g].origin => f = g
    BY <1>2, <1>6, <1>7 DEF IInv, Shared, FetchesShared
  <2>2. \A f \in registry' : flights'[f].waiters = Cardinality(Waiting(f)')
    BY <1>1, <1>2, <1>6, <1>8 DEF IInv, Shared, FetchesShared
  <2>3. \A f \in Active' : flights'[f].state = "cancelling" \/ Waiting(f)' # {}
    BY <1>2, <1>6, <1>7, <1>8 DEF IInv, Shared, FetchesShared
  <2> QED
    BY <1>1, <1>2, <1>7, <2>1, <2>2, <2>3 DEF FetchesShared
<1>10. ClosedStates'
  BY <1>1, <1>2, <1>5, <1>6 DEF ClosedStates, Active, ActiveStates
<1>11. Countable'
  BY <1>1, <1>2, <1>8 DEF IInv, Shared, Countable
<1>12. PermitsKept'
  <2>1. \A g \in DOMAIN flights :
          /\ flights'[g].holds => flights[g].holds
          /\ flights'[g].state = "fetching" => flights'[g].holds
          /\ flights'[g].holds => flights'[g].state \in {"fetching", "cancelling"}
    BY <1>2, <1>6 DEF IInv, PermitsKept, Holders
  <2> QED
    BY <1>5, <2>1, PermitsStay DEF IInv
<1>13. ChecksKeyed' /\ Placed'
  BY <1>1, <1>5, <1>6, SameKeyed DEF IInv
<1>14. CacheSound' /\ cache' \in Seq(Entry)
  <2>1. Len(<< >>) = 0 /\ DOMAIN << >> = {} /\ << >> \in Seq(Entry)
    BY EmptySeq
  <2> QED
    BY <1>1, <2>1, RobotsAssumption DEF CacheSound
<1>15. TypeOK'
  BY <1>1, <1>5, <1>14 DEF IInv, TypeOK
<1> QED
  BY <1>9, <1>10, <1>11, <1>12, <1>13, <1>14, <1>15 DEF IInv, Shared

\* close returns when no flight goes on, and time passes.
LEMMA EndCloseOrTick ==
  ASSUME IInv, EndClose \/ Tick
  PROVE  IInv'
<1>1. UNCHANGED <<checks, flights, cache>>
  BY DEF EndClose, Tick
<1>2. /\ ChecksKeyed' /\ Placed' /\ PermitsKept'
      /\ Active' = Active /\ \A f \in registry : Waiting(f)' = Waiting(f)
  BY <1>1 DEF IInv, ChecksKeyed, Placed, PermitsKept, Holders, Active, Waiting
<1>3. CASE EndClose
  <2>1. /\ closing = "draining" /\ closing' = "done" /\ registry' = {} /\ clock' = clock
        /\ registry \cap Active = {} /\ Active \subseteq registry
    BY <1>3 DEF EndClose, IInv, Shared, FetchesShared
  <2>2. Active' = {}
    BY <1>2, <2>1
  <2>3. Shared'
    BY <1>1, <2>1, <2>2 DEF IInv, Shared, FetchesShared, ClosedStates, Countable
  <2>4. CacheSound'
    BY <1>1, <2>1 DEF IInv, CacheSound
  <2>5. TypeOK'
    BY <1>1, <2>1 DEF IInv, TypeOK
  <2> QED
    BY <1>2, <2>3, <2>4, <2>5 DEF IInv
<1>4. CASE Tick
  <2>1. /\ closing' = closing /\ registry' = registry /\ clock' = clock + 1 /\ clock < MaxTime
        /\ clock \in 0 .. MaxTime
    BY <1>4 DEF Tick, IInv, TypeOK
  <2>2. Shared'
    BY <1>1, <1>2, <2>1 DEF IInv, Shared, FetchesShared, ClosedStates, Countable
  <2>3. CacheSound'
    BY <1>1, <2>1 DEF IInv, CacheSound
  <2>4. clock' \in 0 .. MaxTime
    BY <2>1, RobotsAssumption
  <2>5. TypeOK'
    BY <1>1, <2>1, <2>4 DEF IInv, TypeOK
  <2> QED
    BY <1>2, <2>2, <2>3, <2>5 DEF IInv
<1> QED
  BY <1>3, <1>4
-----------------------------------------------------------------------------
(* Theorems *)

\* A service starts with nothing cached and nothing under way.
LEMMA StartSound ==
  ASSUME Init
  PROVE  IInv
<1>1. /\ flights = << >> /\ DOMAIN flights = {} /\ cache = << >> /\ DOMAIN cache = {}
      /\ Len(cache) = 0 /\ registry = {} /\ closing = "no" /\ clock = 0
      /\ flights \in Seq(Flight) /\ cache \in Seq(Entry)
  BY EmptySeq DEF Init
<1>2. \A c \in Check : checks[c] = [at |-> "new", flight |-> 0, outcome |-> "none"]
  BY DEF Init
<1>3. checks \in [Check -> CheckState]
  BY DEF Init, CheckState
<1>4. TypeOK
  BY <1>1, <1>3, RobotsAssumption DEF TypeOK
<1>5. Active = {} /\ Holders = {}
  BY <1>1 DEF Active, Holders
<1>6. ChecksKeyed /\ Placed
  BY <1>2 DEF ChecksKeyed, Placed
<1>7. Shared
  BY <1>1, <1>5 DEF Shared, FetchesShared, ClosedStates, Countable
<1>8. PermitsKept
  BY <1>1, <1>5, FS_EmptySet, RobotsAssumption DEF PermitsKept
<1>9. CacheSound
  BY <1>1, RobotsAssumption DEF CacheSound
<1> QED
  BY <1>4, <1>6, <1>7, <1>8, <1>9 DEF IInv

\* Every step keeps the invariant.
LEMMA StepSound ==
  ASSUME IInv, [Next]_vars
  PROVE  IInv'
<1>1. ASSUME NEW c \in Check, CheckStep(c) \/ CancelWaiting(c) \/ CancelReleasing(c)
      PROVE  IInv'
  BY <1>1, LeaveStep, CachedStep, LiveStep, DeliverStep, CancelWaitingStep DEF CheckStep
<1>2. ASSUME NEW f \in DOMAIN flights, FlightStep(f)
      PROVE  IInv'
  BY <1>2, FlightGoesStep, FetchEndsStep DEF FlightStep
<1>3. CASE UNCHANGED vars
  BY <1>3 DEF vars, IInv, TypeOK, ChecksKeyed, Placed, Shared, FetchesShared, ClosedStates,
              Countable, PermitsKept, CacheSound, Active, Waiting, Holders
<1> QED
  BY <1>1, <1>2, <1>3, StartCloseStep, EndCloseOrTick DEF Next

\* The whole service: a fetch has exactly the waiters that are counted for it,
\* there is one per origin, permits and cache stay within their limits, and
\* close leaves nothing behind, whatever is cancelled and whenever.
THEOREM PolicyIsSound == Spec => []PolicyInv
<1>1. Init => IInv
  BY StartSound
<1>2. IInv /\ [Next]_vars => IInv'
  BY StepSound
<1>3. IInv => PolicyInv
  BY DEF IInv, PolicyInv, Shared
<1> QED
  BY <1>1, <1>2, <1>3, PTL DEF Spec

\* A step that allows a page has an answer for it.
LEMMA AllowStep ==
  ASSUME IInv, [Next]_vars, NEW c \in Check, AllowedNow(c)
  PROVE  Backed(c)
<1>1. /\ checks[c].outcome # "allowed" /\ checks'[c].outcome = "allowed"
      /\ checks \in [Check -> CheckState] /\ TypeOK
  BY DEF AllowedNow, IInv, TypeOK
<1>2. CASE CheckCached(c)
  <2>1. PICK i \in EntriesOf(Asks[c].origin) : Fresh(cache[i]) /\ Decide(c, cache[i].policy)
    BY <1>2 DEF CheckCached
  <2>2. Permits(cache[i].policy, Asks[c].path)
    BY <1>1, <2>1, DecideEnds, EndsCheck
  <2>3. i \in DOMAIN cache /\ cache[i].origin = Asks[c].origin /\ cache[i].expires > clock
    BY <2>1 DEF EntriesOf, Fresh
  <2>4. PICK f \in DOMAIN flights :
          /\ flights[f].state = "done"
          /\ flights[f].origin = cache[i].origin
          /\ flights[f].policy = cache[i].policy
          /\ cache[i].expires = flights[f].ended + Ttl[cache[i].policy.kind]
    BY <2>3 DEF IInv, CacheSound
  <2>5. clock - flights[f].ended < Ttl[flights[f].policy.kind]
    <3>1. flights[f] \in Flight /\ clock \in Nat
      BY <1>1, FlightsTyped
    <3>2. flights[f].ended \in Nat /\ Ttl[flights[f].policy.kind] \in Nat
      BY <3>1, RobotsAssumption DEF Flight, Policy
    <3> QED
      BY <2>3, <2>4, <3>1, <3>2
  <2> QED
    BY <2>2, <2>3, <2>4, <2>5 DEF Backed, Permits
<1>3. CASE Deliver(c)
  <2> DEFINE f == checks[c].flight
  <2>1. flights[f].state = "done" /\ Decide(c, flights[f].policy)
    <3>1. ~Ends(c, "aborted")
      BY <1>1, EndsCheck DEF Outcomes
    <3> QED
      BY <1>3, <3>1 DEF Deliver
  <2>2. Permits(flights[f].policy, Asks[c].path)
    BY <1>1, <2>1, DecideEnds, EndsCheck
  <2>3. f \in DOMAIN flights /\ flights[f].origin = Asks[c].origin
    BY <1>3 DEF Deliver, IInv, ChecksKeyed, Placed
  <2> QED
    BY <2>1, <2>2, <2>3 DEF Backed, Permits
<1>4. CASE checks' = checks
  BY <1>1, <1>4
<1>5. CASE CheckLive(c) \/ (CancelWaiting(c) /\ ~Ends(c, "cancelled"))
  BY <1>1, <1>5 DEF CheckLive, CancelWaiting, CheckState
<1>6. CASE Ends(c, "refused") \/ Ends(c, "cancelled")
  BY <1>1, <1>6, EndsCheck DEF Outcomes
<1>7. ASSUME NEW d \in Check \ {c}, CheckStep(d) \/ CancelWaiting(d) \/ CancelReleasing(d)
      PROVE  checks'[c] = checks[c]
  BY <1>1, <1>7 DEF CheckStep, CheckClosed, CheckCached, CheckLive, Deliver, Released, CancelWaiting,
                    CancelReleasing, Decide, Ends
<1>8. CASE \E d \in Check : CheckStep(d) \/ CancelWaiting(d) \/ CancelReleasing(d)
  <2>1. CheckStep(c) \/ CancelWaiting(c) \/ CancelReleasing(c)
    BY <1>1, <1>7, <1>8
  <2> QED
    BY <1>2, <1>3, <1>5, <1>6, <2>1 DEF CheckStep, CheckClosed, Released, CancelReleasing
<1>9. \/ checks' = checks
      \/ \E d \in Check : CheckStep(d) \/ CancelWaiting(d) \/ CancelReleasing(d)
  BY DEF Next, vars, FlightStep, Begin, Acquire, FetchEnds, CancelEnds, EndStillborn,
         StartClose, EndClose, Tick
<1> QED
  BY <1>4, <1>8, <1>9

\* A page is allowed only by an answer of its own origin, which the check waited
\* for or which has not expired.
THEOREM PagesAreAllowedByAnswers == Spec => AllowsAreBacked
<1>1. Init => IInv
  BY StartSound
<1>2. IInv /\ [Next]_vars => IInv'
  BY StepSound
<1>3. IInv /\ [Next]_vars => [\A c \in Check : AllowedNow(c) => Backed(c)]_vars
  BY AllowStep
<1> QED
  BY <1>1, <1>2, <1>3, PTL DEF Spec, AllowsAreBacked
-----------------------------------------------------------------------------
(* Covers, step by step *)

\* One step of Covers: how much of value may be covered with one symbol more.
CoveredWith(value, covered, symbol) ==
  IF symbol = "*" THEN {v \in 0 .. Len(value) : \E u \in covered : u <= v}
                  ELSE {v \in 1 .. Len(value) : v - 1 \in covered /\ value[v] = symbol}

\* k[i] is how much of value the first i symbols of a pattern may cover.
CoveredBy(pattern, value, k) ==
  /\ k \in [0 .. Len(pattern) -> SUBSET (0 .. Len(value))]
  /\ k[0] = {0}
  /\ \A i \in 1 .. Len(pattern) : k[i] = CoveredWith(value, k[i - 1], pattern[i])

\* Covers, a fold over the pattern, takes these steps one by one.
LEMMA CoversRuns ==
  ASSUME NEW S, NEW pattern \in Seq(S), NEW T, NEW value \in Seq(T)
  PROVE  \E k : /\ CoveredBy(pattern, value, k)
                /\ Covers(pattern, value) <=> Len(value) \in k[Len(pattern)]
<1> DEFINE n == Len(pattern)
           A == SUBSET (0 .. Len(value))
           next(a, s) == IF s = {} THEN {0} ELSE CoveredWith(value, a[s \ {Max(s)}], pattern[Max(s)])
           solves(a) == a = [s \in SUBSET DOMAIN pattern |-> next(a, s)]
           g == CHOOSE a : solves(a)
           F == [q \in A \X (1 .. n) |-> CoveredWith(value, q[1], pattern[q[2]])]
<1>1. Covers(pattern, value) <=> Len(value) \in g[DOMAIN pattern]
  BY DEF Covers, CoveredWith, FoldLeft, MapThenFoldSet
<1>2. n \in Nat /\ DOMAIN pattern = 1 .. n /\ Len(value) \in Nat /\ {0} \in A
  BY LenProperties
<1> HIDE DEF n
<1>3. \A a \in A, i \in 1 .. n : CoveredWith(value, a, pattern[i]) \in A
  BY <1>2 DEF CoveredWith
<1> HIDE DEF A
<1>3a. /\ F \in [A \X (1 .. n) -> A]
      /\ \A a \in A, i \in 1 .. n : F[<<a, i>>] = CoveredWith(value, a, pattern[i])
  BY <1>3
<1> HIDE DEF F
<1>4. PICK h : FoldsWith(A, n, F, {0}, h)
  BY <1>2, <1>3, <1>3a, FoldExists
<1>5. \A s \in SUBSET (1 .. n) : s # {} => Max(s) \in 1 .. n
  BY <1>2, GreatestOf
<1>6. solves(h)
  <2>1. \A s \in SUBSET (1 .. n) : h[s] = next(h, s)
    BY <1>3, <1>3a, <1>4, <1>5 DEF FoldsWith
  <2>2. h = [s \in SUBSET (1 .. n) |-> h[s]]
    BY <1>4 DEF FoldsWith
  <2> HIDE DEF next
  <2> QED
    BY <1>2, <2>1, <2>2
<1>7. solves(g)
  <2> HIDE DEF solves
  <2> QED
    BY <1>6
<1>8. \A s \in SUBSET (1 .. n) : g[s] = next(g, s)
  <2> HIDE DEF next, g
  <2> QED
    BY <1>2, <1>7
<1> HIDE DEF g
<1>9. \A s \in SUBSET (1 .. n) : s # {} /\ g[s \ {Max(s)}] \in A => g[s] = F[<<g[s \ {Max(s)}], Max(s)>>]
  <2> SUFFICES ASSUME NEW s \in SUBSET (1 .. n), s # {}, g[s \ {Max(s)}] \in A
               PROVE  g[s] = F[<<g[s \ {Max(s)}], Max(s)>>]
    OBVIOUS
  <2>1. g[s] = CoveredWith(value, g[s \ {Max(s)}], pattern[Max(s)])
    BY <1>8
  <2> QED
    BY <1>3a, <1>5, <2>1
<1>10. g[{}] = {0}
  BY <1>8
<1>11. PICK k : RunsWith(A, n, F, {0}, g[1 .. n], k)
  <2>1. FoldsBy(A, n, F, {0}, g)
    BY <1>9, <1>10 DEF FoldsBy
  <2>2. {0} \in A
    BY <1>2 DEF A
  <2> QED
    BY <1>2, <1>3a, <2>1, <2>2, FoldRun
<1>12. \A i \in 1 .. n : k[i] = CoveredWith(value, k[i - 1], pattern[i])
  <2>1. \A i \in 1 .. n : i - 1 \in 0 .. n
    BY <1>2
  <2> QED
    BY <1>3a, <1>11, <2>1 DEF RunsWith
<1> QED
  BY <1>1, <1>2, <1>11, <1>12 DEF RunsWith, CoveredBy, A, n
-----------------------------------------------------------------------------
(* The greedy matcher: the scan and what is left of it *)

\* One step of the loop of _glob_matches, from the place at.
ScanStep(pattern, value, scan, at) ==
  LET Equal == at.p <= Len(pattern) /\ pattern[at.p] = value[at.v]
      Wildcard == at.p <= Len(pattern) /\ pattern[at.p] = "*"
  IN CASE at.v > Len(value) -> OnlyWildcardsLeft(pattern, at.p)
       [] at.v <= Len(value) /\ Equal -> scan[[at EXCEPT !.p = @ + 1, !.v = @ + 1]]
       [] at.v <= Len(value) /\ ~Equal /\ Wildcard ->
            scan[[at EXCEPT !.p = @ + 1, !.star = at.p, !.retry = at.v]]
       [] OTHER -> at.star > 0 /\ scan[[at EXCEPT !.p = at.star + 1, !.v = at.retry + 1, !.retry = @ + 1]]

\* GlobMatches asks the function that takes these steps for the first place.
LEMMA MatchesIsScan ==
  ASSUME NEW pattern, NEW value
  PROVE  GlobMatches(pattern, value) =
           (CHOOSE scan : scan = [at \in ScanPlace(pattern, value) |-> ScanStep(pattern, value, scan, at)])
             [[p |-> 1, v |-> 1, star |-> 0, retry |-> 0]]
BY DEF GlobMatches, ScanStep

\* How much scanning is left.
Rank(pattern, value, at) ==
  ((Len(value) + 1 - at.retry) * (Len(pattern) + 1) + (Len(pattern) - at.star)) * (Len(value) + 2)
    + (Len(value) + 1 - at.v)

\* The numbers of a place and their ranges.
LEMMA PlaceFields ==
  ASSUME NEW S, NEW pattern \in Seq(S), NEW T, NEW value \in Seq(T), NEW at \in ScanPlace(pattern, value)
  PROVE  /\ Len(pattern) \in Nat /\ Len(value) \in Nat
         /\ at.p \in 1 .. Len(pattern) + 1 /\ at.v \in 1 .. Len(value) + 1
         /\ at.star \in 0 .. Len(pattern) /\ at.retry \in 0 .. Len(value) + 1
         /\ at.star < at.p /\ at.retry <= at.v
         /\ at = [p |-> at.p, v |-> at.v, star |-> at.star, retry |-> at.retry]
BY LenProperties DEF ScanPlace

\* Four numbers in their ranges are a place.
LEMMA APlace ==
  ASSUME NEW S, NEW pattern \in Seq(S), NEW T, NEW value \in Seq(T),
         NEW p \in 1 .. Len(pattern) + 1, NEW v \in 1 .. Len(value) + 1,
         NEW star \in 0 .. Len(pattern), NEW retry \in 0 .. Len(value) + 1,
         star < p, retry <= v
  PROVE  [p |-> p, v |-> v, star |-> star, retry |-> retry] \in ScanPlace(pattern, value)
BY DEF ScanPlace

\* What is left falls with a retry, or with a later wildcard, or else with the value.
LEMMA RankFalls ==
  ASSUME NEW n \in Nat, NEW m \in Nat,
         NEW v \in 1 .. n + 1, NEW w \in 1 .. n + 1,
         NEW star \in 0 .. m, NEW last \in 0 .. m,
         NEW retry \in 0 .. n + 1, NEW again \in 0 .. n + 1,
         \/ again > retry
         \/ again = retry /\ last > star
         \/ again = retry /\ last = star /\ w > v
  PROVE  /\ ((n + 1 - again) * (m + 1) + (m - last)) * (n + 2) + (n + 1 - w) \in Nat
         /\ ((n + 1 - retry) * (m + 1) + (m - star)) * (n + 2) + (n + 1 - v) \in Nat
         /\ ((n + 1 - again) * (m + 1) + (m - last)) * (n + 2) + (n + 1 - w)
              < ((n + 1 - retry) * (m + 1) + (m - star)) * (n + 2) + (n + 1 - v)
<1> DEFINE a == n + 1 - again
           c == n + 1 - retry
           b == m - last
           d == m - star
           e == n + 1 - w
           f == n + 1 - v
           A == a * (m + 1) + b
           C == c * (m + 1) + d
<1>1. /\ a \in Nat /\ c \in Nat /\ b \in Nat /\ d \in Nat /\ e \in Nat /\ f \in Nat
      /\ b < m + 1 /\ e < n + 2 /\ m + 1 \in Nat /\ n + 2 \in Nat
  OBVIOUS
<1>2. a < c \/ (a = c /\ b < d) \/ (a = c /\ b = d /\ e < f)
  OBVIOUS
<1> HIDE DEF a, b, c, d, e, f
<1>3. A \in Nat /\ C \in Nat /\ A * (n + 2) \in Nat /\ C * (n + 2) \in Nat
  <2>1. a * (m + 1) \in Nat /\ c * (m + 1) \in Nat
    BY <1>1
  <2>2. A \in Nat /\ C \in Nat
    BY <1>1, <2>1
  <2> HIDE DEF A, C
  <2> QED
    BY <1>1, <2>2
<1>4. A < C \/ (A = C /\ e < f)
  <2>1. CASE a < c
    BY <1>1, <2>1, PairOrder
  <2>2. CASE a = c /\ b < d
    <3>1. c * (m + 1) \in Nat
      BY <1>1
    <3> QED
      BY <1>1, <2>2, <3>1
  <2>3. CASE a = c /\ b = d /\ e < f
    BY <2>3
  <2> QED
    BY <1>2, <2>1, <2>2, <2>3
<1> HIDE DEF A, C
<1>5. A * (n + 2) + e < C * (n + 2) + f /\ A * (n + 2) + e \in Nat /\ C * (n + 2) + f \in Nat
  <2>1. CASE A < C
    BY <1>1, <1>3, <2>1, PairOrder
  <2>2. CASE A = C /\ e < f
    BY <1>1, <1>3, <2>2
  <2> QED
    BY <1>4, <2>1, <2>2
<1> QED
  BY <1>5 DEF A, C, a, b, c, d, e, f

\* Where the scan goes from a place, and that it comes nearer to its end.
LEMMA PlaceMoves ==
  ASSUME NEW S, NEW pattern \in Seq(S), NEW T, NEW value \in Seq(T), NEW at \in ScanPlace(pattern, value),
         at.v <= Len(value),
         NEW to, \/ at.p <= Len(pattern) /\ to = [at EXCEPT !.p = @ + 1, !.v = @ + 1]
                 \/ at.p <= Len(pattern) /\ to = [at EXCEPT !.p = @ + 1, !.star = at.p, !.retry = at.v]
                 \/ at.star > 0 /\ to = [at EXCEPT !.p = at.star + 1, !.v = at.retry + 1, !.retry = @ + 1]
  PROVE  /\ to \in ScanPlace(pattern, value)
         /\ Rank(pattern, value, to) \in Nat /\ Rank(pattern, value, at) \in Nat
         /\ Rank(pattern, value, to) < Rank(pattern, value, at)
<1> DEFINE m == Len(pattern)
           n == Len(value)
<1>1. /\ m \in Nat /\ n \in Nat
      /\ at.p \in 1 .. m + 1 /\ at.v \in 1 .. n + 1
      /\ at.star \in 0 .. m /\ at.retry \in 0 .. n + 1
      /\ at.star < at.p /\ at.retry <= at.v
      /\ at = [p |-> at.p, v |-> at.v, star |-> at.star, retry |-> at.retry]
  BY PlaceFields
<1>2. PICK p, v, star, retry :
        /\ at.p = p /\ at.v = v /\ at.star = star /\ at.retry = retry
        /\ p \in 1 .. m + 1 /\ v \in 1 .. n /\ star \in 0 .. m /\ retry \in 0 .. n
        /\ star < p /\ retry <= v
        /\ at = [p |-> p, v |-> v, star |-> star, retry |-> retry]
  BY <1>1
<1> DEFINE Nearer(q, w, last, again) ==
             /\ to = [p |-> q, v |-> w, star |-> last, retry |-> again]
             /\ q \in 1 .. m + 1 /\ w \in 1 .. n + 1 /\ last \in 0 .. m /\ again \in 0 .. n + 1
             /\ last < q /\ again <= w
             /\ \/ again > retry
                \/ again = retry /\ last > star
                \/ again = retry /\ last = star /\ w > v
<1>3. PICK q, w, last, again : Nearer(q, w, last, again)
  <2>1. CASE at.p <= Len(pattern) /\ to = [at EXCEPT !.p = @ + 1, !.v = @ + 1]
    <3>1. to = [p |-> p + 1, v |-> v + 1, star |-> star, retry |-> retry]
      BY <1>2, <2>1
    <3>2. /\ p + 1 \in 1 .. m + 1 /\ v + 1 \in 1 .. n + 1 /\ star \in 0 .. m /\ retry \in 0 .. n + 1
          /\ star < p + 1 /\ retry <= v + 1
          /\ \/ retry > retry
             \/ retry = retry /\ star > star
             \/ retry = retry /\ star = star /\ v + 1 > v
      <4>1. m \in Nat /\ n \in Nat /\ p <= m
        BY <1>1, <1>2, <2>1
      <4> HIDE DEF m, n
      <4> QED
        BY <1>2, <4>1
    <3>3. Nearer(p + 1, v + 1, star, retry)
      BY <3>1, <3>2
    <3> HIDE DEF Nearer
    <3> QED
      BY <3>3
  <2>2. CASE at.p <= Len(pattern) /\ to = [at EXCEPT !.p = @ + 1, !.star = at.p, !.retry = at.v]
    <3>1. to = [p |-> p + 1, v |-> v, star |-> p, retry |-> v]
      BY <1>2, <2>2
    <3>2. /\ p + 1 \in 1 .. m + 1 /\ v \in 1 .. n + 1 /\ p \in 0 .. m /\ v \in 0 .. n + 1
          /\ p < p + 1 /\ v <= v
          /\ \/ v > retry
             \/ v = retry /\ p > star
             \/ v = retry /\ p = star /\ v > v
      <4>1. m \in Nat /\ n \in Nat /\ p <= m
        BY <1>1, <1>2, <2>2
      <4> HIDE DEF m, n
      <4> QED
        BY <1>2, <4>1
    <3>3. Nearer(p + 1, v, p, v)
      BY <3>1, <3>2
    <3> HIDE DEF Nearer
    <3> QED
      BY <3>3
  <2>3. CASE at.star > 0 /\ to = [at EXCEPT !.p = at.star + 1, !.v = at.retry + 1, !.retry = @ + 1]
    <3>1. to = [p |-> star + 1, v |-> retry + 1, star |-> star, retry |-> retry + 1]
      BY <1>2, <2>3
    <3>2. /\ star + 1 \in 1 .. m + 1 /\ retry + 1 \in 1 .. n + 1 /\ star \in 0 .. m /\ retry + 1 \in 0 .. n + 1
          /\ star < star + 1 /\ retry + 1 <= retry + 1
          /\ \/ retry + 1 > retry
             \/ retry + 1 = retry /\ star > star
             \/ retry + 1 = retry /\ star = star /\ retry + 1 > v
      <4>1. m \in Nat /\ n \in Nat /\ star > 0
        BY <1>1, <1>2, <2>3
      <4> HIDE DEF m, n
      <4> QED
        BY <1>2, <4>1
    <3>3. Nearer(star + 1, retry + 1, star, retry + 1)
      BY <3>1, <3>2
    <3> HIDE DEF Nearer
    <3> QED
      BY <3>3
  <2> HIDE DEF Nearer
  <2> QED
    BY <2>1, <2>2, <2>3
<1>4. to \in ScanPlace(pattern, value)
  BY <1>3, APlace
<1>5. /\ to.v = w /\ to.star = last /\ to.retry = again
  BY <1>3
<1>6. /\ ((n + 1 - again) * (m + 1) + (m - last)) * (n + 2) + (n + 1 - w) \in Nat
      /\ ((n + 1 - retry) * (m + 1) + (m - star)) * (n + 2) + (n + 1 - v) \in Nat
      /\ ((n + 1 - again) * (m + 1) + (m - last)) * (n + 2) + (n + 1 - w)
           < ((n + 1 - retry) * (m + 1) + (m - star)) * (n + 2) + (n + 1 - v)
  <2> HIDE DEF m, n
  <2>1. v \in 1 .. n + 1 /\ retry \in 0 .. n + 1
    BY <1>1, <1>2
  <2> QED
    BY <1>1, <1>2, <1>3, <2>1, RankFalls
<1>7. Rank(pattern, value, to) = ((n + 1 - again) * (m + 1) + (m - last)) * (n + 2) + (n + 1 - w)
  BY <1>5 DEF Rank
<1>8. Rank(pattern, value, at) = ((n + 1 - retry) * (m + 1) + (m - star)) * (n + 2) + (n + 1 - v)
  BY <1>2 DEF Rank
<1> QED
  BY <1>4, <1>6, <1>7, <1>8

\* Every rank is natural and below a bound.
LEMMA RankBound ==
  ASSUME NEW S, NEW pattern \in Seq(S), NEW T, NEW value \in Seq(T)
  PROVE  \E N \in Nat : \A at \in ScanPlace(pattern, value) :
           Rank(pattern, value, at) \in Nat /\ Rank(pattern, value, at) < N
<1> DEFINE m == Len(pattern)
           n == Len(value)
           N == (n + 2) * (m + 1) * (n + 2) + (n + 2)
<1>0. m \in Nat /\ n \in Nat
  BY LenProperties
<1>1. N \in Nat /\ (n + 2) * (m + 1) \in Nat
  <2>1. (n + 2) * (m + 1) \in Nat
    BY <1>0
  <2> DEFINE x == (n + 2) * (m + 1)
  <2>2. x * (n + 2) \in Nat
    <3>1. x \in Nat /\ n + 2 \in Nat
      BY <1>0, <2>1
    <3> HIDE DEF x, n
    <3> QED
      BY <3>1
  <2> QED
    BY <1>0, <2>1, <2>2
<1>2. ASSUME NEW at \in ScanPlace(pattern, value)
      PROVE  Rank(pattern, value, at) \in Nat /\ Rank(pattern, value, at) < N
  <2> DEFINE a == n + 1 - at.retry
             b == m - at.star
             e == n + 1 - at.v
  <2>1. /\ at.v \in 1 .. n + 1 /\ at.star \in 0 .. m /\ at.retry \in 0 .. n + 1
    BY PlaceFields
  <2>2. a \in Nat /\ b \in Nat /\ e \in Nat /\ a < n + 2 /\ b < m + 1 /\ e < n + 2
    <3>1. PICK v, star, retry : at.v = v /\ at.star = star /\ at.retry = retry
      OBVIOUS
    <3>2. v \in 1 .. n + 1 /\ star \in 0 .. m /\ retry \in 0 .. n + 1
      BY <2>1, <3>1
    <3> HIDE DEF m, n
    <3>3. /\ n + 1 - retry \in Nat /\ m - star \in Nat /\ n + 1 - v \in Nat
          /\ n + 1 - retry < n + 2 /\ m - star < m + 1 /\ n + 1 - v < n + 2
      BY <1>0, <3>2
    <3> QED
      BY <3>1, <3>3
  <2> HIDE DEF a, b, e, m, n
  <2>3. a * (m + 1) + b < (n + 2) * (m + 1) + 0 /\ a * (m + 1) + b \in Nat
    BY <1>0, <2>2, PairOrder
  <2> DEFINE x == a * (m + 1) + b
             y == (n + 2) * (m + 1)
  <2>4. x < y /\ x \in Nat /\ y \in Nat
    BY <1>1, <2>3
  <2> HIDE DEF x, y
  <2>5. x * (n + 2) + e < y * (n + 2) + (n + 2) /\ x * (n + 2) + e \in Nat
    <3>1. n + 2 \in Nat
      BY <1>0
    <3> QED
      BY <2>2, <2>4, <3>1, PairOrder
  <2> QED
    BY <2>5 DEF Rank, x, y, a, b, e, m, n
<1> HIDE DEF N
<1> QED
  BY <1>1, <1>2

\* The four ways to go on from a place: the tests of the loop and where it goes.
Matched(pattern, value, at) == at.p <= Len(pattern) /\ pattern[at.p] = value[at.v]
AtWildcard(pattern, at) == at.p <= Len(pattern) /\ pattern[at.p] = "*"
AfterMatch(at) == [at EXCEPT !.p = @ + 1, !.v = @ + 1]
AfterWildcard(at) == [at EXCEPT !.p = @ + 1, !.star = at.p, !.retry = at.v]
AfterRetry(at) == [at EXCEPT !.p = at.star + 1, !.v = at.retry + 1, !.retry = @ + 1]

\* The cases of a step.
LEMMA ScanCases ==
  ASSUME NEW pattern, NEW value, NEW scan, NEW at, at.v \in Int, Len(value) \in Int
  PROVE  /\ at.v > Len(value) => ScanStep(pattern, value, scan, at) = OnlyWildcardsLeft(pattern, at.p)
         /\ at.v <= Len(value) /\ Matched(pattern, value, at) =>
              ScanStep(pattern, value, scan, at) = scan[AfterMatch(at)]
         /\ at.v <= Len(value) /\ ~Matched(pattern, value, at) /\ AtWildcard(pattern, at) =>
              ScanStep(pattern, value, scan, at) = scan[AfterWildcard(at)]
         /\ at.v <= Len(value) /\ ~Matched(pattern, value, at) /\ ~AtWildcard(pattern, at) =>
              ScanStep(pattern, value, scan, at) = (at.star > 0 /\ scan[AfterRetry(at)])
BY DEF ScanStep, Matched, AtWildcard, AfterMatch, AfterWildcard, AfterRetry

\* Each way leads to a place with less left to scan.
LEMMA MovesInScan ==
  ASSUME NEW S, NEW pattern \in Seq(S), NEW T, NEW value \in Seq(T), NEW at \in ScanPlace(pattern, value),
         at.v <= Len(value),
         NEW to, \/ Matched(pattern, value, at) /\ to = AfterMatch(at)
                 \/ AtWildcard(pattern, at) /\ to = AfterWildcard(at)
                 \/ at.star > 0 /\ to = AfterRetry(at)
  PROVE  /\ to \in ScanPlace(pattern, value)
         /\ Rank(pattern, value, to) \in Nat /\ Rank(pattern, value, at) \in Nat
         /\ Rank(pattern, value, to) < Rank(pattern, value, at)
<1>1. \/ at.p <= Len(pattern) /\ to = [at EXCEPT !.p = @ + 1, !.v = @ + 1]
      \/ at.p <= Len(pattern) /\ to = [at EXCEPT !.p = @ + 1, !.star = at.p, !.retry = at.v]
      \/ at.star > 0 /\ to = [at EXCEPT !.p = at.star + 1, !.v = at.retry + 1, !.retry = @ + 1]
  BY Zenon DEF Matched, AtWildcard, AfterMatch, AfterWildcard, AfterRetry
<1> QED
  BY <1>1, PlaceMoves

\* A step answers yes or no.
LEMMA StepTyped ==
  ASSUME NEW S, NEW pattern \in Seq(S), NEW T, NEW value \in Seq(T), NEW at \in ScanPlace(pattern, value),
         NEW scan \in [ScanPlace(pattern, value) -> BOOLEAN]
  PROVE  ScanStep(pattern, value, scan, at) \in BOOLEAN
<1> DEFINE D == ScanPlace(pattern, value)
<1>1. at.v \in Int /\ Len(value) \in Int
  BY PlaceFields
<1>2. \A to \in D : scan[to] \in BOOLEAN
  OBVIOUS
<1> HIDE DEF D
<1>3. CASE at.v > Len(value)
  <2>1. ScanStep(pattern, value, scan, at) = OnlyWildcardsLeft(pattern, at.p)
    BY <1>1, <1>3, ScanCases
  <2>2. OnlyWildcardsLeft(pattern, at.p) \in BOOLEAN
    BY DEF OnlyWildcardsLeft
  <2> QED
    BY <2>1, <2>2
<1>4. CASE at.v <= Len(value) /\ Matched(pattern, value, at)
  <2>1. AfterMatch(at) \in D
    BY <1>4, MovesInScan DEF D
  <2> QED
    BY <1>1, <1>2, <1>4, <2>1, ScanCases
<1>5. CASE at.v <= Len(value) /\ ~Matched(pattern, value, at) /\ AtWildcard(pattern, at)
  <2>1. AfterWildcard(at) \in D
    BY <1>5, MovesInScan DEF D
  <2> QED
    BY <1>1, <1>2, <1>5, <2>1, ScanCases
<1>6. CASE at.v <= Len(value) /\ ~Matched(pattern, value, at) /\ ~AtWildcard(pattern, at)
  <2>1. ScanStep(pattern, value, scan, at) = (at.star > 0 /\ scan[AfterRetry(at)])
    BY <1>1, <1>6, ScanCases
  <2>2. (at.star > 0 /\ scan[AfterRetry(at)]) \in BOOLEAN
    OBVIOUS
  <2> QED
    BY <2>1, <2>2
<1> QED
  BY <1>1, <1>3, <1>4, <1>5, <1>6

\* A step only asks places that are nearer to the end.
LEMMA StepLocal ==
  ASSUME NEW S, NEW pattern \in Seq(S), NEW T, NEW value \in Seq(T), NEW at \in ScanPlace(pattern, value),
         NEW f, NEW g,
         \A to \in ScanPlace(pattern, value) :
           Rank(pattern, value, to) < Rank(pattern, value, at) => f[to] = g[to]
  PROVE  ScanStep(pattern, value, f, at) = ScanStep(pattern, value, g, at)
<1>1. at.v \in Int /\ Len(value) \in Int
  BY PlaceFields
<1>3. CASE at.v > Len(value)
  BY <1>1, <1>3, ScanCases
<1>4. CASE at.v <= Len(value) /\ Matched(pattern, value, at)
  <2>1. f[AfterMatch(at)] = g[AfterMatch(at)]
    BY <1>4, MovesInScan
  <2> QED
    BY <1>1, <1>4, <2>1, ScanCases
<1>5. CASE at.v <= Len(value) /\ ~Matched(pattern, value, at) /\ AtWildcard(pattern, at)
  <2>1. f[AfterWildcard(at)] = g[AfterWildcard(at)]
    BY <1>5, MovesInScan
  <2> QED
    BY <1>1, <1>5, <2>1, ScanCases
<1>6. CASE at.v <= Len(value) /\ ~Matched(pattern, value, at) /\ ~AtWildcard(pattern, at)
  <2>1. ScanStep(pattern, value, f, at) = (at.star > 0 /\ f[AfterRetry(at)])
    BY <1>1, <1>6, ScanCases
  <2>2. ScanStep(pattern, value, g, at) = (at.star > 0 /\ g[AfterRetry(at)])
    BY <1>1, <1>6, ScanCases
  <2>3. at.star > 0 => f[AfterRetry(at)] = g[AfterRetry(at)]
    BY <1>6, MovesInScan
  <2> QED
    BY <2>1, <2>2, <2>3
<1> QED
  BY <1>1, <1>3, <1>4, <1>5, <1>6

\* The scan has its solution, and the matcher's verdict is its value at the start.
LEMMA ScanRuns ==
  ASSUME NEW S, NEW pattern \in Seq(S), NEW T, NEW value \in Seq(T)
  PROVE  \E scan :
           /\ \A at \in ScanPlace(pattern, value) : scan[at] = ScanStep(pattern, value, scan, at)
           /\ GlobMatches(pattern, value) = scan[[p |-> 1, v |-> 1, star |-> 0, retry |-> 0]]
<1> DEFINE D == ScanPlace(pattern, value)
           V == BOOLEAN
           mu == [at \in D |-> Rank(pattern, value, at)]
           F == [f \in [D -> V] |-> [at \in D |-> ScanStep(pattern, value, f, at)]]
           solves(f) == f = [at \in D |-> ScanStep(pattern, value, f, at)]
           g == CHOOSE f : solves(f)
<1>1. PICK N \in Nat : \A at \in D : Rank(pattern, value, at) \in Nat /\ Rank(pattern, value, at) < N
  BY RankBound
<1>2. mu \in [D -> Nat] /\ \A at \in D : mu[at] < N /\ mu[at] = Rank(pattern, value, at)
  BY <1>1
<1>3. ASSUME NEW f \in [D -> V], NEW at \in D
      PROVE  ScanStep(pattern, value, f, at) \in V
  BY StepTyped
<1>4. F \in [[D -> V] -> [D -> V]]
  BY <1>3
<1>5. \A f \in [D -> V], at \in D : F[f][at] = ScanStep(pattern, value, f, at)
  OBVIOUS
<1>6. \A f, h \in [D -> V], at \in D :
        (\A to \in D : mu[to] < mu[at] => f[to] = h[to]) => F[f][at] = F[h][at]
  <2> SUFFICES ASSUME NEW f \in [D -> V], NEW h \in [D -> V], NEW at \in D,
                      \A to \in D : mu[to] < mu[at] => f[to] = h[to]
               PROVE  F[f][at] = F[h][at]
    OBVIOUS
  <2>1. \A to \in D : Rank(pattern, value, to) < Rank(pattern, value, at) => f[to] = h[to]
    BY <1>2
  <2>2. ScanStep(pattern, value, f, at) = ScanStep(pattern, value, h, at)
    BY <2>1, StepLocal
  <2> QED
    BY <1>5, <2>2
<1>7. V # {}
  OBVIOUS
<1>8. AsksBelow(D, V, F, mu)
  <2> HIDE DEF F, mu, D, V
  <2> QED
    BY <1>2, <1>4, <1>6 DEF AsksBelow
<1>9. PICK f : Solution(D, V, F, f)
  <2> HIDE DEF F, mu, D, V
  <2> QED
    BY <1>2, <1>7, <1>8, RecursionExists
<1>10. solves(f)
  BY <1>9 DEF Solution
<1>11. solves(g)
  <2> HIDE DEF solves
  <2> QED
    BY <1>10
<1>12. GlobMatches(pattern, value) = g[[p |-> 1, v |-> 1, star |-> 0, retry |-> 0]]
  BY MatchesIsScan
<1> HIDE DEF g
<1>13. \A at \in D : g[at] = ScanStep(pattern, value, g, at)
  <2> DEFINE step(at) == ScanStep(pattern, value, g, at)
  <2>1. g = [at \in D |-> step(at)]
    BY <1>11
  <2> HIDE DEF step
  <2>2. \A at \in D : g[at] = step(at)
    BY <2>1
  <2> QED
    BY <2>2 DEF step
<1> QED
  BY <1>12, <1>13
-----------------------------------------------------------------------------
(* What is left to cover *)

\* From how much of the value on what is left of the pattern covers the rest.
LeftToCover(pattern, value, p, next) ==
  IF pattern[p] = "*" THEN {u \in 0 .. Len(value) : \E w \in next : u <= w}
                      ELSE {u \in 0 .. Len(value) - 1 : u + 1 \in next /\ value[u + 1] = pattern[p]}

\* c[p] is from how much of value on the pattern from p covers the rest.
CoversFrom(pattern, value, c) ==
  /\ c \in [1 .. Len(pattern) + 1 -> SUBSET (0 .. Len(value))]
  /\ c[Len(pattern) + 1] = {Len(value)}
  /\ \A p \in 1 .. Len(pattern) : c[p] = LeftToCover(pattern, value, p, c[p + 1])

\* There is such a function: the pattern is read from its end.
LEMMA LeftExists ==
  ASSUME NEW S, NEW pattern \in Seq(S), NEW T, NEW value \in Seq(T)
  PROVE  \E c : CoversFrom(pattern, value, c)
<1> DEFINE m == Len(pattern)
           A == SUBSET (0 .. Len(value))
           start == {Len(value)}
           F == [q \in A \X (1 .. m) |-> LeftToCover(pattern, value, m + 1 - q[2], q[1])]
<1>1. m \in Nat /\ start \in A /\ Len(value) \in Nat
  BY LenProperties
<1> HIDE DEF m, start
<1>2. \A a \in A, p \in Int : LeftToCover(pattern, value, p, a) \in A
  BY <1>1 DEF LeftToCover
<1> HIDE DEF A
<1>3. /\ F \in [A \X (1 .. m) -> A]
      /\ \A a \in A, i \in 1 .. m : F[<<a, i>>] = LeftToCover(pattern, value, m + 1 - i, a)
  <2>1. \A i \in 1 .. m : m + 1 - i \in Int
    BY <1>1
  <2> QED
    BY <1>2, <2>1
<1> HIDE DEF F
<1>4. PICK g : FoldsWith(A, m, F, start, g)
  BY <1>1, <1>3, FoldExists
<1>5. FoldsBy(A, m, F, start, g)
  BY <1>4 DEF FoldsWith, FoldsBy
<1>6. PICK k : RunsWith(A, m, F, start, g[1 .. m], k)
  BY <1>1, <1>3, <1>5, FoldRun
<1> DEFINE c == [p \in 1 .. m + 1 |-> k[m + 1 - p]]
<1>7. c \in [1 .. m + 1 -> A] /\ c[m + 1] = start
  <2>1. \A p \in 1 .. m + 1 : m + 1 - p \in 0 .. m
    BY <1>1
  <2>2. m + 1 \in 1 .. m + 1 /\ m + 1 - (m + 1) = 0
    BY <1>1
  <2> QED
    BY <1>6, <2>1, <2>2 DEF RunsWith
<1>8. ASSUME NEW p \in 1 .. m
      PROVE  c[p] = LeftToCover(pattern, value, p, c[p + 1])
  <2>1. /\ m + 1 - p \in 1 .. m /\ (m + 1 - p) - 1 = m + 1 - (p + 1) /\ p \in 1 .. m + 1 /\ p + 1 \in 1 .. m + 1
        /\ m + 1 - (m + 1 - p) = p /\ m + 1 - (p + 1) \in 0 .. m
    BY <1>1
  <2>2. k[m + 1 - p] = F[<<k[m + 1 - (p + 1)], m + 1 - p>>]
    BY <1>6, <2>1 DEF RunsWith
  <2>3. k[m + 1 - (p + 1)] \in A
    BY <1>6, <2>1 DEF RunsWith
  <2>4. k[m + 1 - p] = LeftToCover(pattern, value, p, k[m + 1 - (p + 1)])
    BY <1>3, <2>1, <2>2, <2>3
  <2> QED
    BY <2>1, <2>4
<1> HIDE DEF c
<1> QED
  BY <1>7, <1>8 DEF CoversFrom, A, m, start

\* The pattern covers the value from the left exactly if it does from the right.
LEMMA CoversBothWays ==
  ASSUME NEW S, NEW pattern \in Seq(S), NEW T, NEW value \in Seq(T),
         NEW k, CoveredBy(pattern, value, k), NEW c, CoversFrom(pattern, value, c)
  PROVE  Len(value) \in k[Len(pattern)] <=> 0 \in c[1]
<1> DEFINE m == Len(pattern)
           n == Len(value)
           Meet(i) == \E u \in k[i] : u \in c[i + 1]
           Q == {i \in Nat : i <= m => (Meet(i) <=> 0 \in c[1])}
<1>0. m \in Nat /\ n \in Nat
  BY LenProperties
<1>1. 0 \in Q
  <2>1. k[0] = {0} /\ 0 + 1 = 1
    BY DEF CoveredBy
  <2> QED
    BY <2>1
<1>2. ASSUME NEW i \in Nat, i + 1 <= m
      PROVE  Meet(i) <=> Meet(i + 1)
  <2>1. /\ i + 1 \in 1 .. m /\ i \in 0 .. m /\ i + 1 \in 0 .. m /\ (i + 1) - 1 = i
        /\ i + 1 \in 1 .. m + 1 /\ (i + 1) + 1 \in 1 .. m + 1
    BY <1>0, <1>2
  <2>2. /\ k[i + 1] = CoveredWith(value, k[i], pattern[i + 1])
        /\ c[i + 1] = LeftToCover(pattern, value, i + 1, c[(i + 1) + 1])
        /\ k[i] \subseteq 0 .. n /\ c[(i + 1) + 1] \subseteq 0 .. n
    BY <2>1 DEF CoveredBy, CoversFrom
  <2> DEFINE a == k[i]
             b == c[(i + 1) + 1]
             x == pattern[i + 1]
  <2>3. /\ Meet(i) <=> \E u \in a : u \in LeftToCover(pattern, value, i + 1, b)
        /\ Meet(i + 1) <=> \E v \in CoveredWith(value, a, x) : v \in b
    BY <2>2
  <2>4. a \subseteq 0 .. n /\ b \subseteq 0 .. n
    BY <2>2
  <2> HIDE DEF a, b, Meet, n
  <2>5. CASE x = "*"
    <3>1. \A u \in a : u \in LeftToCover(pattern, value, i + 1, b) <=> \E w \in b : u <= w
      BY <2>4, <2>5 DEF LeftToCover, n
    <3>2. \A v \in b : v \in CoveredWith(value, a, x) <=> \E u \in a : u <= v
      BY <2>4, <2>5 DEF CoveredWith, n
    <3> HIDE DEF x
    <3> QED
      BY <2>3, <3>1, <3>2
  <2>6. CASE x # "*"
    <3>1. \A u \in a : u \in LeftToCover(pattern, value, i + 1, b) <=> u + 1 \in b /\ value[u + 1] = x
      BY <1>0, <2>4, <2>6 DEF LeftToCover, n
    <3>2. \A v \in b : v \in CoveredWith(value, a, x) <=> v - 1 \in a /\ value[v] = x
      BY <1>0, <2>4, <2>6 DEF CoveredWith, n
    <3> HIDE DEF x
    <3>3. \A u \in a : u + 1 \in Int /\ (u + 1) - 1 = u
      BY <2>4
    <3>4. \A v \in b : v - 1 \in Int /\ (v - 1) + 1 = v
      BY <2>4
    <3> QED
      BY <2>3, <3>1, <3>2, <3>3, <3>4
  <2> QED
    BY <2>5, <2>6
<1>3. ASSUME NEW i \in Nat, i \in Q
      PROVE  i + 1 \in Q
  <2>1. i + 1 \in Nat
    OBVIOUS
  <2>2. ASSUME i + 1 <= m
        PROVE  Meet(i + 1) <=> 0 \in c[1]
    <3>1. i <= m
      BY <1>0, <2>2
    <3>2. Meet(i) <=> 0 \in c[1]
      BY <1>3, <3>1
    <3>3. Meet(i) <=> Meet(i + 1)
      BY <1>2, <2>2
    <3> QED
      BY <3>2, <3>3
  <2> HIDE DEF Meet
  <2> QED
    BY <2>1, <2>2
<1>4. m \in Q
  <2> HIDE DEF Q
  <2> QED
    BY <1>0, <1>1, <1>3, NatSetInduction
<1>5. Meet(m) <=> 0 \in c[1]
  BY <1>0, <1>4
<1>6. c[m + 1] = {n}
  BY DEF CoversFrom
<1> QED
  BY <1>5, <1>6

\* Nothing is left to cover exactly if only wildcards are left of the pattern.
LEMMA EndCovered ==
  ASSUME NEW S, NEW pattern \in Seq(S), NEW T, NEW value \in Seq(T),
         NEW c, CoversFrom(pattern, value, c)
  PROVE  \A p \in 1 .. Len(pattern) + 1 : Len(value) \in c[p] <=> OnlyWildcardsLeft(pattern, p)
<1> DEFINE m == Len(pattern)
           n == Len(value)
           Q == {i \in Nat : i <= m => (n \in c[m + 1 - i] <=> OnlyWildcardsLeft(pattern, m + 1 - i))}
<1>0. m \in Nat /\ n \in Nat
  BY LenProperties
<1>1. 0 \in Q
  <2>1. n \in c[m + 1]
    BY DEF CoversFrom
  <2>2. OnlyWildcardsLeft(pattern, m + 1)
    BY <1>0 DEF OnlyWildcardsLeft
  <2>3. m + 1 - 0 = m + 1
    BY <1>0
  <2> QED
    BY <2>1, <2>2, <2>3
<1>2. ASSUME NEW i \in Nat, i \in Q, i + 1 <= m
      PROVE  n \in c[m + 1 - (i + 1)] <=> OnlyWildcardsLeft(pattern, m + 1 - (i + 1))
  <2> DEFINE p == m + 1 - (i + 1)
  <2>1. p \in 1 .. m /\ p + 1 = m + 1 - i /\ i <= m /\ p + 1 \in 1 .. m + 1
    BY <1>0, <1>2
  <2>2. n \in c[p + 1] <=> OnlyWildcardsLeft(pattern, p + 1)
    BY <1>2, <2>1
  <2>3. c[p] = LeftToCover(pattern, value, p, c[p + 1]) /\ c[p + 1] \subseteq 0 .. n
    BY <2>1 DEF CoversFrom
  <2> HIDE DEF p
  <2>4. n \in c[p] <=> pattern[p] = "*" /\ n \in c[p + 1]
    <3>1. \A w \in c[p + 1] : n <= w <=> w = n
      BY <1>0, <2>3
    <3> QED
      BY <1>0, <2>3, <3>1 DEF LeftToCover
  <2>5. OnlyWildcardsLeft(pattern, p) <=> pattern[p] = "*" /\ OnlyWildcardsLeft(pattern, p + 1)
    <3>1. \A j : j \in p .. m <=> j = p \/ j \in p + 1 .. m
      BY <1>0, <2>1
    <3> QED
      BY <3>1 DEF OnlyWildcardsLeft
  <2> QED
    BY <2>2, <2>4, <2>5 DEF p
<1>3. ASSUME NEW i \in Nat, i \in Q
      PROVE  i + 1 \in Q
  <2>1. i + 1 \in Nat
    OBVIOUS
  <2>2. i + 1 <= m => (n \in c[m + 1 - (i + 1)] <=> OnlyWildcardsLeft(pattern, m + 1 - (i + 1)))
    <3> HIDE DEF Q
    <3> QED
      BY <1>2, <1>3
  <2> QED
    BY <2>1, <2>2
<1>4. Nat \subseteq Q
  <2> HIDE DEF Q
  <2> QED
    BY <1>1, <1>3, NatSetInduction
<1>5. ASSUME NEW p \in 1 .. m + 1
      PROVE  n \in c[p] <=> OnlyWildcardsLeft(pattern, p)
  <2>1. m + 1 - p \in Nat /\ m + 1 - p <= m /\ m + 1 - (m + 1 - p) = p
    BY <1>0
  <2>2. m + 1 - p \in Q
    BY <1>4, <2>1
  <2> QED
    BY <2>1, <2>2
<1> QED
  BY <1>5

\* Symbols that are no wildcards cover as many symbols.
LEMMA SegmentCovers ==
  ASSUME NEW S, NEW pattern \in Seq(S), NEW T, NEW value \in Seq(T),
         NEW c, CoversFrom(pattern, value, c),
         NEW i \in 1 .. Len(pattern) + 1, NEW w \in c[i],
         NEW j \in i .. Len(pattern) + 1, \A t \in i .. j - 1 : pattern[t] # "*"
  PROVE  w + (j - i) \in c[j] /\ w + (j - i) <= Len(value)
<1> DEFINE m == Len(pattern)
           n == Len(value)
           Q == {d \in Nat : i + d <= j => w + d \in c[i + d]}
<1>0. m \in Nat /\ n \in Nat /\ i \in Nat /\ j \in Nat /\ i <= j /\ j <= m + 1 /\ 1 <= i
  <2>1. m \in Nat /\ n \in Nat
    BY LenProperties
  <2> HIDE DEF m
  <2> QED
    BY <2>1 DEF m
<1>1. \A p \in 1 .. m + 1 : c[p] \subseteq 0 .. n
  BY DEF CoversFrom
<1>2. w \in Int
  BY <1>1
<1>3. 0 \in Q
  BY <1>0, <1>2
<1>4. ASSUME NEW d \in Nat, d \in Q, i + (d + 1) <= j
      PROVE  w + (d + 1) \in c[i + (d + 1)]
  <2> DEFINE p == i + d
  <2>1. p \in 1 .. m /\ p \in i .. j - 1 /\ p + 1 = i + (d + 1) /\ p <= j /\ p + 1 \in 1 .. m + 1
    BY <1>0, <1>4
  <2>2. w + d \in c[p] /\ pattern[p] # "*"
    BY <1>4, <2>1
  <2>3. c[p] = LeftToCover(pattern, value, p, c[p + 1])
    BY <2>1 DEF CoversFrom
  <2> HIDE DEF p
  <2>4. (w + d) + 1 \in c[p + 1]
    BY <2>2, <2>3 DEF LeftToCover
  <2>5. (w + d) + 1 = w + (d + 1)
    BY <1>2
  <2> QED
    BY <2>1, <2>4, <2>5
<1>5. ASSUME NEW d \in Nat, d \in Q
      PROVE  d + 1 \in Q
  <2>1. d + 1 \in Nat
    OBVIOUS
  <2>2. i + (d + 1) <= j => w + (d + 1) \in c[i + (d + 1)]
    <3> HIDE DEF Q
    <3> QED
      BY <1>4, <1>5
  <2> QED
    BY <2>1, <2>2
<1>6. Nat \subseteq Q
  <2> HIDE DEF Q
  <2> QED
    BY <1>3, <1>5, NatSetInduction
<1>7. j - i \in Nat /\ i + (j - i) = j
  BY <1>0
<1>8. w + (j - i) \in c[j]
  <2>1. j - i \in Q
    BY <1>6, <1>7
  <2> QED
    BY <1>0, <1>7, <2>1
<1>9. j \in 1 .. m + 1
  BY <1>0
<1> QED
  BY <1>1, <1>8, <1>9
-----------------------------------------------------------------------------
(* The greedy matcher finds what there is to find *)

\* Since the last wildcard was passed, each symbol matched one of the value.
AlignedAt(pattern, p, v, star, retry) ==
  star > 0 => /\ p - star - 1 = v - retry
              /\ \A t \in star + 1 .. p - 1 : pattern[t] # "*"

\* What a scan finds out from a place: whether what is left of the pattern
\* covers what is left of the value, or else what follows the last wildcard
\* covers it from a later place.
FoundFrom(c, p, v, star, retry) ==
  \/ v - 1 \in c[p]
  \/ star > 0 /\ \E w \in c[star + 1] : w >= retry

\* The numbers of a place.
PlaceIn(m, n, p, v, star, retry) ==
  /\ p \in 1 .. m + 1 /\ v \in 1 .. n + 1 /\ star \in 0 .. m /\ retry \in 0 .. n + 1
  /\ star < p /\ retry <= v

\* A cover of what follows the last wildcard, from a place not tried yet, passes
\* through the place the scan has reached in the pattern, at or ahead of that in
\* the value: why no retry of an earlier wildcard is ever needed.
LEMMA RetriesCoverAhead ==
  ASSUME NEW S, NEW pattern \in Seq(S), NEW T, NEW value \in Seq(T),
         NEW c, CoversFrom(pattern, value, c),
         NEW p, NEW v, NEW star, NEW retry,
         PlaceIn(Len(pattern), Len(value), p, v, star, retry), AlignedAt(pattern, p, v, star, retry),
         star > 0, NEW w \in c[star + 1], w >= retry
  PROVE  \E u \in c[p] : u >= v /\ u <= Len(value)
<1>0. Len(pattern) \in Nat /\ Len(value) \in Nat
  BY LenProperties
<1>1. /\ p \in Nat /\ star \in Nat /\ v \in Nat /\ retry \in Nat
      /\ star + 1 \in 1 .. Len(pattern) + 1 /\ p \in star + 1 .. Len(pattern) + 1
  BY <1>0 DEF PlaceIn
<1>2. p - star - 1 = v - retry /\ \A t \in star + 1 .. p - 1 : pattern[t] # "*"
  BY DEF AlignedAt
<1>3. w + (p - (star + 1)) \in c[p] /\ w + (p - (star + 1)) <= Len(value)
  BY <1>1, <1>2, SegmentCovers
<1>4. w \in Int
  BY <1>1 DEF CoversFrom
<1>5. w + (p - (star + 1)) >= v
  BY <1>1, <1>2, <1>4
<1> QED
  BY <1>3, <1>5

\* At the end of the value a scan finds out whether only wildcards are left, and
\* no retry would help.
LEMMA EndFound ==
  ASSUME NEW S, NEW pattern \in Seq(S), NEW T, NEW value \in Seq(T),
         NEW c, CoversFrom(pattern, value, c),
         NEW p, NEW v, NEW star, NEW retry,
         PlaceIn(Len(pattern), Len(value), p, v, star, retry), AlignedAt(pattern, p, v, star, retry),
         v > Len(value)
  PROVE  OnlyWildcardsLeft(pattern, p) <=> FoundFrom(c, p, v, star, retry)
<1>0. Len(value) \in Nat
  BY LenProperties
<1>1. p \in 1 .. Len(pattern) + 1 /\ v - 1 = Len(value) /\ v \in Nat
  BY <1>0 DEF PlaceIn
<1>2. v - 1 \in c[p] <=> OnlyWildcardsLeft(pattern, p)
  BY <1>1, EndCovered
<1>3. ASSUME star > 0, NEW w \in c[star + 1], w >= retry
      PROVE  FALSE
  <2>1. PICK u \in c[p] : u >= v /\ u <= Len(value)
    BY <1>3, RetriesCoverAhead
  <2>2. u \in Int
    BY <1>1 DEF CoversFrom
  <2> QED
    BY <1>0, <1>1, <2>1, <2>2
<1> QED
  BY <1>2, <1>3 DEF FoundFrom

\* A symbol that matches may be taken: were the next one the wrong one, the last
\* wildcard could still take more.
LEMMA MatchFound ==
  ASSUME NEW S, NEW pattern \in Seq(S), NEW T, NEW value \in Seq(T), "*" \notin T,
         NEW c, CoversFrom(pattern, value, c),
         NEW p, NEW v, NEW star, NEW retry,
         PlaceIn(Len(pattern), Len(value), p, v, star, retry), AlignedAt(pattern, p, v, star, retry),
         v <= Len(value), p <= Len(pattern), pattern[p] = value[v]
  PROVE  /\ AlignedAt(pattern, p + 1, v + 1, star, retry)
         /\ FoundFrom(c, p, v, star, retry) <=> FoundFrom(c, p + 1, v + 1, star, retry)
<1>0. Len(pattern) \in Nat /\ Len(value) \in Nat /\ \A i \in 1 .. Len(value) : value[i] \in T
  BY LenProperties, ElementOfSeq
<1>1. /\ p \in 1 .. Len(pattern) /\ v \in 1 .. Len(value) /\ p \in Nat /\ v \in Nat
      /\ star \in Nat /\ retry \in Nat /\ star < p
  BY <1>0 DEF PlaceIn
<1>2. pattern[p] # "*"
  BY <1>0, <1>1
<1>3. AlignedAt(pattern, p + 1, v + 1, star, retry)
  <2> SUFFICES ASSUME star > 0
               PROVE  /\ (p + 1) - star - 1 = (v + 1) - retry
                      /\ \A t \in star + 1 .. (p + 1) - 1 : pattern[t] # "*"
    BY DEF AlignedAt
  <2>1. p - star - 1 = v - retry /\ \A t \in star + 1 .. p - 1 : pattern[t] # "*"
    BY DEF AlignedAt
  <2>2. \A t \in star + 1 .. (p + 1) - 1 : t = p \/ t \in star + 1 .. p - 1
    BY <1>1
  <2> QED
    BY <1>1, <1>2, <2>1, <2>2
<1>4. v - 1 \in c[p] <=> (v + 1) - 1 \in c[p + 1]
  <2>1. c[p] = LeftToCover(pattern, value, p, c[p + 1])
    BY <1>1 DEF CoversFrom
  <2>2. v - 1 \in 0 .. Len(value) - 1 /\ (v - 1) + 1 = v /\ (v + 1) - 1 = v
    BY <1>0, <1>1
  <2> QED
    BY <1>2, <2>1, <2>2 DEF LeftToCover
<1> QED
  BY <1>3, <1>4 DEF FoundFrom

\* Passing a wildcard gives up the one before it, and loses nothing.
LEMMA WildcardFound ==
  ASSUME NEW S, NEW pattern \in Seq(S), NEW T, NEW value \in Seq(T),
         NEW c, CoversFrom(pattern, value, c),
         NEW p, NEW v, NEW star, NEW retry,
         PlaceIn(Len(pattern), Len(value), p, v, star, retry), AlignedAt(pattern, p, v, star, retry),
         v <= Len(value), p <= Len(pattern), pattern[p] = "*"
  PROVE  /\ AlignedAt(pattern, p + 1, v, p, v)
         /\ FoundFrom(c, p, v, star, retry) <=> FoundFrom(c, p + 1, v, p, v)
<1>0. Len(pattern) \in Nat /\ Len(value) \in Nat
  BY LenProperties
<1>1. /\ p \in 1 .. Len(pattern) /\ v \in 1 .. Len(value) /\ p \in Nat /\ v \in Nat
      /\ p + 1 \in 1 .. Len(pattern) + 1 /\ p \in 1 .. Len(pattern) + 1
  BY <1>0 DEF PlaceIn
<1>2. AlignedAt(pattern, p + 1, v, p, v)
  <2>1. (p + 1) - p - 1 = v - v /\ \A t \in p + 1 .. (p + 1) - 1 : FALSE
    BY <1>1
  <2> QED
    BY <2>1 DEF AlignedAt
<1>3. /\ c[p] = LeftToCover(pattern, value, p, c[p + 1])
      /\ c[p + 1] \subseteq 0 .. Len(value) /\ c[p] \subseteq 0 .. Len(value)
  BY <1>1 DEF CoversFrom
<1>4. \A u \in 0 .. Len(value) : u \in c[p] <=> \E w \in c[p + 1] : u <= w
  BY <1>3 DEF LeftToCover
<1>5. v - 1 \in c[p] <=> FoundFrom(c, p + 1, v, p, v)
  <2>1. v - 1 \in 0 .. Len(value)
    BY <1>0, <1>1
  <2>2. \A w \in c[p + 1] : v - 1 <= w <=> w = v - 1 \/ w >= v
    BY <1>1, <1>3
  <2>3. p > 0
    BY <1>1
  <2> QED
    BY <1>4, <2>1, <2>2, <2>3 DEF FoundFrom
<1>6. ASSUME star > 0, NEW w \in c[star + 1], w >= retry
      PROVE  v - 1 \in c[p]
  <2>1. PICK u \in c[p] : u >= v /\ u <= Len(value)
    BY <1>6, RetriesCoverAhead
  <2>2. PICK x \in c[p + 1] : u <= x
    BY <1>3, <1>4, <2>1
  <2>3. v - 1 \in 0 .. Len(value) /\ v - 1 <= x
    BY <1>0, <1>1, <1>3, <2>1, <2>2
  <2> QED
    BY <1>4, <2>2, <2>3
<1> QED
  BY <1>2, <1>5, <1>6 DEF FoundFrom

\* Where nothing matches, the last wildcard must take one symbol more.
LEMMA RetryFound ==
  ASSUME NEW S, NEW pattern \in Seq(S), NEW T, NEW value \in Seq(T),
         NEW c, CoversFrom(pattern, value, c),
         NEW p, NEW v, NEW star, NEW retry,
         PlaceIn(Len(pattern), Len(value), p, v, star, retry), AlignedAt(pattern, p, v, star, retry),
         v <= Len(value),
         ~(p <= Len(pattern) /\ pattern[p] = value[v]), ~(p <= Len(pattern) /\ pattern[p] = "*")
  PROVE  /\ AlignedAt(pattern, star + 1, retry + 1, star, retry + 1)
         /\ FoundFrom(c, p, v, star, retry) <=>
              star > 0 /\ FoundFrom(c, star + 1, retry + 1, star, retry + 1)
<1>0. Len(pattern) \in Nat /\ Len(value) \in Nat
  BY LenProperties
<1>1. /\ p \in 1 .. Len(pattern) + 1 /\ v \in 1 .. Len(value) /\ p \in Nat /\ v \in Nat
      /\ star \in Nat /\ retry \in Nat /\ star + 1 \in 1 .. Len(pattern) + 1
  BY <1>0 DEF PlaceIn
<1>2. AlignedAt(pattern, star + 1, retry + 1, star, retry + 1)
  <2>1. (star + 1) - star - 1 = (retry + 1) - (retry + 1) /\ \A t \in star + 1 .. (star + 1) - 1 : FALSE
    BY <1>1
  <2> QED
    BY <2>1 DEF AlignedAt
<1>3. v - 1 \notin c[p]
  <2>1. CASE p <= Len(pattern)
    <3>1. p \in 1 .. Len(pattern) /\ (v - 1) + 1 = v
      BY <1>1, <2>1
    <3>2. c[p] = LeftToCover(pattern, value, p, c[p + 1])
      BY <3>1 DEF CoversFrom
    <3> QED
      BY <2>1, <3>1, <3>2 DEF LeftToCover
  <2>2. CASE p = Len(pattern) + 1
    <3>1. c[p] = {Len(value)}
      BY <2>2 DEF CoversFrom
    <3> QED
      BY <1>0, <1>1, <3>1
  <2> QED
    BY <1>0, <1>1, <2>1, <2>2
<1>4. \A w \in c[star + 1] : w \in Int
  BY <1>1 DEF CoversFrom
<1>5. \A w \in c[star + 1] : w >= retry <=> w = retry \/ w >= retry + 1
  BY <1>1, <1>4
<1>6. (retry + 1) - 1 = retry
  BY <1>1
<1> QED
  BY <1>2, <1>3, <1>5, <1>6 DEF FoundFrom

\* The same, of a place as a record.
Aligned(pattern, at) == AlignedAt(pattern, at.p, at.v, at.star, at.retry)
Found(c, at) == FoundFrom(c, at.p, at.v, at.star, at.retry)

\* A scan from a place finds what there is to find from it, if the scans from all
\* places with less left do.
LEMMA ScanFinds ==
  ASSUME NEW S, NEW pattern \in Seq(S), NEW T, NEW value \in Seq(T), "*" \notin T,
         NEW c, CoversFrom(pattern, value, c),
         NEW scan, \A at \in ScanPlace(pattern, value) : scan[at] = ScanStep(pattern, value, scan, at),
         NEW at \in ScanPlace(pattern, value), Aligned(pattern, at),
         \A to \in ScanPlace(pattern, value) :
           Rank(pattern, value, to) < Rank(pattern, value, at) /\ Aligned(pattern, to)
             => (scan[to] <=> Found(c, to))
  PROVE  scan[at] <=> Found(c, at)
<1> DEFINE p == at.p
           v == at.v
           star == at.star
           retry == at.retry
<1>1. /\ Len(pattern) \in Nat /\ Len(value) \in Nat
      /\ PlaceIn(Len(pattern), Len(value), p, v, star, retry)
      /\ at = [p |-> p, v |-> v, star |-> star, retry |-> retry]
      /\ at.v \in Int
  BY PlaceFields DEF PlaceIn
<1>2. AlignedAt(pattern, p, v, star, retry) /\ (Found(c, at) <=> FoundFrom(c, p, v, star, retry))
  BY DEF Aligned, Found
<1>3. scan[at] = ScanStep(pattern, value, scan, at)
  OBVIOUS
<1>4. CASE v > Len(value)
  <2>1. scan[at] = OnlyWildcardsLeft(pattern, at.p)
    BY <1>1, <1>3, <1>4, ScanCases
  <2>2. OnlyWildcardsLeft(pattern, p) <=> FoundFrom(c, p, v, star, retry)
    <3> HIDE DEF p, v, star, retry
    <3> QED
      BY <1>1, <1>2, <1>4, EndFound
  <2> QED
    BY <1>2, <2>1, <2>2
<1>5. CASE v <= Len(value) /\ Matched(pattern, value, at)
  <2> DEFINE to == AfterMatch(at)
  <2>1. scan[at] = scan[to]
    BY <1>1, <1>3, <1>5, ScanCases
  <2>2. to \in ScanPlace(pattern, value) /\ Rank(pattern, value, to) < Rank(pattern, value, at)
    BY <1>5, MovesInScan
  <2>3. to.p = p + 1 /\ to.v = v + 1 /\ to.star = star /\ to.retry = retry
    BY <1>1 DEF AfterMatch
  <2>4. p <= Len(pattern) /\ pattern[p] = value[v]
    BY <1>5 DEF Matched
  <2> HIDE DEF to, p, v, star, retry
  <2>5. /\ AlignedAt(pattern, p + 1, v + 1, star, retry)
        /\ FoundFrom(c, p, v, star, retry) <=> FoundFrom(c, p + 1, v + 1, star, retry)
    BY <1>1, <1>2, <1>5, <2>4, MatchFound
  <2>6. Aligned(pattern, to) /\ (Found(c, to) <=> FoundFrom(c, p, v, star, retry))
    BY <2>3, <2>5 DEF Aligned, Found
  <2>7. scan[to] <=> Found(c, to)
    BY <2>2, <2>6
  <2> QED
    BY <1>2, <2>1, <2>6, <2>7
<1>6. CASE v <= Len(value) /\ ~Matched(pattern, value, at) /\ AtWildcard(pattern, at)
  <2> DEFINE to == AfterWildcard(at)
  <2>1. scan[at] = scan[to]
    BY <1>1, <1>3, <1>6, ScanCases
  <2>2. to \in ScanPlace(pattern, value) /\ Rank(pattern, value, to) < Rank(pattern, value, at)
    BY <1>6, MovesInScan
  <2>3. to.p = p + 1 /\ to.v = v /\ to.star = p /\ to.retry = v
    BY <1>1 DEF AfterWildcard
  <2>4. p <= Len(pattern) /\ pattern[p] = "*"
    BY <1>6 DEF AtWildcard
  <2> HIDE DEF to, p, v, star, retry
  <2>5. /\ AlignedAt(pattern, p + 1, v, p, v)
        /\ FoundFrom(c, p, v, star, retry) <=> FoundFrom(c, p + 1, v, p, v)
    BY <1>1, <1>2, <1>6, <2>4, WildcardFound
  <2>6. Aligned(pattern, to) /\ (Found(c, to) <=> FoundFrom(c, p, v, star, retry))
    BY <2>3, <2>5 DEF Aligned, Found
  <2>7. scan[to] <=> Found(c, to)
    BY <2>2, <2>6
  <2> QED
    BY <1>2, <2>1, <2>6, <2>7
<1>7. CASE v <= Len(value) /\ ~Matched(pattern, value, at) /\ ~AtWildcard(pattern, at)
  <2> DEFINE to == AfterRetry(at)
  <2>1. scan[at] = (star > 0 /\ scan[to])
    BY <1>1, <1>3, <1>7, ScanCases
  <2>2. star > 0 => to \in ScanPlace(pattern, value) /\ Rank(pattern, value, to) < Rank(pattern, value, at)
    BY <1>7, MovesInScan
  <2>3. to.p = star + 1 /\ to.v = retry + 1 /\ to.star = star /\ to.retry = retry + 1
    BY <1>1 DEF AfterRetry
  <2>4. ~(p <= Len(pattern) /\ pattern[p] = value[v]) /\ ~(p <= Len(pattern) /\ pattern[p] = "*")
    BY <1>7 DEF Matched, AtWildcard
  <2> HIDE DEF to, p, v, star, retry
  <2>5. /\ AlignedAt(pattern, star + 1, retry + 1, star, retry + 1)
        /\ FoundFrom(c, p, v, star, retry) <=>
             star > 0 /\ FoundFrom(c, star + 1, retry + 1, star, retry + 1)
    BY <1>1, <1>2, <1>7, <2>4, RetryFound
  <2>6. Aligned(pattern, to) /\ (FoundFrom(c, p, v, star, retry) <=> star > 0 /\ Found(c, to))
    BY <2>3, <2>5 DEF Aligned, Found
  <2>7. star > 0 => (scan[to] <=> Found(c, to))
    BY <2>2, <2>6
  <2> QED
    BY <1>2, <2>1, <2>6, <2>7
<1> QED
  BY <1>1, <1>4, <1>5, <1>6, <1>7

\* The matcher, which backs up to the last wildcard only, finds a match exactly
\* if there is one: for every pattern and every value without a "*" of its own.
THEOREM GreedyMatchIsExact ==
  ASSUME NEW S, NEW pattern \in Seq(S), NEW T, NEW value \in Seq(T), "*" \notin T
  PROVE  GlobMatches(pattern, value) <=> Covers(pattern, value)
<1> DEFINE D == ScanPlace(pattern, value)
           start == [p |-> 1, v |-> 1, star |-> 0, retry |-> 0]
<1>1. PICK c : CoversFrom(pattern, value, c)
  BY LeftExists
<1>2. PICK scan : /\ \A at \in D : scan[at] = ScanStep(pattern, value, scan, at)
                  /\ GlobMatches(pattern, value) = scan[start]
  BY ScanRuns
<1>3. PICK N \in Nat : \A at \in D : Rank(pattern, value, at) \in Nat /\ Rank(pattern, value, at) < N
  BY RankBound
<1> DEFINE Exact(at) == Aligned(pattern, at) => (scan[at] <=> Found(c, at))
           Q == {k \in Nat : \A at \in D : Rank(pattern, value, at) < k => Exact(at)}
<1>4. 0 \in Q
  <2>1. \A at \in D : ~(Rank(pattern, value, at) < 0)
    BY <1>3
  <2> QED
    BY <2>1
<1>5. ASSUME NEW k \in Nat, k \in Q
      PROVE  k + 1 \in Q
  <2>1. ASSUME NEW at \in D, Rank(pattern, value, at) < k + 1
        PROVE  Exact(at)
    <3>1. ASSUME NEW to \in D, Rank(pattern, value, to) < Rank(pattern, value, at)
          PROVE  Exact(to)
      <4>1. Rank(pattern, value, to) < k
        <5>1. Rank(pattern, value, to) \in Nat /\ Rank(pattern, value, at) \in Nat
          BY <1>3
        <5> QED
          BY <2>1, <3>1, <5>1
      <4> HIDE DEF Exact
      <4> QED
        BY <1>5, <4>1
    <3>2. ASSUME Aligned(pattern, at)
          PROVE  scan[at] <=> Found(c, at)
      <4>1. \A to \in D : Rank(pattern, value, to) < Rank(pattern, value, at) /\ Aligned(pattern, to)
                            => (scan[to] <=> Found(c, to))
        BY <3>1
      <4> QED
        BY <1>1, <1>2, <3>2, <4>1, ScanFinds
    <3> QED
      BY <3>2
  <2> HIDE DEF Exact
  <2> QED
    BY <2>1
<1>6. \A at \in D : Exact(at)
  <2>1. N \in Q
    <3> HIDE DEF Q
    <3> QED
      BY <1>4, <1>5, NatSetInduction
  <2> HIDE DEF Exact
  <2> QED
    BY <1>3, <2>1
<1>7. Len(pattern) \in Nat /\ Len(value) \in Nat
  BY LenProperties
<1>8. start \in D
  <2>1. /\ 1 \in 1 .. Len(pattern) + 1 /\ 1 \in 1 .. Len(value) + 1
        /\ 0 \in 0 .. Len(pattern) /\ 0 \in 0 .. Len(value) + 1 /\ 0 < 1 /\ 0 <= 1
    BY <1>7
  <2> QED
    BY <2>1, APlace
<1>9. Aligned(pattern, start) /\ (Found(c, start) <=> 0 \in c[1])
  BY DEF Aligned, AlignedAt, Found, FoundFrom
<1>10. scan[start] <=> 0 \in c[1]
  <2> HIDE DEF start, D
  <2> QED
    BY <1>6, <1>8, <1>9
<1>11. PICK k : CoveredBy(pattern, value, k) /\ (Covers(pattern, value) <=> Len(value) \in k[Len(pattern)])
  BY CoversRuns
<1>12. Len(value) \in k[Len(pattern)] <=> 0 \in c[1]
  BY <1>1, <1>11, CoversBothWays
<1> QED
  BY <1>2, <1>10, <1>11, <1>12

\* The equivalence that the run checks over bounded patterns and values.
THEOREM MatcherIsExact == MatcherExact
<1> SUFFICES ASSUME NEW pattern \in SeqOf(Symbols \cup {"*"}, MaxPattern), NEW value \in SeqOf(Symbols, MaxValue)
             PROVE  GlobMatches(pattern, value) <=> Covers(pattern, value)
  BY DEF MatcherExact
<1>1. pattern \in Seq(Symbols \cup {"*"}) /\ value \in Seq(Symbols)
  BY RulesAssumption DEF SeqOf
<1>2. "*" \notin Symbols
  BY RulesAssumption
<1> QED
  BY <1>1, <1>2, GreedyMatchIsExact
-----------------------------------------------------------------------------
(* Collapsing wildcards changes nothing *)

\* X is how much of the value the pattern may cover.
CoversTo(pattern, value, X) == \E k : CoveredBy(pattern, value, k) /\ k[Len(pattern)] = X

\* The empty pattern covers nothing of a value.
LEMMA CoversToEmpty ==
  ASSUME NEW T, NEW value \in Seq(T)
  PROVE  CoversTo(<< >>, value, {0})
<1> DEFINE k == [i \in 0 .. 0 |-> {0}]
<1>1. Len(value) \in Nat /\ Len(<< >>) = 0
  BY LenProperties
<1>2. CoveredBy(<< >>, value, k)
  BY <1>1 DEF CoveredBy
<1>3. k[0] = {0}
  OBVIOUS
<1> HIDE DEF k
<1> QED
  BY <1>1, <1>2, <1>3 DEF CoversTo

\* One symbol more covers what one step of Covers adds.
LEMMA CoversToAppend ==
  ASSUME NEW S, NEW pattern \in Seq(S), NEW x \in S, NEW T, NEW value \in Seq(T),
         NEW X, CoversTo(pattern, value, X)
  PROVE  CoversTo(Append(pattern, x), value, CoveredWith(value, X, x))
<1> DEFINE m == Len(pattern)
           longer == Append(pattern, x)
           Y == CoveredWith(value, X, x)
<1>1. PICK k : CoveredBy(pattern, value, k) /\ k[m] = X
  BY DEF CoversTo
<1>2. /\ m \in Nat /\ Len(value) \in Nat /\ Len(longer) = m + 1
      /\ longer[m + 1] = x /\ \A i \in 1 .. m : longer[i] = pattern[i]
  BY LenProperties, AppendProperties
<1> DEFINE h == [i \in 0 .. m + 1 |-> IF i <= m THEN k[i] ELSE Y]
<1>3. \A i \in 0 .. m : k[i] \in SUBSET (0 .. Len(value))
  BY <1>1 DEF CoveredBy
<1>4. X \in SUBSET (0 .. Len(value))
  BY <1>1, <1>2, <1>3
<1>5. Y \in SUBSET (0 .. Len(value))
  BY <1>2, <1>4 DEF CoveredWith
<1> HIDE DEF Y, longer, m
<1>6. \A i \in 0 .. m + 1 : i <= m => i \in 0 .. m
  BY <1>2
<1>7. h \in [0 .. m + 1 -> SUBSET (0 .. Len(value))]
  BY <1>3, <1>5, <1>6
<1>8. h[0] = {0} /\ h[m + 1] = Y /\ \A i \in 0 .. m : h[i] = k[i]
  <2>1. k[0] = {0}
    BY <1>1 DEF CoveredBy
  <2>2. 0 \in 0 .. m + 1 /\ 0 <= m /\ m + 1 \in 0 .. m + 1 /\ ~(m + 1 <= m)
    BY <1>2
  <2>3. \A i \in 0 .. m : i \in 0 .. m + 1 /\ i <= m
    BY <1>2
  <2> QED
    BY <2>1, <2>2, <2>3
<1> HIDE DEF h
<1>9. ASSUME NEW i \in 1 .. m + 1
      PROVE  h[i] = CoveredWith(value, h[i - 1], longer[i])
  <2>1. CASE i = m + 1
    <3>1. i - 1 = m /\ m \in 0 .. m
      BY <1>2, <2>1
    <3> QED
      BY <1>1, <1>2, <1>8, <2>1, <3>1 DEF Y, m
  <2>2. CASE i # m + 1
    <3>1. i \in 1 .. m /\ i \in 0 .. m /\ i - 1 \in 0 .. m
      BY <1>2, <2>2
    <3>2. k[i] = CoveredWith(value, k[i - 1], pattern[i])
      BY <1>1, <3>1 DEF CoveredBy, m
    <3> QED
      BY <1>2, <1>8, <3>1, <3>2
  <2> QED
    BY <2>1, <2>2
<1>10. CoveredBy(longer, value, h)
  BY <1>2, <1>7, <1>8, <1>9 DEF CoveredBy
<1> QED
  BY <1>2, <1>8, <1>10 DEF CoversTo, longer, Y

\* There is one answer.
LEMMA CoversToOne ==
  ASSUME NEW S, NEW pattern \in Seq(S), NEW value,
         NEW X, CoversTo(pattern, value, X), NEW Y, CoversTo(pattern, value, Y)
  PROVE  X = Y
<1> DEFINE m == Len(pattern)
<1>1. PICK k : CoveredBy(pattern, value, k) /\ k[m] = X
  BY DEF CoversTo
<1>2. PICK h : CoveredBy(pattern, value, h) /\ h[m] = Y
  BY DEF CoversTo
<1> DEFINE Q == {i \in Nat : i <= m => k[i] = h[i]}
<1>3. m \in Nat
  BY LenProperties
<1>4. 0 \in Q
  BY <1>1, <1>2 DEF CoveredBy
<1>5. ASSUME NEW i \in Nat, i \in Q
      PROVE  i + 1 \in Q
  <2>1. ASSUME i + 1 <= m
        PROVE  k[i + 1] = h[i + 1]
    <3>1. i + 1 \in 1 .. m /\ i <= m /\ (i + 1) - 1 = i
      BY <1>3, <2>1
    <3>2. k[i] = h[i]
      BY <1>5, <3>1
    <3>3. k[i + 1] = CoveredWith(value, k[i], pattern[i + 1])
      BY <1>1, <3>1 DEF CoveredBy
    <3>4. h[i + 1] = CoveredWith(value, h[i], pattern[i + 1])
      BY <1>2, <3>1 DEF CoveredBy
    <3> QED
      BY <3>2, <3>3, <3>4
  <2>2. i + 1 \in Nat
    OBVIOUS
  <2> QED
    BY <2>1, <2>2
<1>6. m \in Q
  <2> HIDE DEF Q
  <2> QED
    BY <1>3, <1>4, <1>5, NatSetInduction
<1> QED
  BY <1>1, <1>2, <1>3, <1>6

\* What a pattern that ends in a wildcard covers, another wildcard does not add to.
LEMMA WildcardTwice ==
  ASSUME NEW S, NEW pattern \in Seq(S), pattern # << >>, Last(pattern) = "*",
         NEW T, NEW value \in Seq(T), NEW X, CoversTo(pattern, value, X)
  PROVE  CoveredWith(value, X, "*") = X
<1> DEFINE m == Len(pattern)
<1>1. PICK k : CoveredBy(pattern, value, k) /\ k[m] = X
  BY DEF CoversTo
<1>2. m \in Nat /\ m > 0 /\ pattern[m] = "*" /\ Len(value) \in Nat
  BY LenProperties, EmptySeq DEF Last
<1>3. X = CoveredWith(value, k[m - 1], "*") /\ k[m - 1] \subseteq 0 .. Len(value)
  <2>1. m \in 1 .. m /\ m - 1 \in 0 .. m
    BY <1>2
  <2>2. k[m] = CoveredWith(value, k[m - 1], pattern[m])
    BY <1>1, <2>1 DEF CoveredBy
  <2>3. k[m - 1] \in SUBSET (0 .. Len(value))
    BY <1>1, <2>1 DEF CoveredBy
  <2> HIDE DEF m
  <2> QED
    BY <1>1, <1>2, <2>2, <2>3
<1> DEFINE Y == k[m - 1]
<1>4. \A v : v \in X <=> v \in 0 .. Len(value) /\ \E u \in Y : u <= v
  BY <1>3 DEF CoveredWith
<1>5. Y \subseteq 0 .. Len(value)
  BY <1>3
<1> HIDE DEF Y, m
<1>6. \A v : v \in CoveredWith(value, X, "*") <=> v \in 0 .. Len(value) /\ \E u \in X : u <= v
  BY DEF CoveredWith
<1>7. ASSUME NEW v
      PROVE  v \in CoveredWith(value, X, "*") <=> v \in X
  <2>1. ASSUME v \in CoveredWith(value, X, "*")
        PROVE  v \in X
    <3>1. PICK u \in X : u <= v /\ v \in 0 .. Len(value)
      BY <1>6, <2>1
    <3>2. PICK w \in Y : w <= u /\ u \in 0 .. Len(value)
      BY <1>4, <3>1
    <3>3. w <= v
      BY <1>5, <3>1, <3>2
    <3> QED
      BY <1>4, <3>1, <3>3
  <2>2. ASSUME v \in X
        PROVE  v \in CoveredWith(value, X, "*")
    <3>1. v \in 0 .. Len(value) /\ v <= v
      BY <1>4, <2>2
    <3> QED
      BY <1>6, <2>2, <3>1
  <2> QED
    BY <2>1, <2>2
<1> QED
  BY <1>7

\* A pattern covers a value if it may cover all of it.
LEMMA CoversIfTo ==
  ASSUME NEW S, NEW pattern \in Seq(S), NEW T, NEW value \in Seq(T),
         NEW X, CoversTo(pattern, value, X)
  PROVE  Covers(pattern, value) <=> Len(value) \in X
<1>1. PICK k : CoveredBy(pattern, value, k) /\ (Covers(pattern, value) <=> Len(value) \in k[Len(pattern)])
  BY CoversRuns
<1>2. CoversTo(pattern, value, k[Len(pattern)])
  BY <1>1 DEF CoversTo
<1>3. k[Len(pattern)] = X
  BY <1>2, CoversToOne
<1> QED
  BY <1>1, <1>3

\* A pattern covers something of any value.
LEMMA CoversToExists ==
  ASSUME NEW S, NEW pattern \in Seq(S), NEW T, NEW value \in Seq(T)
  PROVE  \E X : CoversTo(pattern, value, X)
BY CoversRuns DEF CoversTo

\* One step of Collapsed.
KeptWith(kept, symbol) ==
  IF symbol = "*" /\ kept # << >> /\ Last(kept) = "*" THEN kept ELSE Append(kept, symbol)

\* k[i] is what is kept of the first i symbols.
CollapsedBy(S, pattern, k) ==
  /\ k \in [0 .. Len(pattern) -> Seq(S)]
  /\ k[0] = << >>
  /\ \A i \in 1 .. Len(pattern) : k[i] = KeptWith(k[i - 1], pattern[i])

\* Collapsed, a fold over the pattern, takes these steps one by one.
LEMMA CollapsedRuns ==
  ASSUME NEW S, NEW pattern \in Seq(S)
  PROVE  \E k : CollapsedBy(S, pattern, k) /\ Collapsed(pattern) = k[Len(pattern)]
<1> DEFINE n == Len(pattern)
           A == Seq(S)
           next(a, s) == IF s = {} THEN << >> ELSE KeptWith(a[s \ {Max(s)}], pattern[Max(s)])
           solves(a) == a = [s \in SUBSET DOMAIN pattern |-> next(a, s)]
           g == CHOOSE a : solves(a)
           F == [q \in A \X (1 .. n) |-> KeptWith(q[1], pattern[q[2]])]
<1>1. Collapsed(pattern) = g[DOMAIN pattern]
  BY DEF Collapsed, KeptWith, FoldLeft, MapThenFoldSet
<1>2. n \in Nat /\ DOMAIN pattern = 1 .. n /\ << >> \in A /\ \A i \in 1 .. n : pattern[i] \in S
  BY LenProperties, ElementOfSeq
<1> HIDE DEF n
<1>3. \A a \in A, i \in 1 .. n : KeptWith(a, pattern[i]) \in A
  BY <1>2, AppendProperties DEF KeptWith
<1> HIDE DEF A
<1>4. /\ F \in [A \X (1 .. n) -> A]
      /\ \A a \in A, i \in 1 .. n : F[<<a, i>>] = KeptWith(a, pattern[i])
  BY <1>3
<1> HIDE DEF F
<1>5. PICK h : FoldsWith(A, n, F, << >>, h)
  BY <1>2, <1>4, FoldExists
<1>6. \A s \in SUBSET (1 .. n) : s # {} => Max(s) \in 1 .. n
  BY <1>2, GreatestOf
<1>7. solves(h)
  <2>1. \A s \in SUBSET (1 .. n) : h[s] = next(h, s)
    BY <1>4, <1>5, <1>6 DEF FoldsWith
  <2>2. h = [s \in SUBSET (1 .. n) |-> h[s]]
    BY <1>5 DEF FoldsWith
  <2> HIDE DEF next
  <2> QED
    BY <1>2, <2>1, <2>2
<1>8. solves(g)
  <2> HIDE DEF solves
  <2> QED
    BY <1>7
<1>9. \A s \in SUBSET (1 .. n) : g[s] = next(g, s)
  <2> HIDE DEF next, g
  <2> QED
    BY <1>2, <1>8
<1> HIDE DEF g
<1>10. FoldsBy(A, n, F, << >>, g)
  <2>1. g[{}] = << >>
    BY <1>9
  <2>2. ASSUME NEW s \in SUBSET (1 .. n), s # {}, g[s \ {Max(s)}] \in A
        PROVE  g[s] = F[<<g[s \ {Max(s)}], Max(s)>>]
    <3>1. g[s] = KeptWith(g[s \ {Max(s)}], pattern[Max(s)])
      BY <1>9, <2>2
    <3> QED
      BY <1>4, <1>6, <2>2, <3>1
  <2> QED
    BY <2>1, <2>2 DEF FoldsBy
<1>11. PICK k : RunsWith(A, n, F, << >>, g[1 .. n], k)
  BY <1>2, <1>4, <1>10, FoldRun
<1>12. \A i \in 1 .. n : k[i] = KeptWith(k[i - 1], pattern[i])
  <2>1. \A i \in 1 .. n : i - 1 \in 0 .. n
    BY <1>2
  <2> QED
    BY <1>4, <1>11, <2>1 DEF RunsWith
<1> QED
  BY <1>1, <1>2, <1>11, <1>12 DEF RunsWith, CollapsedBy, A, n

\* The places that count, and a "%" with one digit at the end.
Counted(pattern) ==
  {i \in DOMAIN pattern :
     pattern[i] # "*" /\ ~Escape(pattern, i - 1) /\ ~Escape(pattern, i - 2)}

Halved(pattern) ==
  /\ Len(pattern) >= 2
  /\ pattern[Len(pattern) - 1] = "%" /\ pattern[Len(pattern)] \in Hex

\* Neither symbol with a meaning is a digit.
LEMMA NoDigits == "*" \notin Hex /\ "$" \notin Hex /\ "%" \notin Hex /\ "/" \notin Hex
BY DEF Hex

\* The places that count are finitely many.
LEMMA CountedFinite ==
  ASSUME NEW S, NEW pattern \in Seq(S)
  PROVE  /\ IsFiniteSet(Counted(pattern)) /\ Counted(pattern) \subseteq 1 .. Len(pattern)
         /\ Specificity(pattern) = Cardinality(Counted(pattern))
         /\ Specificity(pattern) \in Nat
<1>1. Len(pattern) \in Nat /\ DOMAIN pattern = 1 .. Len(pattern)
  BY LenProperties
<1>2. Counted(pattern) \subseteq 1 .. Len(pattern)
  BY <1>1 DEF Counted
<1>3. IsFiniteSet(Counted(pattern))
  <2>1. IsFiniteSet(1 .. Len(pattern))
    BY <1>1, FS_Interval
  <2> QED
    BY <1>2, <2>1, FS_Subset
<1>4. Specificity(pattern) = Cardinality(Counted(pattern))
  BY DEF Specificity, Counted
<1> QED
  BY <1>2, <1>3, <1>4, FS_CardinalityType

\* A symbol at the end counts for one; but a wildcard for nothing, and the second
\* digit of an escaped octet takes the first one's count with it.
LEMMA SpecificityAppend ==
  ASSUME NEW S, NEW pattern \in Seq(S), NEW x \in S
  PROVE  /\ Specificity(pattern) \in Nat
         /\ Specificity(Append(pattern, x)) =
              IF x = "*" THEN Specificity(pattern)
              ELSE IF Halved(pattern) /\ x \in Hex THEN Specificity(pattern) - 1
                                                   ELSE Specificity(pattern) + 1
<1> DEFINE m == Len(pattern)
           longer == Append(pattern, x)
           old == Counted(pattern)
           new == Counted(longer)
           paired == Halved(pattern) /\ x \in Hex
<1>1. /\ m \in Nat /\ DOMAIN pattern = 1 .. m /\ DOMAIN longer = 1 .. m + 1
      /\ longer[m + 1] = x /\ \A i \in 1 .. m : longer[i] = pattern[i]
      /\ longer \in Seq(S) /\ Len(longer) = m + 1
  BY LenProperties, AppendProperties
<1>2. paired <=> m >= 2 /\ pattern[m - 1] = "%" /\ pattern[m] \in Hex /\ x \in Hex
  BY DEF Halved
<1>3. paired => ~Escape(pattern, m - 2) /\ pattern[m] # "*" /\ m \in 1 .. m
  BY <1>1, <1>2, NoDigits DEF Escape
<1> HIDE DEF m, longer, paired
<1>4. \A i \in Int : Escape(longer, i) <=> Escape(pattern, i) \/ (i = m - 1 /\ paired)
  <2> SUFFICES ASSUME NEW i \in Int
               PROVE  Escape(longer, i) <=> Escape(pattern, i) \/ (i = m - 1 /\ paired)
    OBVIOUS
  <2>1. CASE i = m - 1
    <3>1. i + 2 = m + 1 /\ i + 1 = m /\ m + 1 \notin 1 .. m /\ m + 1 \in 1 .. m + 1
      BY <1>1, <2>1
    <3>2. ~Escape(pattern, i)
      BY <1>1, <3>1 DEF Escape
    <3>3. i \in 1 .. m + 1 <=> m >= 2
      BY <1>1, <2>1
    <3>4. m >= 2 => m - 1 \in 1 .. m /\ m \in 1 .. m
      BY <1>1
    <3> QED
      BY <1>1, <1>2, <2>1, <3>1, <3>2, <3>3, <3>4 DEF Escape
  <2>2. CASE i # m - 1
    <3>1. /\ i \in 1 .. m + 1 /\ i + 2 \in 1 .. m + 1 <=> i \in 1 .. m /\ i + 2 \in 1 .. m
          /\ i \in 1 .. m /\ i + 2 \in 1 .. m => i + 1 \in 1 .. m
      BY <1>1, <2>2
    <3> QED
      BY <1>1, <2>2, <3>1 DEF Escape
  <2> QED
    BY <2>1, <2>2
<1>5. \A i \in 1 .. m + 1 : i - 1 \in Int /\ i - 2 \in Int /\ (i = m + 1 \/ i \in 1 .. m)
  BY <1>1
<1>6. \A i \in 1 .. m : i \in new <=> i \in old /\ ~(paired /\ i = m)
  <2> SUFFICES ASSUME NEW i \in 1 .. m
               PROVE  i \in new <=> i \in old /\ ~(paired /\ i = m)
    OBVIOUS
  <2>1. i \in 1 .. m + 1 /\ i - 1 \in Int /\ i - 2 \in Int /\ i - 2 # m - 1 /\ (i - 1 = m - 1 <=> i = m)
    BY <1>1
  <2>2. i \in new <=> longer[i] # "*" /\ ~Escape(longer, i - 1) /\ ~Escape(longer, i - 2)
    BY <1>1, <2>1 DEF Counted
  <2>3. i \in old <=> pattern[i] # "*" /\ ~Escape(pattern, i - 1) /\ ~Escape(pattern, i - 2)
    BY <1>1 DEF Counted
  <2> HIDE DEF new, old
  <2> QED
    BY <1>1, <1>4, <2>1, <2>2, <2>3
<1>7. m + 1 \in new <=> x # "*" /\ ~paired
  <2>1. m + 1 \in 1 .. m + 1 /\ (m + 1) - 1 = m /\ (m + 1) - 2 = m - 1 /\ m # m - 1
        /\ m \in Int /\ m - 1 \in Int /\ m + 2 \notin 1 .. m /\ (m - 1) + 2 \notin 1 .. m
    BY <1>1
  <2>2. ~Escape(pattern, m) /\ ~Escape(pattern, m - 1)
    BY <1>1, <2>1 DEF Escape
  <2>3. m + 1 \in new <=> longer[m + 1] # "*" /\ ~Escape(longer, m) /\ ~Escape(longer, m - 1)
    BY <1>1, <2>1 DEF Counted
  <2> HIDE DEF new
  <2> QED
    BY <1>1, <1>4, <2>1, <2>2, <2>3
<1>8. paired => m \in old
  <2>1. m - 1 \in Int /\ (m - 1) + 2 \notin 1 .. m
    BY <1>1
  <2>2. ~Escape(pattern, m - 1)
    BY <1>1, <2>1 DEF Escape
  <2> QED
    BY <1>1, <1>3, <2>2 DEF Counted
<1>9. paired => x # "*"
  BY <1>2, NoDigits
<1>10. IsFiniteSet(old) /\ old \subseteq 1 .. m /\ new \subseteq 1 .. m + 1
  BY <1>1, CountedFinite DEF m, longer
<1>11. /\ Specificity(pattern) = Cardinality(old) /\ Specificity(pattern) \in Nat
       /\ Specificity(longer) = Cardinality(new)
  BY <1>1, CountedFinite
<1> HIDE DEF old, new
<1>12. CASE x = "*"
  <2>1. new = old
    BY <1>1, <1>5, <1>6, <1>7, <1>9, <1>10, <1>12
  <2> QED
    BY <1>11, <1>12, <2>1 DEF longer
<1>13. CASE paired
  <2>1. new = old \ {m}
    BY <1>1, <1>5, <1>6, <1>7, <1>10, <1>13
  <2>2. Cardinality(old \ {m}) = Cardinality(old) - 1
    BY <1>8, <1>10, <1>13, FS_RemoveElement
  <2> QED
    BY <1>9, <1>11, <1>13, <2>1, <2>2 DEF longer, paired
<1>14. CASE x # "*" /\ ~paired
  <2>1. m + 1 \notin old
    BY <1>1, <1>10
  <2>2. \A i : i \in new <=> i \in old \/ i = m + 1
    BY <1>5, <1>6, <1>7, <1>10, <1>14
  <2>3. new = old \cup {m + 1}
    BY <2>2
  <2>4. Cardinality(old \cup {m + 1}) = Cardinality(old) + 1
    BY <1>10, <2>1, FS_AddElement
  <2> QED
    BY <1>11, <1>14, <2>3, <2>4 DEF longer, paired
<1> QED
  BY <1>12, <1>13, <1>14

\* The first symbols of a pattern.
LEMMA PrefixGrows ==
  ASSUME NEW S, NEW s \in Seq(S), NEW i \in Nat, i + 1 <= Len(s)
  PROVE  /\ SubSeq(s, 1, i) \in Seq(S) /\ s[i + 1] \in S
         /\ SubSeq(s, 1, i + 1) = Append(SubSeq(s, 1, i), s[i + 1])
<1>1. Len(s) \in Nat /\ \A j \in 1 .. Len(s) : s[j] \in S
  BY LenProperties, ElementOfSeq
<1> DEFINE a == SubSeq(s, 1, i)
           b == SubSeq(s, 1, i + 1)
<1>2. /\ a \in Seq(S) /\ Len(a) = i /\ \A j \in 1 .. i : a[j] = s[j]
      /\ b \in Seq(S) /\ Len(b) = i + 1 /\ \A j \in 1 .. i + 1 : b[j] = s[j]
  BY <1>1, SubSeqProperties
<1> HIDE DEF a, b
<1>3. i + 1 \in 1 .. Len(s)
  BY <1>1
<1>4. /\ Append(a, s[i + 1]) \in Seq(S) /\ Len(Append(a, s[i + 1])) = i + 1
      /\ Append(a, s[i + 1])[i + 1] = s[i + 1] /\ \A j \in 1 .. i : Append(a, s[i + 1])[j] = a[j]
  BY <1>1, <1>2, <1>3, AppendProperties
<1>5. \A j \in 1 .. i + 1 : j = i + 1 \/ j \in 1 .. i
  OBVIOUS
<1>6. b = Append(a, s[i + 1])
  BY <1>2, <1>4, <1>5, SeqEqual
<1> QED
  BY <1>1, <1>2, <1>3, <1>6 DEF a, b

\* Two patterns end alike.
EndAlike(one, other) ==
  /\ one = << >> <=> other = << >>
  /\ one # << >> => Last(one) = Last(other)
  /\ Halved(one) <=> Halved(other)

\* The end of a longer pattern.
LEMMA EndOfAppend ==
  ASSUME NEW S, NEW pattern \in Seq(S), NEW x \in S
  PROVE  /\ Append(pattern, x) # << >> /\ Last(Append(pattern, x)) = x
         /\ Halved(Append(pattern, x)) <=> pattern # << >> /\ Last(pattern) = "%" /\ x \in Hex
<1> DEFINE m == Len(pattern)
           longer == Append(pattern, x)
<1>1. /\ m \in Nat /\ Len(longer) = m + 1 /\ longer[m + 1] = x
      /\ \A i \in 1 .. m : longer[i] = pattern[i]
      /\ longer # << >> /\ (pattern = << >> <=> m = 0)
  BY LenProperties, AppendProperties, EmptySeq
<1>2. Last(longer) = longer[m + 1] /\ Last(pattern) = pattern[m]
  BY <1>1 DEF Last
<1> HIDE DEF m, longer
<1>3. Halved(longer) <=> m + 1 >= 2 /\ longer[(m + 1) - 1] = "%" /\ longer[m + 1] \in Hex
  BY <1>1 DEF Halved
<1>4. (m + 1) - 1 = m /\ (m + 1 >= 2 <=> m # 0) /\ (m # 0 => m \in 1 .. m)
  BY <1>1
<1> QED
  BY <1>1, <1>2, <1>3, <1>4 DEF longer

\* What is kept ends as what is read.
LEMMA KeptEndsAlike ==
  ASSUME NEW S, NEW kept \in Seq(S), NEW pattern \in Seq(S), EndAlike(kept, pattern), NEW x \in S
  PROVE  EndAlike(KeptWith(kept, x), Append(pattern, x))
<1>1. /\ Append(pattern, x) # << >> /\ Last(Append(pattern, x)) = x
      /\ Halved(Append(pattern, x)) <=> pattern # << >> /\ Last(pattern) = "%" /\ x \in Hex
  BY EndOfAppend
<1>2. CASE x = "*" /\ kept # << >> /\ Last(kept) = "*"
  <2>1. KeptWith(kept, x) = kept
    BY <1>2 DEF KeptWith
  <2>2. ~Halved(kept)
    <3>1. Last(kept) = kept[Len(kept)]
      BY DEF Last
    <3> QED
      BY <1>2, <3>1, NoDigits DEF Halved
  <2> QED
    BY <1>1, <1>2, <2>1, <2>2, NoDigits DEF EndAlike
<1>3. CASE ~(x = "*" /\ kept # << >> /\ Last(kept) = "*")
  <2>1. KeptWith(kept, x) = Append(kept, x)
    BY <1>3 DEF KeptWith
  <2>2. /\ Append(kept, x) # << >> /\ Last(Append(kept, x)) = x
        /\ Halved(Append(kept, x)) <=> kept # << >> /\ Last(kept) = "%" /\ x \in Hex
    BY EndOfAppend
  <2> QED
    BY <1>1, <2>1, <2>2 DEF EndAlike
<1> QED
  BY <1>2, <1>3

\* A wildcard that is dropped after another changes neither what is covered nor
\* the specificity.
LEMMA KeptMeansSame ==
  ASSUME NEW S, NEW kept \in Seq(S), NEW x \in S, NEW T, NEW value \in Seq(T),
         NEW X, CoversTo(kept, value, X)
  PROVE  /\ CoversTo(KeptWith(kept, x), value, CoveredWith(value, X, x))
         /\ Specificity(KeptWith(kept, x)) = Specificity(Append(kept, x))
<1>1. CASE x = "*" /\ kept # << >> /\ Last(kept) = "*"
  <2>1. KeptWith(kept, x) = kept
    BY <1>1 DEF KeptWith
  <2>2. CoveredWith(value, X, x) = X
    BY <1>1, WildcardTwice
  <2>3. Specificity(Append(kept, x)) = Specificity(kept)
    BY <1>1, SpecificityAppend
  <2> QED
    BY <2>1, <2>2, <2>3
<1>2. CASE ~(x = "*" /\ kept # << >> /\ Last(kept) = "*")
  <2>1. KeptWith(kept, x) = Append(kept, x)
    BY <1>2 DEF KeptWith
  <2> QED
    BY <2>1, CoversToAppend
<1> QED
  BY <1>1, <1>2

\* Without its repeated wildcards a pattern covers the same, and is as specific.
THEOREM CollapsedMeansSame ==
  ASSUME NEW S, NEW pattern \in Seq(S), NEW T, NEW value \in Seq(T)
  PROVE  /\ Collapsed(pattern) \in Seq(S)
         /\ Specificity(Collapsed(pattern)) = Specificity(pattern)
         /\ \E X : CoversTo(pattern, value, X) /\ CoversTo(Collapsed(pattern), value, X)
<1> DEFINE m == Len(pattern)
<1>1. PICK k : CollapsedBy(S, pattern, k) /\ Collapsed(pattern) = k[m]
  BY CollapsedRuns
<1>2. PICK h : CoveredBy(pattern, value, h)
  BY CoversRuns
<1> DEFINE first(i) == SubSeq(pattern, 1, i)
           Same(i) == /\ k[i] \in Seq(S) /\ first(i) \in Seq(S)
                      /\ Specificity(k[i]) = Specificity(first(i)) /\ EndAlike(k[i], first(i))
                      /\ CoversTo(first(i), value, h[i])
                      /\ CoversTo(k[i], value, h[i])
           Q == {i \in Nat : i <= m => Same(i)}
<1>3. m \in Nat
  BY LenProperties
<1>4. Same(0)
  <2>1. first(0) = << >>
    BY SubSeqEmpty
  <2>2. k[0] = << >> /\ h[0] = {0}
    BY <1>1, <1>2 DEF CollapsedBy, CoveredBy
  <2>3. << >> \in Seq(S)
    OBVIOUS
  <2> HIDE DEF first
  <2> QED
    BY <2>1, <2>2, <2>3, CoversToEmpty DEF EndAlike
<1>5. ASSUME NEW i \in Nat, i + 1 <= m, Same(i)
      PROVE  Same(i + 1)
  <2> DEFINE x == pattern[i + 1]
  <2>1. first(i) \in Seq(S) /\ x \in S /\ first(i + 1) = Append(first(i), x) /\ first(i + 1) \in Seq(S)
    <3>1. first(i) \in Seq(S) /\ x \in S /\ first(i + 1) = Append(first(i), x)
      BY <1>5, PrefixGrows
    <3> HIDE DEF first, x
    <3>2. Append(first(i), x) \in Seq(S)
      BY <3>1, AppendProperties
    <3> QED
      BY <3>1, <3>2
  <2>2. i + 1 \in 1 .. m /\ i + 1 \in 0 .. m /\ (i + 1) - 1 = i
    BY <1>3, <1>5
  <2>3. k[i + 1] = KeptWith(k[i], x) /\ k[i + 1] \in Seq(S)
    BY <1>1, <2>2 DEF CollapsedBy
  <2>4. h[i + 1] = CoveredWith(value, h[i], x)
    BY <1>2, <2>2 DEF CoveredBy
  <2>5. /\ k[i] \in Seq(S) /\ Specificity(k[i]) = Specificity(first(i)) /\ EndAlike(k[i], first(i))
        /\ CoversTo(first(i), value, h[i]) /\ CoversTo(k[i], value, h[i])
    BY <1>5
  <2> HIDE DEF x, first
  <2>6. CoversTo(first(i + 1), value, h[i + 1])
    BY <2>1, <2>4, <2>5, CoversToAppend
  <2>7. CoversTo(k[i + 1], value, h[i + 1]) /\ Specificity(k[i + 1]) = Specificity(Append(k[i], x))
    BY <2>1, <2>3, <2>4, <2>5, KeptMeansSame
  <2>8. Specificity(Append(k[i], x)) = Specificity(Append(first(i), x))
    <3>1. Halved(k[i]) <=> Halved(first(i))
      BY <2>5 DEF EndAlike
    <3> QED
      BY <2>1, <2>5, <3>1, SpecificityAppend
  <2>9. EndAlike(k[i + 1], first(i + 1))
    BY <2>1, <2>3, <2>5, KeptEndsAlike
  <2> QED
    BY <2>1, <2>3, <2>6, <2>7, <2>8, <2>9
<1> HIDE DEF Same
<1>6. 0 \in Q
  BY <1>4
<1>7. ASSUME NEW i \in Nat, i \in Q
      PROVE  i + 1 \in Q
  <2>1. i + 1 \in Nat
    OBVIOUS
  <2>2. ASSUME i + 1 <= m
        PROVE  Same(i + 1)
    <3>1. Same(i)
      BY <1>3, <1>7, <2>2
    <3> QED
      BY <1>5, <2>2, <3>1
  <2> QED
    BY <2>1, <2>2
<1>8. m \in Q
  <2> HIDE DEF Q
  <2> QED
    BY <1>3, <1>6, <1>7, NatSetInduction
<1>9. Same(m)
  BY <1>3, <1>8
<1>10. first(m) = pattern
  BY SubSeqFull
<1> QED
  BY <1>1, <1>9, <1>10 DEF Same
-----------------------------------------------------------------------------
(* The rule of a line, and the longest of the rules *)

\* What a value says is as long as what is left of it without a "$" at the end.
LEMMA LengthOfRead ==
  ASSUME NEW S, NEW value \in Seq(S), value # << >>
  PROVE  Length(value) = Specificity(IF Last(value) = "$" THEN Front(value) ELSE value)
<1> DEFINE m == Len(value)
           counted == {i \in DOMAIN value : /\ value[i] # "*" /\ ~(i = m /\ value[i] = "$")
                                            /\ ~\E d \in {1, 2} : Escape(value, i - d)}
<1>1. m \in Nat /\ m > 0 /\ DOMAIN value = 1 .. m /\ Last(value) = value[m]
  BY LenProperties, EmptySeq DEF Last
<1>2. \A i : (\E d \in {1, 2} : Escape(value, i - d)) <=> Escape(value, i - 1) \/ Escape(value, i - 2)
  OBVIOUS
<1>3. CASE Last(value) = "$"
  <2> DEFINE read == Front(value)
  <2>1. DOMAIN read = 1 .. m - 1 /\ \A i \in 1 .. m - 1 : read[i] = value[i]
    <3>1. read = SubSeq(value, 1, m - 1)
      BY DEF Front
    <3>2. /\ SubSeq(value, 1, m - 1) \in Seq(S) /\ Len(SubSeq(value, 1, m - 1)) = m - 1
          /\ \A i \in 1 .. m - 1 : SubSeq(value, 1, m - 1)[i] = value[i]
      BY <1>1, SubSeqProperties
    <3> HIDE DEF m
    <3> QED
      BY <3>1, <3>2, LenProperties
  <2>2. value[m] = "$"
    BY <1>1, <1>3
  <2> HIDE DEF m, read
  <2>3. \A i \in Int : Escape(value, i) <=> Escape(read, i)
    <3> SUFFICES ASSUME NEW i \in Int
                 PROVE  Escape(value, i) <=> Escape(read, i)
      OBVIOUS
    <3>1. CASE i + 2 = m
      <4>1. m \notin 1 .. m - 1
        BY <1>1
      <4> QED
        BY <1>1, <2>1, <2>2, <3>1, <4>1, NoDigits DEF Escape
    <3>2. CASE i + 2 # m
      <4>1. /\ i \in 1 .. m /\ i + 2 \in 1 .. m <=> i \in 1 .. m - 1 /\ i + 2 \in 1 .. m - 1
            /\ i \in 1 .. m - 1 /\ i + 2 \in 1 .. m - 1 => i + 1 \in 1 .. m - 1
        BY <1>1, <3>2
      <4> QED
        BY <1>1, <2>1, <4>1 DEF Escape
    <3> QED
      BY <3>1, <3>2
  <2>4. \A i : i \in 1 .. m <=> i \in 1 .. m - 1 \/ i = m
    BY <1>1
  <2>5. \A i \in 1 .. m - 1 : i # m /\ i - 1 \in Int /\ i - 2 \in Int
    BY <1>1
  <2>6. \A i : i \in counted <=> i \in Counted(read)
    <3> SUFFICES ASSUME NEW i
                 PROVE  i \in counted <=> i \in Counted(read)
      OBVIOUS
    <3>1. CASE i \in 1 .. m - 1
      BY <1>1, <1>2, <2>1, <2>3, <2>4, <2>5, <3>1 DEF Counted
    <3>2. CASE i \notin 1 .. m - 1
      BY <1>1, <2>1, <2>2, <2>4, <3>2 DEF Counted
    <3> QED
      BY <3>1, <3>2
  <2>7. counted = Counted(read)
    <3> HIDE DEF counted
    <3> QED
      BY <2>6, <2>1, <1>1 DEF counted, Counted
  <2> QED
    BY <1>3, <2>7 DEF Length, Specificity, Counted, read, m
<1>4. CASE Last(value) # "$"
  <2>1. counted = Counted(value)
    BY <1>1, <1>2, <1>4 DEF Counted
  <2> QED
    BY <1>4, <2>1 DEF Length, Specificity, Counted
<1> QED
  BY <1>3, <1>4

\* A value makes a rule exactly if it is one's path.
LEMMA RuleMade ==
  ASSUME NEW S, NEW line, line.value \in Seq(S)
  PROVE  IsRule(line) <=> line.value # << >> /\ Head(line.value) = "/"
<1> DEFINE value == line.value
           m == Len(value)
           anchored == Last(value) = "$"
           read == IF anchored THEN Front(value) ELSE value
<1> SUFFICES ASSUME value # << >>, Head(value) = "/"
             PROVE  Rule(line).specificity > 0
  BY DEF IsRule
<1>1. m \in Nat /\ m > 0 /\ DOMAIN value = 1 .. m /\ Last(value) = value[m] /\ value[1] = "/"
  BY LenProperties, EmptySeq, HeadTailProperties DEF Last
<1>2. read \in Seq(S) /\ 1 \in DOMAIN read /\ read[1] = "/"
  <2>1. CASE anchored
    <3>1. m # 1
      BY <1>1, <2>1
    <3>2. Front(value) = SubSeq(value, 1, m - 1)
      BY DEF Front
    <3>3. /\ SubSeq(value, 1, m - 1) \in Seq(S) /\ Len(SubSeq(value, 1, m - 1)) = m - 1
          /\ \A i \in 1 .. m - 1 : SubSeq(value, 1, m - 1)[i] = value[i]
      BY <1>1, SubSeqProperties
    <3>4. 1 \in 1 .. m - 1
      <4> HIDE DEF m, value
      <4> QED
        BY <1>1, <3>1
    <3>5. DOMAIN SubSeq(value, 1, m - 1) = 1 .. m - 1
      BY <3>3, LenProperties
    <3> HIDE DEF m, value
    <3> QED
      BY <1>1, <2>1, <3>2, <3>3, <3>4, <3>5
  <2>2. CASE ~anchored
    <3>1. 1 \in 1 .. m
      BY <1>1
    <3> QED
      BY <1>1, <2>2, <3>1
  <2> QED
    BY <2>1, <2>2
<1>3. Rule(line).specificity = Specificity(Collapsed(read))
  <2>1. Rule(line) = [allow |-> line.field = "allow", pattern |-> Collapsed(read), anchored |-> anchored,
                      specificity |-> Specificity(Collapsed(read))]
    BY DEF Rule
  <2> HIDE DEF read, anchored
  <2> QED
    BY <2>1
<1> HIDE DEF read
<1>4. Specificity(Collapsed(read)) = Specificity(read)
  <2>1. << >> \in Seq(S)
    OBVIOUS
  <2> QED
    BY <1>2, <2>1, CollapsedMeansSame
<1>5. 1 \in Counted(read)
  <2>1. 1 - 1 \notin DOMAIN read /\ 1 - 2 \notin DOMAIN read
    BY <1>2, LenProperties
  <2> QED
    BY <1>2, <2>1 DEF Counted, Escape
<1>6. Cardinality(Counted(read)) # 0
  BY <1>2, <1>5, CountedFinite, FS_EmptySet
<1> QED
  BY <1>2, <1>3, <1>4, <1>6, CountedFinite

\* A line's rule matches what the line covers, and is as specific as it is long.
LEMMA RuleOfLine ==
  ASSUME NEW line, line.value \in Seq(Octet \cup {"*"}), line.value # << >>, NEW path \in Seq(Octet)
  PROVE  /\ Matches(Rule(line), path) <=> CoversPath(line.value, path)
         /\ Rule(line).specificity = Length(line.value)
         /\ Rule(line).allow = (line.field = "allow")
<1> DEFINE value == line.value
           m == Len(value)
           S == Octet \cup {"*"}
           anchored == Last(value) = "$"
           read == IF anchored THEN Front(value) ELSE value
<1>1. /\ m \in Nat /\ m > 0 /\ DOMAIN value = 1 .. m /\ Last(value) = value[m]
      /\ "*" \notin Octet /\ "*" \in S
  BY LenProperties, EmptySeq, RulesAssumption DEF Last
<1>2. /\ Front(value) \in Seq(S) /\ Len(Front(value)) = m - 1
      /\ DOMAIN Front(value) = 1 .. m - 1
      /\ \A i \in 1 .. m - 1 : Front(value)[i] = value[i]
  <2>1. /\ SubSeq(value, 1, m - 1) \in Seq(S)
        /\ Len(SubSeq(value, 1, m - 1)) = m - 1
        /\ \A i \in 1 .. m - 1 : SubSeq(value, 1, m - 1)[i] = value[i]
    BY <1>1, SubSeqProperties
  <2>2. Front(value) = SubSeq(value, 1, m - 1)
    BY DEF Front
  <2> HIDE DEF m
  <2> QED
    BY <2>1, <2>2, LenProperties
<1>3. read \in Seq(S)
  BY <1>2
<1>4. Rule(line) = [allow |-> line.field = "allow", pattern |-> Collapsed(read), anchored |-> anchored,
                    specificity |-> Specificity(Collapsed(read))]
  BY DEF Rule
<1>5. /\ Rule(line).pattern = Collapsed(read) /\ Rule(line).anchored = anchored
      /\ Rule(line).specificity = Specificity(Collapsed(read))
      /\ Rule(line).allow = (line.field = "allow")
  BY <1>4
<1>6. CoversPath(value, path) <=> IF anchored THEN Covers(read, path) ELSE Covers(Append(read, "*"), path)
  BY DEF CoversPath
<1>7. Matches(Rule(line), path) <=> GlobMatches(IF anchored THEN Collapsed(read)
                                                ELSE Append(Collapsed(read), "*"), path)
  BY <1>5 DEF Matches
<1>8. Length(value) = Specificity(read)
  BY LengthOfRead
<1> HIDE DEF read, anchored
<1>9. PICK X : CoversTo(read, path, X) /\ CoversTo(Collapsed(read), path, X)
  BY <1>3, CollapsedMeansSame
<1>10. Collapsed(read) \in Seq(S) /\ Specificity(Collapsed(read)) = Specificity(read)
  BY <1>3, CollapsedMeansSame
<1> HIDE DEF S
<1>11. GlobMatches(Collapsed(read), path) <=> Covers(read, path)
  <2>1. GlobMatches(Collapsed(read), path) <=> Covers(Collapsed(read), path)
    BY <1>1, <1>10, GreedyMatchIsExact
  <2>2. Covers(Collapsed(read), path) <=> Len(path) \in X
    BY <1>9, <1>10, CoversIfTo
  <2>3. Covers(read, path) <=> Len(path) \in X
    BY <1>3, <1>9, CoversIfTo
  <2> QED
    BY <2>1, <2>2, <2>3
<1>12. GlobMatches(Append(Collapsed(read), "*"), path) <=> Covers(Append(read, "*"), path)
  <2>0. Append(Collapsed(read), "*") \in Seq(S) /\ Append(read, "*") \in Seq(S)
    BY <1>1, <1>3, <1>10, AppendProperties
  <2>1. GlobMatches(Append(Collapsed(read), "*"), path) <=> Covers(Append(Collapsed(read), "*"), path)
    BY <1>1, <2>0, GreedyMatchIsExact
  <2> DEFINE Y == CoveredWith(path, X, "*")
  <2>2. CoversTo(Append(Collapsed(read), "*"), path, Y) /\ CoversTo(Append(read, "*"), path, Y)
    BY <1>1, <1>3, <1>9, <1>10, CoversToAppend
  <2> HIDE DEF Y
  <2>3. Covers(Append(Collapsed(read), "*"), path) <=> Len(path) \in Y
    BY <2>0, <2>2, CoversIfTo
  <2>4. Covers(Append(read, "*"), path) <=> Len(path) \in Y
    BY <2>0, <2>2, CoversIfTo
  <2> QED
    BY <2>1, <2>3, <2>4
<1> QED
  BY <1>5, <1>6, <1>7, <1>8, <1>10, <1>11, <1>12

\* One step of evaluate.
BestWith(best, rule, path) == IF Matches(rule, path) /\ Better(rule, best) THEN rule ELSE best

\* k[i] is the best of the first i rules.
BestBy(R, rules, path, k) ==
  /\ k \in [0 .. Len(rules) -> R \cup {NoRule}]
  /\ k[0] = NoRule
  /\ \A i \in 1 .. Len(rules) : k[i] = BestWith(k[i - 1], rules[i], path)

\* Allows, a fold over the rules, takes these steps one by one.
LEMMA BestRuns ==
  ASSUME NEW R, NEW rules \in Seq(R), NEW path
  PROVE  \E k : BestBy(R, rules, path, k) /\ Allows(rules, path) = k[Len(rules)].allow
<1> DEFINE n == Len(rules)
           A == R \cup {NoRule}
           next(a, s) == IF s = {} THEN NoRule ELSE BestWith(a[s \ {Max(s)}], rules[Max(s)], path)
           solves(a) == a = [s \in SUBSET DOMAIN rules |-> next(a, s)]
           g == CHOOSE a : solves(a)
           F == [q \in A \X (1 .. n) |-> BestWith(q[1], rules[q[2]], path)]
<1>1. Allows(rules, path) = g[DOMAIN rules].allow
  BY DEF Allows, BestWith, FoldLeft, MapThenFoldSet
<1>2. n \in Nat /\ DOMAIN rules = 1 .. n /\ NoRule \in A /\ \A i \in 1 .. n : rules[i] \in R
  BY LenProperties, ElementOfSeq
<1> HIDE DEF n
<1>3. \A a \in A, i \in 1 .. n : BestWith(a, rules[i], path) \in A
  BY <1>2 DEF BestWith
<1> HIDE DEF A
<1>4. /\ F \in [A \X (1 .. n) -> A]
      /\ \A a \in A, i \in 1 .. n : F[<<a, i>>] = BestWith(a, rules[i], path)
  BY <1>3
<1> HIDE DEF F
<1>5. PICK h : FoldsWith(A, n, F, NoRule, h)
  BY <1>2, <1>4, FoldExists
<1>6. \A s \in SUBSET (1 .. n) : s # {} => Max(s) \in 1 .. n
  BY <1>2, GreatestOf
<1>7. solves(h)
  <2>1. \A s \in SUBSET (1 .. n) : h[s] = next(h, s)
    BY <1>4, <1>5, <1>6 DEF FoldsWith
  <2>2. h = [s \in SUBSET (1 .. n) |-> h[s]]
    BY <1>5 DEF FoldsWith
  <2> HIDE DEF next
  <2> QED
    BY <1>2, <2>1, <2>2
<1>8. solves(g)
  <2> HIDE DEF solves
  <2> QED
    BY <1>7
<1>9. \A s \in SUBSET (1 .. n) : g[s] = next(g, s)
  <2> HIDE DEF next, g
  <2> QED
    BY <1>2, <1>8
<1> HIDE DEF g
<1>10. FoldsBy(A, n, F, NoRule, g)
  <2>1. g[{}] = NoRule
    BY <1>9
  <2>2. ASSUME NEW s \in SUBSET (1 .. n), s # {}, g[s \ {Max(s)}] \in A
        PROVE  g[s] = F[<<g[s \ {Max(s)}], Max(s)>>]
    <3>1. g[s] = BestWith(g[s \ {Max(s)}], rules[Max(s)], path)
      BY <1>9, <2>2
    <3> QED
      BY <1>4, <1>6, <2>2, <3>1
  <2> QED
    BY <2>1, <2>2 DEF FoldsBy
<1>11. PICK k : RunsWith(A, n, F, NoRule, g[1 .. n], k)
  BY <1>2, <1>4, <1>10, FoldRun
<1>12. \A i \in 1 .. n : k[i] = BestWith(k[i - 1], rules[i], path)
  <2>1. \A i \in 1 .. n : i - 1 \in 0 .. n
    BY <1>2
  <2> QED
    BY <1>4, <1>11, <2>1 DEF RunsWith
<1> QED
  BY <1>1, <1>2, <1>11, <1>12 DEF RunsWith, BestBy, A, n

\* Of the rules that match, the longest decides, and of those of the same length
\* one that allows: whatever the order they are taken in.
THEOREM LongestRuleWins ==
  ASSUME NEW R, NEW rules \in Seq(R), NEW path,
         \A r \in R : r.specificity \in Nat /\ r.specificity > 0
  PROVE  Allows(rules, path) <=>
           \A i \in DOMAIN rules : Matches(rules[i], path) /\ ~rules[i].allow =>
             \E j \in DOMAIN rules : /\ Matches(rules[j], path) /\ rules[j].allow
                                     /\ rules[j].specificity >= rules[i].specificity
<1> DEFINE n == Len(rules)
<1>1. PICK k : BestBy(R, rules, path, k) /\ Allows(rules, path) = k[n].allow
  BY BestRuns
<1>2. n \in Nat /\ DOMAIN rules = 1 .. n /\ \A i \in 1 .. n : rules[i] \in R
  BY LenProperties, ElementOfSeq
<1> DEFINE Outdone(i) == \A j \in 1 .. i : Matches(rules[j], path) => ~Better(rules[j], k[i])
           Taken(i) == \/ k[i] = NoRule
                       \/ \E j \in 1 .. i : Matches(rules[j], path) /\ k[i] = rules[j]
           Best(i) == Taken(i) /\ Outdone(i)
           Q == {i \in Nat : i <= n => Best(i)}
<1> HIDE DEF n
<1>3. \A r \in R \cup {NoRule} : r.specificity \in Nat
  BY DEF NoRule
<1>4. Best(0)
  BY <1>1 DEF BestBy
<1>5. ASSUME NEW i \in Nat, i + 1 <= n, Best(i)
      PROVE  Best(i + 1)
  <2> DEFINE old == k[i]
             new == k[i + 1]
             rule == rules[i + 1]
  <2>1. i + 1 \in 1 .. n /\ i \in 0 .. n /\ (i + 1) - 1 = i /\ i + 1 \in 0 .. n
    BY <1>2, <1>5
  <2>2. old \in R \cup {NoRule} /\ new \in R \cup {NoRule} /\ rule \in R /\ new = BestWith(old, rule, path)
    BY <1>1, <1>2, <2>1 DEF BestBy, n
  <2>3. \A j \in 1 .. i + 1 : j = i + 1 \/ j \in 1 .. i
    BY <1>5
  <2>4. \A j \in 1 .. i : rules[j] \in R /\ j \in 1 .. i + 1
    BY <1>2, <1>5
  <2>5. Outdone(i) /\ Taken(i) /\ i + 1 \in 1 .. i + 1
    BY <1>5
  <2>6. CASE Matches(rule, path) /\ Better(rule, old)
    <3>1. new = rule
      BY <2>2, <2>6 DEF BestWith
    <3>2. Taken(i + 1)
      BY <2>5, <2>6, <3>1
    <3>3. \A r \in R \cup {NoRule} : Better(r, new) => Better(r, old)
      BY <1>3, <2>2, <2>6, <3>1 DEF Better
    <3>4. ~Better(rule, new)
      BY <1>3, <2>2, <3>1 DEF Better
    <3> QED
      BY <2>3, <2>4, <2>5, <3>2, <3>3, <3>4
  <2>7. CASE ~(Matches(rule, path) /\ Better(rule, old))
    <3>1. new = old
      BY <2>2, <2>7 DEF BestWith
    <3>2. Taken(i + 1)
      BY <2>4, <2>5, <3>1
    <3> QED
      BY <2>3, <2>5, <2>7, <3>1, <3>2
  <2> QED
    BY <2>6, <2>7
<1> HIDE DEF Best
<1>6. 0 \in Q
  BY <1>4
<1>7. ASSUME NEW i \in Nat, i \in Q
      PROVE  i + 1 \in Q
  <2>1. i + 1 \in Nat
    OBVIOUS
  <2>2. ASSUME i + 1 <= n
        PROVE  Best(i + 1)
    <3>1. Best(i)
      BY <1>2, <1>7, <2>2
    <3> QED
      BY <1>5, <2>2, <3>1
  <2> QED
    BY <2>1, <2>2
<1>8. n \in Q
  <2> HIDE DEF Q
  <2> QED
    BY <1>2, <1>6, <1>7, NatSetInduction
<1>9. Taken(n) /\ Outdone(n)
  BY <1>2, <1>8 DEF Best
<1> DEFINE best == k[n]
<1>10. best \in R \cup {NoRule}
  BY <1>1, <1>2 DEF BestBy, n
<1> HIDE DEF best
<1>11. \A j \in 1 .. n : Matches(rules[j], path) => ~Better(rules[j], best)
  BY <1>9 DEF best
<1>12. best = NoRule \/ \E j \in 1 .. n : Matches(rules[j], path) /\ best = rules[j]
  BY <1>9 DEF best
<1>13. CASE best = NoRule
  <2>1. \A r \in R : Better(r, best)
    BY <1>13 DEF Better, NoRule
  <2>2. \A j \in 1 .. n : ~Matches(rules[j], path)
    BY <1>2, <1>11, <2>1
  <2>3. best.allow
    BY <1>13 DEF NoRule
  <2> QED
    BY <1>1, <1>2, <2>2, <2>3 DEF best
<1>14. CASE best # NoRule
  <2>1. PICK b \in 1 .. n : Matches(rules[b], path) /\ best = rules[b]
    BY <1>12, <1>14
  <2>2. CASE best.allow
    <3>1. \A i \in 1 .. n : Matches(rules[i], path) => rules[b].specificity >= rules[i].specificity
      BY <1>2, <1>3, <1>10, <1>11, <2>1 DEF Better
    <3> QED
      BY <1>1, <1>2, <2>1, <2>2, <3>1 DEF best
  <2>3. CASE ~best.allow
    <3>1. \A j \in 1 .. n : Matches(rules[j], path) /\ rules[j].allow =>
                              ~(rules[j].specificity >= rules[b].specificity)
      BY <1>2, <1>3, <1>10, <1>11, <2>1, <2>3 DEF Better
    <3> QED
      BY <1>1, <1>2, <2>1, <2>3, <3>1 DEF best
  <2> QED
    BY <2>2, <2>3
<1> QED
  BY <1>13, <1>14
-----------------------------------------------------------------------------
(* The lines of a file and its groups *)

\* What the parser makes of the lines of a file.
Agent == UNION {line.value : line \in Lines}
RuleOfLines == {Rule(line) : line \in {l \in Lines : MakesRule(l)}}
Group == [agents : SUBSET Agent, rules : Seq(RuleOfLines)]
Open == [groups : Seq(Group), agents : SUBSET Agent, rules : Seq(RuleOfLines)]

\* The parser before the first line, and what it does with a line.
Start == [groups |-> << >>, agents |-> {}, rules |-> << >>]
LineTaken(open, line) == IF line.field = "user-agent" THEN AgentLine(open, line) ELSE RuleLine(open, line)

\* The open group is a sequence of at most one group.
LEMMA GroupTyped ==
  ASSUME NEW open \in Open
  PROVE  GroupOf(open) \in Seq(Group)
<1>1. [agents |-> open.agents, rules |-> open.rules] \in Group
  BY DEF Open, Group
<1> QED
  BY <1>1 DEF GroupOf

\* The lines whose rule the parser takes.
LEMMA LineMakesRule ==
  ASSUME NEW line \in Lines, line.field # "user-agent"
  PROVE  MakesRule(line) <=> line.field \in {"allow", "disallow"} /\ IsRule(line)
<1>1. line.value \in Seq(Octet \cup {"*"})
  BY RulesAssumption
<1> QED
  BY <1>1, RuleMade DEF MakesRule

\* A line leaves groups behind whose rules are rules of lines.
LEMMA LineTyped ==
  ASSUME NEW open \in Open, NEW line \in Lines
  PROVE  LineTaken(open, line) \in Open
<1>1. open.groups \in Seq(Group) /\ open.agents \in SUBSET Agent /\ open.rules \in Seq(RuleOfLines)
  BY DEF Open
<1>2. CASE line.field = "user-agent"
  <2>1. line.value \in SUBSET Agent
    BY DEF Agent
  <2>2. LineTaken(open, line) = AgentLine(open, line)
    BY <1>2 DEF LineTaken
  <2>3. CASE open.rules # << >>
    <3>1. open.groups \o GroupOf(open) \in Seq(Group)
      BY <1>1, GroupTyped, ConcatProperties
    <3>2. AgentLine(open, line) = [groups |-> open.groups \o GroupOf(open), agents |-> line.value, rules |-> << >>]
      BY <2>3 DEF AgentLine
    <3>3. << >> \in Seq(RuleOfLines)
      OBVIOUS
    <3> QED
      BY <2>1, <2>2, <3>1, <3>2, <3>3 DEF Open
  <2>4. CASE open.rules = << >>
    <3>1. AgentLine(open, line) = [open EXCEPT !.agents = @ \cup line.value]
      BY <2>4 DEF AgentLine
    <3>2. open.agents \cup line.value \in SUBSET Agent
      BY <1>1, <2>1
    <3> QED
      BY <2>2, <3>1, <3>2 DEF Open
  <2> QED
    BY <2>3, <2>4
<1>3. CASE line.field # "user-agent"
  <2>1. LineTaken(open, line) = RuleLine(open, line)
    BY <1>3 DEF LineTaken
  <2>2. CASE MakesRule(line)
    <3>1. Rule(line) \in RuleOfLines
      BY <2>2 DEF RuleOfLines
    <3>2. Append(open.rules, Rule(line)) \in Seq(RuleOfLines)
      BY <1>1, <3>1, AppendProperties
    <3>3. RuleLine(open, line) = open \/ RuleLine(open, line) = [open EXCEPT !.rules = Append(open.rules, Rule(line))]
      BY DEF RuleLine
    <3> QED
      BY <2>1, <3>2, <3>3 DEF Open
  <2>3. CASE ~MakesRule(line)
    <3>1. RuleLine(open, line) = open
      BY <1>3, <2>3, LineMakesRule DEF RuleLine
    <3> QED
      BY <2>1, <3>1
  <2> QED
    BY <2>2, <2>3
<1> QED
  BY <1>2, <1>3

\* k[i] is what the parser holds after the first i lines.
ReadBy(file, k) ==
  /\ k \in [0 .. Len(file) -> Open]
  /\ k[0] = Start
  /\ \A i \in 1 .. Len(file) : k[i] = LineTaken(k[i - 1], file[i])

\* Groups, a fold over the lines, takes them one by one.
LEMMA GroupsRun ==
  ASSUME NEW file \in Seq(Lines)
  PROVE  \E k : ReadBy(file, k) /\ Groups(file) = k[Len(file)].groups \o GroupOf(k[Len(file)])
<1> DEFINE n == Len(file)
           A == Open
           next(a, s) == IF s = {} THEN Start ELSE LineTaken(a[s \ {Max(s)}], file[Max(s)])
           solves(a) == a = [s \in SUBSET DOMAIN file |-> next(a, s)]
           g == CHOOSE a : solves(a)
           F == [q \in A \X (1 .. n) |-> LineTaken(q[1], file[q[2]])]
<1>1. Groups(file) = g[DOMAIN file].groups \o GroupOf(g[DOMAIN file])
  BY DEF Groups, Start, LineTaken, FoldLeft, MapThenFoldSet
<1>2. n \in Nat /\ DOMAIN file = 1 .. n /\ Start \in A /\ \A i \in 1 .. n : file[i] \in Lines
  BY LenProperties, ElementOfSeq DEF Start, Open
<1> HIDE DEF n
<1>3. \A a \in A, i \in 1 .. n : LineTaken(a, file[i]) \in A
  BY <1>2, LineTyped
<1> HIDE DEF A
<1>4. /\ F \in [A \X (1 .. n) -> A]
      /\ \A a \in A, i \in 1 .. n : F[<<a, i>>] = LineTaken(a, file[i])
  BY <1>3
<1> HIDE DEF F
<1>5. PICK h : FoldsWith(A, n, F, Start, h)
  BY <1>2, <1>4, FoldExists
<1>6. \A s \in SUBSET (1 .. n) : s # {} => Max(s) \in 1 .. n
  BY <1>2, GreatestOf
<1>7. solves(h)
  <2>1. \A s \in SUBSET (1 .. n) : h[s] = next(h, s)
    BY <1>4, <1>5, <1>6 DEF FoldsWith
  <2>2. h = [s \in SUBSET (1 .. n) |-> h[s]]
    BY <1>5 DEF FoldsWith
  <2> HIDE DEF next
  <2> QED
    BY <1>2, <2>1, <2>2
<1>8. solves(g)
  <2> HIDE DEF solves
  <2> QED
    BY <1>7
<1>9. \A s \in SUBSET (1 .. n) : g[s] = next(g, s)
  <2> HIDE DEF next, g
  <2> QED
    BY <1>2, <1>8
<1> HIDE DEF g
<1>10. FoldsBy(A, n, F, Start, g)
  <2>1. g[{}] = Start
    BY <1>9
  <2>2. ASSUME NEW s \in SUBSET (1 .. n), s # {}, g[s \ {Max(s)}] \in A
        PROVE  g[s] = F[<<g[s \ {Max(s)}], Max(s)>>]
    <3>1. g[s] = LineTaken(g[s \ {Max(s)}], file[Max(s)])
      BY <1>9, <2>2
    <3> QED
      BY <1>4, <1>6, <2>2, <3>1
  <2> QED
    BY <2>1, <2>2 DEF FoldsBy
<1>11. PICK k : RunsWith(A, n, F, Start, g[1 .. n], k)
  BY <1>2, <1>4, <1>10, FoldRun
<1>12. \A i \in 1 .. n : k[i] = LineTaken(k[i - 1], file[i])
  <2>1. \A i \in 1 .. n : i - 1 \in 0 .. n
    BY <1>2
  <2> QED
    BY <1>4, <1>11, <2>1 DEF RunsWith
<1> QED
  BY <1>1, <1>2, <1>11, <1>12 DEF RunsWith, ReadBy, A, n

\* The lines that name the agents of line i.
Gathered(file, i) ==
  {j \in 1 .. i - 1 :
    /\ IsAgentLine(file, j)
    /\ \A k \in j .. i - 1, a \in j .. i - 1 :
         k < a /\ MakesRule(file[k]) => ~IsAgentLine(file, a)}

\* There is a rule in the first i lines, and no user-agent line after it.
Ruled(file, i) ==
  \E k \in 1 .. i : MakesRule(file[k]) /\ \A a \in k .. i : ~IsAgentLine(file, a)

\* A rule puts the file into that state, a user-agent line out of it.
LEMMA RuledNext ==
  ASSUME NEW file, NEW i \in Nat
  PROVE  /\ ~Ruled(file, 0)
         /\ IsAgentLine(file, i + 1) => ~Ruled(file, i + 1)
         /\ MakesRule(file[i + 1]) => Ruled(file, i + 1)
         /\ ~IsAgentLine(file, i + 1) /\ ~MakesRule(file[i + 1]) =>
              (Ruled(file, i + 1) <=> Ruled(file, i))
<1>1. ~Ruled(file, 0)
  BY DEF Ruled
<1>2. \A j : j \in 1 .. i + 1 <=> j \in 1 .. i \/ j = i + 1
  OBVIOUS
<1>3. \A k \in 1 .. i : i + 1 \in k .. i + 1 /\ \A a : a \in k .. i + 1 <=> a \in k .. i \/ a = i + 1
  OBVIOUS
<1>4. \A a : a \in i + 1 .. i + 1 <=> a = i + 1
  OBVIOUS
<1>5. ASSUME IsAgentLine(file, i + 1)
      PROVE  ~Ruled(file, i + 1)
  BY <1>2, <1>3, <1>4, <1>5 DEF Ruled
<1>6. ASSUME MakesRule(file[i + 1])
      PROVE  Ruled(file, i + 1)
  <2>1. ~IsAgentLine(file, i + 1)
    BY <1>6 DEF MakesRule, IsAgentLine
  <2> QED
    BY <1>2, <1>4, <1>6, <2>1 DEF Ruled
<1>7. ASSUME ~IsAgentLine(file, i + 1), ~MakesRule(file[i + 1])
      PROVE  Ruled(file, i + 1) <=> Ruled(file, i)
  BY <1>2, <1>3, <1>7 DEF Ruled
<1> QED
  BY <1>1, <1>5, <1>6, <1>7

\* A user-agent line joins the lines gathered above it, or starts anew if there
\* is a rule between them; another line keeps them.
LEMMA GatheredNext ==
  ASSUME NEW file, NEW i \in Nat, i > 0
  PROVE  /\ Gathered(file, 1) = {}
         /\ ~IsAgentLine(file, i) => Gathered(file, i + 1) = Gathered(file, i)
         /\ IsAgentLine(file, i) /\ ~Ruled(file, i - 1) =>
              Gathered(file, i + 1) = Gathered(file, i) \cup {i}
         /\ IsAgentLine(file, i) /\ Ruled(file, i - 1) => Gathered(file, i + 1) = {i}
<1>1. Gathered(file, 1) = {}
  BY DEF Gathered
<1>2. \A j : j \in 1 .. (i + 1) - 1 <=> j \in 1 .. i - 1 \/ j = i
  OBVIOUS
<1>3. \A j \in 1 .. i : \A k : k \in j .. (i + 1) - 1 <=> k \in j .. i - 1 \/ k = i
  OBVIOUS
<1>4. \A j \in 1 .. i : \A k \in j .. i - 1 : k < i /\ ~(i < k)
  OBVIOUS
<1>5. ~(i < i) /\ i \in 1 .. i /\ i \in 1 .. (i + 1) - 1 /\ \A k : k \in i .. (i + 1) - 1 <=> k = i
  OBVIOUS
<1>6. \A k : IsAgentLine(file, k) => ~MakesRule(file[k])
  BY DEF MakesRule, IsAgentLine
<1>7. ASSUME ~IsAgentLine(file, i), NEW j
      PROVE  j \in Gathered(file, i + 1) <=> j \in Gathered(file, i)
  BY <1>2, <1>3, <1>4, <1>7 DEF Gathered
<1>8. ASSUME IsAgentLine(file, i)
      PROVE  i \in Gathered(file, i + 1)
  BY <1>5, <1>8 DEF Gathered
<1>9. ASSUME IsAgentLine(file, i), ~Ruled(file, i - 1), NEW j
      PROVE  j \in Gathered(file, i + 1) <=> j \in Gathered(file, i) \/ j = i
  <2>1. ASSUME j \in Gathered(file, i)
        PROVE  j \in Gathered(file, i + 1)
    <3>1. j \in 1 .. i - 1 /\ IsAgentLine(file, j)
      BY <2>1 DEF Gathered
    <3>2. ASSUME NEW k \in j .. i - 1
          PROVE  ~MakesRule(file[k])
      <4> SUFFICES ASSUME MakesRule(file[k])
                   PROVE  FALSE
        OBVIOUS
      <4>1. k \in 1 .. i - 1
        BY <3>1
      <4>2. PICK a \in k .. i - 1 : IsAgentLine(file, a)
        BY <1>9, <4>1 DEF Ruled
      <4>3. a # k
        BY <1>6, <4>2
      <4>4. k < a /\ a \in j .. i - 1
        BY <3>1, <4>1, <4>3
      <4> QED
        BY <2>1, <4>2, <4>4 DEF Gathered
    <3>3. \A k \in j .. (i + 1) - 1 : ~MakesRule(file[k])
      BY <1>3, <1>6, <1>9, <3>1, <3>2
    <3> QED
      BY <1>2, <3>1, <3>3 DEF Gathered
  <2>2. ASSUME j \in Gathered(file, i + 1), j # i
        PROVE  j \in Gathered(file, i)
    BY <1>2, <1>3, <2>2 DEF Gathered
  <2> QED
    BY <1>8, <1>9, <2>1, <2>2
<1>10. ASSUME IsAgentLine(file, i), Ruled(file, i - 1), NEW j
       PROVE  j \in Gathered(file, i + 1) <=> j = i
  <2>1. ASSUME j \in Gathered(file, i + 1), j # i
        PROVE  FALSE
    <3>1. j \in 1 .. i - 1 /\ IsAgentLine(file, j)
      BY <1>2, <2>1 DEF Gathered
    <3>2. PICK k \in 1 .. i - 1 : MakesRule(file[k]) /\ \A a \in k .. i - 1 : ~IsAgentLine(file, a)
      BY <1>10 DEF Ruled
    <3>3. j \notin k .. i - 1
      BY <3>1, <3>2
    <3>4. k \in j .. (i + 1) - 1 /\ i \in j .. (i + 1) - 1 /\ k < i
      BY <3>1, <3>2, <3>3
    <3> QED
      BY <1>10, <2>1, <3>2, <3>4 DEF Gathered
  <2> QED
    BY <1>8, <1>10, <2>1
<1> QED
  BY <1>1, <1>7, <1>9, <1>10

\* The agents named for a line, from those named for the line before.
LEMMA NamedNext ==
  ASSUME NEW file, NEW i \in Nat, i > 0
  PROVE  /\ NamedFor(file, 1) = {}
         /\ ~IsAgentLine(file, i) => NamedFor(file, i + 1) = NamedFor(file, i)
         /\ IsAgentLine(file, i) /\ ~Ruled(file, i - 1) =>
              NamedFor(file, i + 1) = NamedFor(file, i) \cup file[i].value
         /\ IsAgentLine(file, i) /\ Ruled(file, i - 1) =>
              NamedFor(file, i + 1) = file[i].value
<1>1. \A n : NamedFor(file, n) = UNION {file[j].value : j \in Gathered(file, n)}
  BY DEF NamedFor, Gathered
<1>2. (UNION {file[j].value : j \in Gathered(file, i) \cup {i}})
        = (UNION {file[j].value : j \in Gathered(file, i)}) \cup file[i].value
  OBVIOUS
<1>3. UNION {file[j].value : j \in {i}} = file[i].value
  OBVIOUS
<1>4. UNION {file[j].value : j \in {}} = {}
  OBVIOUS
<1> DEFINE J(n) == Gathered(file, n)
           N(n) == UNION {file[j].value : j \in J(n)}
<1>5. J(1) = {} => N(1) = {}
  BY <1>4
<1>6. J(i + 1) = J(i) => N(i + 1) = N(i)
  OBVIOUS
<1>7. J(i + 1) = J(i) \cup {i} => N(i + 1) = N(i) \cup file[i].value
  BY <1>2
<1>8. J(i + 1) = {i} => N(i + 1) = file[i].value
  BY <1>3
<1>9. \A n : NamedFor(file, n) = N(n)
  BY <1>1
<1> HIDE DEF N
<1> QED
  BY <1>5, <1>6, <1>7, <1>8, <1>9, GatheredNext

\* Some group of an agent has a rule; some group names an agent.
InGroups(groups, agent, rule) ==
  \E g \in DOMAIN groups : agent \in groups[g].agents /\ rule \in Range(groups[g].rules)
ListedIn(groups, agent) == \E g \in DOMAIN groups : agent \in groups[g].agents

\* Closing the open group adds what it holds to the groups, and nothing else.
LEMMA GroupAdded ==
  ASSUME NEW open \in Open, NEW agent, NEW rule, open.rules # << >> => open.agents # {}
  PROVE  LET more == open.groups \o GroupOf(open)
         IN /\ more \in Seq(Group)
            /\ InGroups(more, agent, rule) <=>
                 \/ InGroups(open.groups, agent, rule)
                 \/ agent \in open.agents /\ rule \in Range(open.rules)
            /\ ListedIn(more, agent) <=> ListedIn(open.groups, agent) \/ agent \in open.agents
<1> DEFINE gs == open.groups
           own == [agents |-> open.agents, rules |-> open.rules]
           more == gs \o GroupOf(open)
           n == Len(gs)
<1>1. gs \in Seq(Group) /\ own \in Group /\ GroupOf(open) \in Seq(Group)
  BY GroupTyped DEF Open, Group
<1>2. more \in Seq(Group) /\ n \in Nat /\ DOMAIN gs = 1 .. n
  BY <1>1, ConcatProperties, LenProperties
<1>3. CASE open.agents = {}
  <2>1. GroupOf(open) = << >>
    BY <1>3 DEF GroupOf
  <2>2. more = gs
    BY <1>1, <2>1, ConcatEmptySeq
  <2> HIDE DEF more, gs
  <2> QED
    BY <1>2, <1>3, <2>2 DEF more, gs
<1>4. CASE open.agents # {}
  <2>1. GroupOf(open) = << own >>
    BY <1>4 DEF GroupOf
  <2>2. /\ Len(more) = n + 1 /\ DOMAIN more = 1 .. n + 1
        /\ more[n + 1] = own /\ \A g \in 1 .. n : more[g] = gs[g]
    <3>1. << own >> \in Seq(Group) /\ Len(<< own >>) = 1 /\ << own >>[1] = own
      BY <1>1
    <3>2. Len(more) = n + 1 /\ \A g \in 1 .. n + 1 : more[g] = IF g <= n THEN gs[g] ELSE << own >>[g - n]
      BY <1>1, <2>1, <3>1, ConcatProperties
    <3> HIDE DEF more, gs, n, own
    <3>3. /\ n + 1 \in 1 .. n + 1 /\ ~(n + 1 <= n) /\ (n + 1) - n = 1
          /\ \A g \in 1 .. n : g \in 1 .. n + 1 /\ g <= n
      BY <1>2
    <3> QED
      BY <1>2, <3>1, <3>2, <3>3, LenProperties
  <2>3. own.agents = open.agents /\ own.rules = open.rules
    OBVIOUS
  <2> HIDE DEF more, gs, n, own
  <2>4. \A g : g \in 1 .. n + 1 <=> g \in 1 .. n \/ g = n + 1
    BY <1>2
  <2>5. InGroups(more, agent, rule) <=>
          InGroups(gs, agent, rule) \/ (agent \in own.agents /\ rule \in Range(own.rules))
    BY <1>2, <2>2, <2>4 DEF InGroups
  <2>6. ListedIn(more, agent) <=> ListedIn(gs, agent) \/ agent \in own.agents
    BY <1>2, <2>2, <2>4 DEF ListedIn
  <2> QED
    BY <1>2, <2>3, <2>5, <2>6 DEF more, gs
<1> QED
  BY <1>3, <1>4

\* What the parser holds after the first i lines of a file.
ReadSoFar(file, i, open) ==
  /\ open.agents = NamedFor(file, i + 1)
  /\ open.rules # << >> => open.agents # {}
  /\ ~Ruled(file, i) => open.rules = << >>
  /\ Ruled(file, i) /\ open.agents # {} => open.rules # << >>
  /\ \A agent, rule :
       InGroups(open.groups, agent, rule) \/ (agent \in open.agents /\ rule \in Range(open.rules)) <=>
         \E j \in 1 .. i : MakesRule(file[j]) /\ agent \in NamedFor(file, j) /\ rule = Rule(file[j])
  /\ \A agent :
       ListedIn(open.groups, agent) \/ agent \in open.agents <=>
         \E j \in 1 .. i : IsAgentLine(file, j) /\ agent \in file[j].value

\* The empty sequence has no elements.
LEMMA EmptyRange == Range(<< >>) = {}
BY DEF Range

\* A user-agent line keeps what the parser holds equal to what the lines say.
LEMMA AgentLineRead ==
  ASSUME NEW file \in Seq(Lines), NEW i \in Nat, i + 1 <= Len(file), NEW open \in Open,
         ReadSoFar(file, i, open), IsAgentLine(file, i + 1)
  PROVE  ReadSoFar(file, i + 1, AgentLine(open, file[i + 1]))
<1> DEFINE line == file[i + 1]
           new == AgentLine(open, line)
<1>1. \A j : j \in 1 .. i + 1 <=> j \in 1 .. i \/ j = i + 1
  OBVIOUS
<1>2. i + 1 \in Nat /\ i + 1 > 0 /\ (i + 1) - 1 = i
  OBVIOUS
<1>3. new.rules = << >>
  <2>1. CASE open.rules # << >>
    BY <2>1 DEF AgentLine
  <2>2. CASE open.rules = << >>
    BY <2>2 DEF AgentLine, Open
  <2> QED
    BY <2>1, <2>2
<1>4. \A agent, rule : InGroups(new.groups, agent, rule) <=>
        InGroups(open.groups, agent, rule) \/ (agent \in open.agents /\ rule \in Range(open.rules))
  <2>1. CASE open.rules # << >>
    <3>1. new.groups = open.groups \o GroupOf(open)
      BY <2>1 DEF AgentLine
    <3> QED
      BY <3>1, GroupAdded DEF ReadSoFar
  <2>2. CASE open.rules = << >>
    <3>1. new.groups = open.groups
      BY <2>2 DEF AgentLine, Open
    <3> HIDE DEF new
    <3> QED
      BY <2>2, <3>1, EmptyRange
  <2> QED
    BY <2>1, <2>2
<1>5. \A agent : ListedIn(new.groups, agent) \/ agent \in new.agents <=>
        ListedIn(open.groups, agent) \/ agent \in open.agents \/ agent \in line.value
  <2>1. CASE open.rules # << >>
    <3>1. new.groups = open.groups \o GroupOf(open) /\ new.agents = line.value
      BY <2>1 DEF AgentLine
    <3>2. \A agent : ListedIn(new.groups, agent) <=> ListedIn(open.groups, agent) \/ agent \in open.agents
      BY <3>1, GroupAdded DEF ReadSoFar
    <3> HIDE DEF new
    <3> QED
      BY <3>1, <3>2
  <2>2. CASE open.rules = << >>
    <3>1. new.groups = open.groups /\ new.agents = open.agents \cup line.value
      BY <2>2 DEF AgentLine, Open
    <3> HIDE DEF new
    <3> QED
      BY <3>1
  <2> QED
    BY <2>1, <2>2
<1>6. new.agents = NamedFor(file, (i + 1) + 1)
  <2>1. CASE open.rules # << >>
    <3>1. new.agents = line.value
      BY <2>1 DEF AgentLine
    <3>2. Ruled(file, i)
      BY <2>1 DEF ReadSoFar
    <3> HIDE DEF new
    <3> QED
      BY <1>2, <3>1, <3>2, NamedNext
  <2>2. CASE open.rules = << >>
    <3>1. new.agents = open.agents \cup line.value
      BY <2>2 DEF AgentLine, Open
    <3>2. open.agents = NamedFor(file, i + 1)
      BY DEF ReadSoFar
    <3> HIDE DEF new
    <3>3. CASE ~Ruled(file, i)
      BY <1>2, <3>1, <3>2, <3>3, NamedNext
    <3>4. CASE Ruled(file, i)
      <4>1. open.agents = {}
        BY <2>2, <3>4 DEF ReadSoFar
      <4> QED
        BY <1>2, <3>1, <3>4, <4>1, NamedNext
    <3> QED
      BY <3>3, <3>4
  <2> QED
    BY <2>1, <2>2
<1> HIDE DEF new, line
<1>7. \A agent, rule :
        InGroups(new.groups, agent, rule) \/ (agent \in new.agents /\ rule \in Range(new.rules)) <=>
          \E j \in 1 .. i + 1 : MakesRule(file[j]) /\ agent \in NamedFor(file, j) /\ rule = Rule(file[j])
  <2>1. \A agent, rule :
          InGroups(open.groups, agent, rule) \/ (agent \in open.agents /\ rule \in Range(open.rules)) <=>
            \E j \in 1 .. i : MakesRule(file[j]) /\ agent \in NamedFor(file, j) /\ rule = Rule(file[j])
    BY DEF ReadSoFar
  <2>2. ~MakesRule(file[i + 1])
    BY DEF MakesRule, IsAgentLine
  <2> QED
    BY <1>1, <1>3, <1>4, <2>1, <2>2, EmptyRange
<1>8. \A agent :
        ListedIn(new.groups, agent) \/ agent \in new.agents <=>
          \E j \in 1 .. i + 1 : IsAgentLine(file, j) /\ agent \in file[j].value
  <2>1. \A agent :
          ListedIn(open.groups, agent) \/ agent \in open.agents <=>
            \E j \in 1 .. i : IsAgentLine(file, j) /\ agent \in file[j].value
    BY DEF ReadSoFar
  <2>2. line = file[i + 1]
    BY DEF line
  <2> QED
    BY <1>1, <1>5, <2>1, <2>2
<1>9. ~Ruled(file, i + 1)
  BY RuledNext
<1> QED
  BY <1>3, <1>6, <1>7, <1>8, <1>9 DEF ReadSoFar, new, line

\* And so does a line with a rule.
LEMMA RuleLineRead ==
  ASSUME NEW file \in Seq(Lines), NEW i \in Nat, i + 1 <= Len(file), NEW open \in Open,
         ReadSoFar(file, i, open), MakesRule(file[i + 1])
  PROVE  ReadSoFar(file, i + 1, RuleLine(open, file[i + 1]))
<1> DEFINE line == file[i + 1]
           new == RuleLine(open, line)
<1>1. \A j : j \in 1 .. i + 1 <=> j \in 1 .. i \/ j = i + 1
  OBVIOUS
<1>2. i + 1 \in Nat /\ i + 1 > 0 /\ (i + 1) - 1 = i /\ ~IsAgentLine(file, i + 1)
  BY DEF MakesRule, IsAgentLine
<1>3. /\ line \in Lines /\ line.field \in {"allow", "disallow"} /\ IsRule(line)
      /\ Rule(line) \in RuleOfLines
  <2>1. i + 1 \in 1 .. Len(file)
    BY LenProperties
  <2>2. line \in Lines
    BY <2>1, ElementOfSeq
  <2>3. MakesRule(line) /\ line.field # "user-agent"
    BY DEF MakesRule
  <2> HIDE DEF line
  <2> QED
    BY <2>2, <2>3, LineMakesRule DEF RuleOfLines
<1> DEFINE rule == Rule(line)
<1>4. open.groups \in Seq(Group) /\ open.rules \in Seq(RuleOfLines)
  BY DEF Open
<1>5. /\ new.groups = open.groups /\ new.agents = open.agents
      /\ new.rules = IF open.agents # {} THEN Append(open.rules, rule) ELSE open.rules
  BY <1>3 DEF RuleLine, Open
<1> HIDE DEF new, line, rule
<1>6. open.agents # {} => new.rules # << >> /\ Range(new.rules) = Range(open.rules) \cup {rule}
  <2>1. rule \in RuleOfLines
    BY <1>3 DEF rule
  <2>2. Append(open.rules, rule) # << >> /\ Range(Append(open.rules, rule)) = Range(open.rules) \cup {rule}
    BY <1>4, <2>1, AppendRange, AppendProperties
  <2> QED
    BY <1>5, <2>2
<1>7. open.agents = {} => new.rules = open.rules /\ open.rules = << >>
  BY <1>5 DEF ReadSoFar
<1>8. new.agents = NamedFor(file, (i + 1) + 1) /\ open.agents = NamedFor(file, i + 1)
  BY <1>2, <1>5, NamedNext DEF ReadSoFar
<1>9. \A agent, r :
        InGroups(new.groups, agent, r) \/ (agent \in new.agents /\ r \in Range(new.rules)) <=>
          \E j \in 1 .. i + 1 : MakesRule(file[j]) /\ agent \in NamedFor(file, j) /\ r = Rule(file[j])
  <2>1. \A agent, r :
          InGroups(open.groups, agent, r) \/ (agent \in open.agents /\ r \in Range(open.rules)) <=>
            \E j \in 1 .. i : MakesRule(file[j]) /\ agent \in NamedFor(file, j) /\ r = Rule(file[j])
    BY DEF ReadSoFar
  <2>2. rule = Rule(file[i + 1])
    BY DEF rule, line
  <2>3. \A agent, r : agent \in open.agents /\ r \in Range(new.rules) <=>
          agent \in open.agents /\ (r \in Range(open.rules) \/ r = rule)
    BY <1>6
  <2> SUFFICES ASSUME NEW agent, NEW r
               PROVE  InGroups(new.groups, agent, r) \/ (agent \in new.agents /\ r \in Range(new.rules)) <=>
                        \E j \in 1 .. i + 1 : MakesRule(file[j]) /\ agent \in NamedFor(file, j) /\ r = Rule(file[j])
    OBVIOUS
  <2> DEFINE Of(j) == MakesRule(file[j]) /\ agent \in NamedFor(file, j) /\ r = Rule(file[j])
  <2>4. (\E j \in 1 .. i + 1 : Of(j)) <=> (\E j \in 1 .. i : Of(j)) \/ Of(i + 1)
    <3> HIDE DEF Of
    <3> QED
      BY <1>1
  <2>5. Of(i + 1) <=> agent \in open.agents /\ r = rule
    BY <1>8, <2>2
  <2>6. (\E j \in 1 .. i : Of(j)) <=>
          InGroups(open.groups, agent, r) \/ (agent \in open.agents /\ r \in Range(open.rules))
    BY <2>1
  <2> HIDE DEF Of
  <2>7. InGroups(new.groups, agent, r) \/ (agent \in new.agents /\ r \in Range(new.rules)) <=>
          InGroups(open.groups, agent, r) \/ (agent \in open.agents /\ (r \in Range(open.rules) \/ r = rule))
    BY <1>5, <2>3
  <2>8. InGroups(new.groups, agent, r) \/ (agent \in new.agents /\ r \in Range(new.rules)) <=>
          \E j \in 1 .. i + 1 : Of(j)
    BY <2>4, <2>5, <2>6, <2>7
  <2> QED
    BY <2>8 DEF Of
<1>10. \A agent :
        ListedIn(new.groups, agent) \/ agent \in new.agents <=>
          \E j \in 1 .. i + 1 : IsAgentLine(file, j) /\ agent \in file[j].value
  <2>1. \A agent :
          ListedIn(open.groups, agent) \/ agent \in open.agents <=>
            \E j \in 1 .. i : IsAgentLine(file, j) /\ agent \in file[j].value
    BY DEF ReadSoFar
  <2> QED
    BY <1>1, <1>2, <1>5, <2>1
<1>11. new.rules # << >> => new.agents # {}
  BY <1>5, <1>7
<1>12. new.agents # {} => new.rules # << >>
  BY <1>5, <1>6
<1>13. Ruled(file, i + 1)
  BY RuledNext
<1> QED
  BY <1>8, <1>9, <1>10, <1>11, <1>12, <1>13 DEF ReadSoFar, new, line

\* And so does a line that is skipped.
LEMMA OtherLineRead ==
  ASSUME NEW file \in Seq(Lines), NEW i \in Nat, i + 1 <= Len(file), NEW open \in Open,
         ReadSoFar(file, i, open), ~IsAgentLine(file, i + 1), ~MakesRule(file[i + 1])
  PROVE  ReadSoFar(file, i + 1, RuleLine(open, file[i + 1]))
<1>1. RuleLine(open, file[i + 1]) = open
  <2>1. i + 1 \in 1 .. Len(file)
    BY LenProperties
  <2>2. file[i + 1] \in Lines /\ file[i + 1].field # "user-agent"
    BY <2>1, ElementOfSeq DEF IsAgentLine
  <2> QED
    BY <2>2, LineMakesRule DEF RuleLine
<1>2. \A j : j \in 1 .. i + 1 <=> j \in 1 .. i \/ j = i + 1
  OBVIOUS
<1>3. NamedFor(file, (i + 1) + 1) = NamedFor(file, i + 1)
  <2>1. i + 1 \in Nat /\ i + 1 > 0
    OBVIOUS
  <2> QED
    BY <2>1, NamedNext
<1>4. Ruled(file, i + 1) <=> Ruled(file, i)
  BY RuledNext
<1>5. /\ open.agents = NamedFor(file, i + 1)
      /\ open.rules # << >> => open.agents # {}
      /\ ~Ruled(file, i) => open.rules = << >>
      /\ Ruled(file, i) /\ open.agents # {} => open.rules # << >>
  BY DEF ReadSoFar
<1>6. \A agent, rule :
        InGroups(open.groups, agent, rule) \/ (agent \in open.agents /\ rule \in Range(open.rules)) <=>
          \E j \in 1 .. i + 1 : MakesRule(file[j]) /\ agent \in NamedFor(file, j) /\ rule = Rule(file[j])
  <2>1. \A agent, rule :
          InGroups(open.groups, agent, rule) \/ (agent \in open.agents /\ rule \in Range(open.rules)) <=>
            \E j \in 1 .. i : MakesRule(file[j]) /\ agent \in NamedFor(file, j) /\ rule = Rule(file[j])
    BY DEF ReadSoFar
  <2> QED
    BY <1>2, <2>1
<1>7. \A agent :
        ListedIn(open.groups, agent) \/ agent \in open.agents <=>
          \E j \in 1 .. i + 1 : IsAgentLine(file, j) /\ agent \in file[j].value
  <2>1. \A agent :
          ListedIn(open.groups, agent) \/ agent \in open.agents <=>
            \E j \in 1 .. i : IsAgentLine(file, j) /\ agent \in file[j].value
    BY DEF ReadSoFar
  <2> QED
    BY <1>2, <2>1
<1> QED
  BY <1>1, <1>3, <1>4, <1>5, <1>6, <1>7 DEF ReadSoFar

\* A parser that has read every line holds, in its groups and in the one it has
\* open, what every line says.
LEMMA FileRead ==
  ASSUME NEW file \in Seq(Lines), NEW k, ReadBy(file, k)
  PROVE  k[Len(file)] \in Open /\ ReadSoFar(file, Len(file), k[Len(file)])
<1> DEFINE n == Len(file)
           Q == {i \in Nat : i <= n => k[i] \in Open /\ ReadSoFar(file, i, k[i])}
<1>1. n \in Nat /\ DOMAIN file = 1 .. n /\ \A i \in 1 .. n : file[i] \in Lines
  BY LenProperties, ElementOfSeq
<1>2. \A i \in 0 .. n : k[i] \in Open
  BY <1>1 DEF ReadBy
<1>3. ReadSoFar(file, 0, Start)
  <2>1. NamedFor(file, 0 + 1) = {}
    <3>1. 1 \in Nat /\ 1 > 0 /\ 0 + 1 = 1
      OBVIOUS
    <3> QED
      BY <3>1, NamedNext
  <2>2. \A agent, rule : ~InGroups(<< >>, agent, rule)
    BY DEF InGroups
  <2>3. \A agent : ~ListedIn(<< >>, agent)
    BY DEF ListedIn
  <2>4. Start.groups = << >> /\ Start.agents = {} /\ Start.rules = << >>
    BY DEF Start
  <2>5. \A j : j \notin 1 .. 0
    OBVIOUS
  <2>6. ~Ruled(file, 0)
    <3>1. 0 \in Nat
      OBVIOUS
    <3> QED
      BY <3>1, RuledNext
  <2> QED
    BY <2>1, <2>2, <2>3, <2>4, <2>5, <2>6 DEF ReadSoFar
<1> HIDE DEF n
<1>4. 0 \in Q
  BY <1>1, <1>2, <1>3 DEF ReadBy, n
<1>5. ASSUME NEW i \in Nat, i \in Q
      PROVE  i + 1 \in Q
  <2>1. CASE i + 1 <= n
    <3>1. i <= n /\ i + 1 \in 1 .. n /\ (i + 1) - 1 = i /\ i + 1 \in 0 .. n
      BY <1>1, <2>1
    <3>2. k[i] \in Open /\ ReadSoFar(file, i, k[i])
      BY <1>5, <3>1
    <3>3. k[i + 1] = LineTaken(k[i], file[i + 1])
      BY <3>1 DEF ReadBy, n
    <3>4. i + 1 <= Len(file)
      BY <2>1 DEF n
    <3>5. ReadSoFar(file, i + 1, k[i + 1])
      <4>1. CASE IsAgentLine(file, i + 1)
        <5>1. k[i + 1] = AgentLine(k[i], file[i + 1])
          BY <3>3, <4>1 DEF LineTaken, IsAgentLine
        <5> QED
          BY <3>2, <3>4, <4>1, <5>1, AgentLineRead
      <4>2. CASE ~IsAgentLine(file, i + 1)
        <5>1. k[i + 1] = RuleLine(k[i], file[i + 1])
          BY <3>3, <4>2 DEF LineTaken, IsAgentLine
        <5> QED
          BY <1>5, <3>2, <3>4, <4>2, <5>1, RuleLineRead, OtherLineRead
      <4> QED
        BY <4>1, <4>2
    <3> QED
      BY <1>2, <3>1, <3>5
  <2> QED
    BY <2>1
<1>6. n \in Q
  <2> HIDE DEF Q
  <2> QED
    BY <1>1, <1>4, <1>5, NatSetInduction
<1> QED
  BY <1>1, <1>6 DEF n

\* Exact product-token groups are merged, and the groups say for every agent
\* what the lines say of it.
THEOREM GroupsSayWhatLinesSay ==
  ASSUME NEW file \in Seq(Lines)
  PROVE  /\ Groups(file) \in Seq(Group)
         /\ \A agent, rule : InGroups(Groups(file), agent, rule) <=>
              \E i \in DOMAIN file : /\ MakesRule(file[i]) /\ agent \in NamedFor(file, i)
                                     /\ rule = Rule(file[i])
         /\ \A agent : ListedIn(Groups(file), agent) <=>
              \E i \in DOMAIN file : IsAgentLine(file, i) /\ agent \in file[i].value
<1>1. PICK k : ReadBy(file, k) /\ Groups(file) = k[Len(file)].groups \o GroupOf(k[Len(file)])
  BY GroupsRun
<1> DEFINE end == k[Len(file)]
<1>2. end \in Open /\ ReadSoFar(file, Len(file), end)
  BY <1>1, FileRead
<1>3. DOMAIN file = 1 .. Len(file)
  BY LenProperties
<1>4. Groups(file) = end.groups \o GroupOf(end)
  BY <1>1
<1> HIDE DEF end
<1>5. end.rules # << >> => end.agents # {}
  BY <1>2 DEF ReadSoFar
<1> DEFINE more == end.groups \o GroupOf(end)
<1>6. /\ more \in Seq(Group)
      /\ \A agent, rule : InGroups(more, agent, rule) <=>
           InGroups(end.groups, agent, rule) \/ (agent \in end.agents /\ rule \in Range(end.rules))
      /\ \A agent : ListedIn(more, agent) <=> ListedIn(end.groups, agent) \/ agent \in end.agents
  BY <1>2, <1>5, GroupAdded
<1> HIDE DEF more
<1>7. Groups(file) = more
  BY <1>4 DEF more
<1>8. \A agent, rule :
        InGroups(end.groups, agent, rule) \/ (agent \in end.agents /\ rule \in Range(end.rules)) <=>
          \E j \in 1 .. Len(file) : MakesRule(file[j]) /\ agent \in NamedFor(file, j) /\ rule = Rule(file[j])
  BY <1>2 DEF ReadSoFar
<1>9. \A agent : ListedIn(end.groups, agent) \/ agent \in end.agents <=>
        \E j \in 1 .. Len(file) : IsAgentLine(file, j) /\ agent \in file[j].value
  BY <1>2 DEF ReadSoFar
<1> QED
  BY <1>3, <1>6, <1>7, <1>8, <1>9
-----------------------------------------------------------------------------
(* The rules of a crawler, and what a file decides *)

\* One step of RulesFor.
RulesWith(rules, group, agent) == IF agent \in group.agents THEN rules \o group.rules ELSE rules

\* k[i] are the rules of the agent in the first i groups.
RulesBy(groups, agent, k) ==
  /\ k \in [0 .. Len(groups) -> Seq(RuleOfLines)]
  /\ k[0] = << >>
  /\ \A i \in 1 .. Len(groups) : k[i] = RulesWith(k[i - 1], groups[i], agent)

\* RulesFor, a fold over the groups, takes them one by one.
LEMMA RulesRun ==
  ASSUME NEW groups \in Seq(Group), NEW agent
  PROVE  \E k : RulesBy(groups, agent, k) /\ RulesFor(groups, agent) = k[Len(groups)]
<1> DEFINE n == Len(groups)
           A == Seq(RuleOfLines)
           next(a, s) == IF s = {} THEN << >> ELSE RulesWith(a[s \ {Max(s)}], groups[Max(s)], agent)
           solves(a) == a = [s \in SUBSET DOMAIN groups |-> next(a, s)]
           g == CHOOSE a : solves(a)
           F == [q \in A \X (1 .. n) |-> RulesWith(q[1], groups[q[2]], agent)]
<1>1. RulesFor(groups, agent) = g[DOMAIN groups]
  BY DEF RulesFor, RulesWith, FoldLeft, MapThenFoldSet
<1>2. n \in Nat /\ DOMAIN groups = 1 .. n /\ << >> \in A /\ \A i \in 1 .. n : groups[i] \in Group
  BY LenProperties, ElementOfSeq
<1> HIDE DEF n
<1>3. \A a \in A, i \in 1 .. n : RulesWith(a, groups[i], agent) \in A
  <2> SUFFICES ASSUME NEW a \in A, NEW i \in 1 .. n
               PROVE  RulesWith(a, groups[i], agent) \in A
    OBVIOUS
  <2>1. groups[i].rules \in A
    BY <1>2 DEF Group
  <2>2. a \o groups[i].rules \in A
    BY <2>1, ConcatProperties
  <2> QED
    BY <2>2 DEF RulesWith
<1> HIDE DEF A
<1>4. /\ F \in [A \X (1 .. n) -> A]
      /\ \A a \in A, i \in 1 .. n : F[<<a, i>>] = RulesWith(a, groups[i], agent)
  BY <1>3
<1> HIDE DEF F
<1>5. PICK h : FoldsWith(A, n, F, << >>, h)
  BY <1>2, <1>4, FoldExists
<1>6. \A s \in SUBSET (1 .. n) : s # {} => Max(s) \in 1 .. n
  BY <1>2, GreatestOf
<1>7. solves(h)
  <2>1. \A s \in SUBSET (1 .. n) : h[s] = next(h, s)
    BY <1>4, <1>5, <1>6 DEF FoldsWith
  <2>2. h = [s \in SUBSET (1 .. n) |-> h[s]]
    BY <1>5 DEF FoldsWith
  <2> HIDE DEF next
  <2> QED
    BY <1>2, <2>1, <2>2
<1>8. solves(g)
  <2> HIDE DEF solves
  <2> QED
    BY <1>7
<1>9. \A s \in SUBSET (1 .. n) : g[s] = next(g, s)
  <2> HIDE DEF next, g
  <2> QED
    BY <1>2, <1>8
<1> HIDE DEF g
<1>10. FoldsBy(A, n, F, << >>, g)
  <2>1. g[{}] = << >>
    BY <1>9
  <2>2. ASSUME NEW s \in SUBSET (1 .. n), s # {}, g[s \ {Max(s)}] \in A
        PROVE  g[s] = F[<<g[s \ {Max(s)}], Max(s)>>]
    <3>1. g[s] = RulesWith(g[s \ {Max(s)}], groups[Max(s)], agent)
      BY <1>9, <2>2
    <3> QED
      BY <1>4, <1>6, <2>2, <3>1
  <2> QED
    BY <2>1, <2>2 DEF FoldsBy
<1>11. PICK k : RunsWith(A, n, F, << >>, g[1 .. n], k)
  BY <1>2, <1>4, <1>10, FoldRun
<1>12. \A i \in 1 .. n : k[i] = RulesWith(k[i - 1], groups[i], agent)
  <2>1. \A i \in 1 .. n : i - 1 \in 0 .. n
    BY <1>2
  <2> QED
    BY <1>4, <1>11, <2>1 DEF RunsWith
<1> QED
  BY <1>1, <1>2, <1>11, <1>12 DEF RunsWith, RulesBy, A, n

\* The rules of every group of an agent are gathered, and no others.
LEMMA RulesGathered ==
  ASSUME NEW groups \in Seq(Group), NEW agent
  PROVE  /\ RulesFor(groups, agent) \in Seq(RuleOfLines)
         /\ \A rule : rule \in Range(RulesFor(groups, agent)) <=> InGroups(groups, agent, rule)
<1>1. PICK k : RulesBy(groups, agent, k) /\ RulesFor(groups, agent) = k[Len(groups)]
  BY RulesRun
<1> DEFINE n == Len(groups)
           Within(i, rule) == \E g \in 1 .. i : agent \in groups[g].agents /\ rule \in Range(groups[g].rules)
           Q == {i \in Nat : i <= n => \A rule : rule \in Range(k[i]) <=> Within(i, rule)}
<1>2. n \in Nat /\ DOMAIN groups = 1 .. n /\ \A i \in 1 .. n : groups[i] \in Group
  BY LenProperties, ElementOfSeq
<1>3. \A i \in 0 .. n : k[i] \in Seq(RuleOfLines)
  BY <1>1, <1>2 DEF RulesBy
<1> HIDE DEF n
<1>4. 0 \in Q
  <2>1. k[0] = << >>
    BY <1>1 DEF RulesBy
  <2>2. \A j : j \notin 1 .. 0
    OBVIOUS
  <2> QED
    BY <2>1, <2>2, EmptyRange
<1>5. ASSUME NEW i \in Nat, i \in Q
      PROVE  i + 1 \in Q
  <2>1. CASE i + 1 <= n
    <3> DEFINE group == groups[i + 1]
               old == k[i]
               new == k[i + 1]
    <3>1. i <= n /\ i + 1 \in 1 .. n /\ (i + 1) - 1 = i /\ i \in 0 .. n
      BY <1>2, <2>1
    <3>2. new = RulesWith(old, group, agent) /\ old \in Seq(RuleOfLines) /\ group.rules \in Seq(RuleOfLines)
      BY <1>1, <1>2, <1>3, <3>1 DEF RulesBy, n, Group
    <3>3. \A j : j \in 1 .. i + 1 <=> j \in 1 .. i \/ j = i + 1
      OBVIOUS
    <3> HIDE DEF old, new, group
    <3>4. \A rule : rule \in Range(new) <=>
            rule \in Range(old) \/ (agent \in group.agents /\ rule \in Range(group.rules))
      <4>1. CASE agent \in group.agents
        <5>1. new = old \o group.rules
          BY <3>2, <4>1 DEF RulesWith
        <5>2. Range(new) = Range(old) \cup Range(group.rules)
          BY <3>2, <5>1, RangeConcatenation
        <5> QED
          BY <4>1, <5>2
      <4>2. CASE agent \notin group.agents
        <5>1. new = old
          BY <3>2, <4>2 DEF RulesWith
        <5> QED
          BY <4>2, <5>1
      <4> QED
        BY <4>1, <4>2
    <3>5. \A rule : rule \in Range(old) <=> Within(i, rule)
      BY <1>5, <3>1 DEF old
    <3>6. \A rule : Within(i + 1, rule) <=>
            Within(i, rule) \/ (agent \in group.agents /\ rule \in Range(group.rules))
      BY <3>3 DEF group
    <3> HIDE DEF Within
    <3>7. \A rule : rule \in Range(new) <=> Within(i + 1, rule)
      BY <3>4, <3>5, <3>6
    <3> QED
      BY <3>7 DEF new
  <2> QED
    BY <2>1
<1>6. n \in Q
  <2> HIDE DEF Q
  <2> QED
    BY <1>2, <1>4, <1>5, NatSetInduction
<1>7. n \in 0 .. n
  BY <1>2
<1> QED
  BY <1>1, <1>2, <1>3, <1>6, <1>7 DEF n, InGroups

\* The agent whose rules are applied.
LEMMA AgentSelected ==
  ASSUME NEW file \in Seq(Lines)
  PROVE  SelectedAgent(Groups(file)) = IF HasGroup(file) THEN Product ELSE "*"
<1>1. ListedIn(Groups(file), Product) <=> HasGroup(file)
  BY GroupsSayWhatLinesSay DEF HasGroup
<1> QED
  BY <1>1 DEF SelectedAgent, ListedIn

\* The rules of a file for a crawler are those of the lines that name it, or
\* else of those that name every crawler.
LEMMA RulesParsed ==
  ASSUME NEW file \in Seq(Lines)
  PROVE  /\ ParsedRules(file) \in Seq(RuleOfLines)
         /\ \A rule : rule \in Range(ParsedRules(file)) <=>
              \E i \in DOMAIN file :
                /\ MakesRule(file[i])
                /\ (IF HasGroup(file) THEN Product ELSE "*") \in NamedFor(file, i)
                /\ rule = Rule(file[i])
<1> DEFINE agent == IF HasGroup(file) THEN Product ELSE "*"
<1>1. Groups(file) \in Seq(Group)
  BY GroupsSayWhatLinesSay
<1>2. ParsedRules(file) = RulesFor(Groups(file), agent)
  BY AgentSelected DEF ParsedRules
<1> HIDE DEF agent
<1>3. /\ RulesFor(Groups(file), agent) \in Seq(RuleOfLines)
      /\ \A rule : rule \in Range(RulesFor(Groups(file), agent)) <=> InGroups(Groups(file), agent, rule)
  BY <1>1, RulesGathered
<1>4. \A rule : InGroups(Groups(file), agent, rule) <=>
        \E i \in DOMAIN file : MakesRule(file[i]) /\ agent \in NamedFor(file, i) /\ rule = Rule(file[i])
  BY GroupsSayWhatLinesSay
<1> QED
  BY <1>2, <1>3, <1>4 DEF agent

\* What a file decides, of every file and path.
THEOREM FileDecides ==
  ASSUME NEW file \in Seq(Lines), NEW path \in Seq(Octet)
  PROVE  Allows(ParsedRules(file), path) <=> AllowsAsWritten(file, path)
<1> DEFINE rules == ParsedRules(file)
           agent == IF HasGroup(file) THEN Product ELSE "*"
           For(i) == MakesRule(file[i]) /\ agent \in NamedFor(file, i)
           applying == {i \in DOMAIN file : For(i) /\ CoversPath(file[i].value, path)}
<1>1. rules \in Seq(RuleOfLines)
  BY RulesParsed
<1>2. \A i \in DOMAIN file : file[i] \in Lines
  BY LenProperties, ElementOfSeq
<1>3. \A line \in Lines : MakesRule(line) =>
        /\ line.value \in Seq(Octet \cup {"*"}) /\ line.value # << >>
        /\ Rule(line).specificity > 0
        /\ line.field = "allow" <=> line.field # "disallow"
  <2> SUFFICES ASSUME NEW line \in Lines, MakesRule(line)
               PROVE  /\ line.value \in Seq(Octet \cup {"*"}) /\ line.value # << >>
                      /\ Rule(line).specificity > 0
                      /\ line.field = "allow" <=> line.field # "disallow"
    OBVIOUS
  <2>1. line.field \in {"allow", "disallow"} /\ line.value # << >>
    BY DEF MakesRule
  <2>2. line.field # "user-agent"
    BY <2>1
  <2>3. line.value \in Seq(Octet \cup {"*"}) /\ IsRule(line)
    BY <2>2, RulesAssumption, LineMakesRule
  <2> QED
    BY <2>1, <2>3 DEF IsRule
<1>4. \A line \in Lines : MakesRule(line) =>
        /\ Matches(Rule(line), path) <=> CoversPath(line.value, path)
        /\ Rule(line).specificity = Length(line.value)
        /\ Rule(line).allow <=> line.field # "disallow"
  <2> SUFFICES ASSUME NEW line \in Lines, MakesRule(line)
               PROVE  /\ Matches(Rule(line), path) <=> CoversPath(line.value, path)
                      /\ Rule(line).specificity = Length(line.value)
                      /\ Rule(line).allow <=> line.field # "disallow"
    OBVIOUS
  <2>1. line.value \in Seq(Octet \cup {"*"}) /\ line.value # << >>
    BY <1>3
  <2>2. line.field = "allow" <=> line.field # "disallow"
    BY <1>3
  <2>3. /\ Matches(Rule(line), path) <=> CoversPath(line.value, path)
        /\ Rule(line).specificity = Length(line.value)
        /\ Rule(line).allow = (line.field = "allow")
    BY <2>1, RuleOfLine
  <2> QED
    BY <2>2, <2>3
<1>5. \A r \in RuleOfLines : r.specificity \in Nat /\ r.specificity > 0
  <2> SUFFICES ASSUME NEW line \in Lines, MakesRule(line)
               PROVE  Rule(line).specificity \in Nat /\ Rule(line).specificity > 0
    BY DEF RuleOfLines
  <2>1. line.value \in Seq(Octet \cup {"*"}) /\ line.value # << >>
    BY <1>3
  <2>2. Length(line.value) \in Nat
    <3> DEFINE counted == {i \in DOMAIN line.value :
                             /\ line.value[i] # "*" /\ ~(i = Len(line.value) /\ line.value[i] = "$")
                             /\ ~\E d \in {1, 2} : Escape(line.value, i - d)}
    <3>1. DOMAIN line.value = 1 .. Len(line.value) /\ Len(line.value) \in Nat
      BY <2>1, LenProperties
    <3>2. IsFiniteSet(1 .. Len(line.value)) /\ counted \subseteq 1 .. Len(line.value)
      BY <3>1, FS_Interval
    <3>3. IsFiniteSet(counted)
      BY <3>2, FS_Subset
    <3>4. Length(line.value) = Cardinality(counted)
      BY DEF Length
    <3> HIDE DEF counted
    <3> QED
      BY <3>3, <3>4, FS_CardinalityType
  <2> QED
    BY <1>3, <1>4, <2>2
<1>6. \A rule : rule \in Range(rules) <=> \E i \in DOMAIN file : For(i) /\ rule = Rule(file[i])
  BY RulesParsed
<1>7. Allows(rules, path) <=>
        \A i \in DOMAIN rules : Matches(rules[i], path) /\ ~rules[i].allow =>
          \E j \in DOMAIN rules : /\ Matches(rules[j], path) /\ rules[j].allow
                                  /\ rules[j].specificity >= rules[i].specificity
  <2> HIDE DEF rules
  <2> QED
    BY <1>1, <1>5, LongestRuleWins
<1> HIDE DEF rules
<1>8. Allows(rules, path) <=>
        \A r \in Range(rules) : Matches(r, path) /\ ~r.allow =>
          \E q \in Range(rules) : Matches(q, path) /\ q.allow /\ q.specificity >= r.specificity
  BY <1>7 DEF Range
<1>9. \A i \in DOMAIN file : For(i) => file[i] \in Lines /\ MakesRule(file[i])
  BY <1>2
<1> HIDE DEF For
<1>10. Allows(rules, path) <=>
         \A i \in DOMAIN file : For(i) /\ Matches(Rule(file[i]), path) /\ ~Rule(file[i]).allow =>
           \E j \in DOMAIN file : /\ For(j) /\ Matches(Rule(file[j]), path) /\ Rule(file[j]).allow
                                  /\ Rule(file[j]).specificity >= Rule(file[i]).specificity
  BY <1>6, <1>8
<1>11. AllowsAsWritten(file, path) <=>
         \A i \in applying : file[i].field = "disallow" =>
           \E j \in applying : file[j].field = "allow" /\ Length(file[j].value) >= Length(file[i].value)
  <2>1. Applying(file, agent, path) = applying
    BY DEF Applying, For
  <2> HIDE DEF applying
  <2> QED
    BY <2>1 DEF AllowsAsWritten
<1>12. \A i \in DOMAIN file : For(i) =>
         /\ Matches(Rule(file[i]), path) <=> i \in applying
         /\ Rule(file[i]).specificity = Length(file[i].value)
         /\ Rule(file[i]).allow <=> file[i].field = "allow"
         /\ ~Rule(file[i]).allow <=> file[i].field = "disallow"
  BY <1>3, <1>4, <1>9
<1>13. \A i \in applying : i \in DOMAIN file /\ For(i)
  OBVIOUS
<1> HIDE DEF applying
<1> QED
  BY <1>10, <1>11, <1>12, <1>13 DEF rules

\* The rules of a file decide as it says, for every file and path.
LEMMA ParserIsExact == ParserExact
<1> SUFFICES ASSUME NEW file \in SeqOf(Lines, MaxLines), NEW path \in TestPaths
             PROVE  Allows(ParsedRules(file), path) <=> AllowsAsWritten(file, path)
  BY DEF ParserExact
<1>1. file \in Seq(Lines)
  BY RulesAssumption DEF SeqOf
<1>2. path \in Seq(Octet)
  BY RulesAssumption
<1> QED
  BY <1>1, <1>2, FileDecides

\* In every state: the matcher matches what the pattern covers, and the rules of
\* a file decide as the file says.
THEOREM RulesAreExact == Spec => []RulesExact
<1>1. RulesExact
  BY MatcherIsExact, ParserIsExact DEF RulesExact
<1> QED
  BY <1>1, PTL
=============================================================================
