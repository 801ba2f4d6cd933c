------------------------- MODULE SingleFlightProofs -------------------------
(***************************************************************************)
(* Proofs about shared live crawls, for every finite set of requests and   *)
(* whatever each of them asks for.                                         *)
(***************************************************************************)
EXTENDS SingleFlightProperties, FiniteSetTheorems, SequenceTheorems, TLAPS

\* What the waiters of a flight are made of.
LEMMA WaitingFinite == \A f : Waiting(f) \subseteq Request /\ IsFiniteSet(Waiting(f))
<1> TAKE f
<1>1. Waiting(f) \subseteq Request
  BY DEF Waiting
<1> QED BY <1>1, AskAssumption, FS_Subset

\* A key is made of the page that its requests ask for.
LEMMA FlightKeyPage == \A r \in Request : FlightKey(r).page = Asks[r].page /\ Asks[r].page \in Page
BY AskAssumption DEF FlightKey, Ask

\* Changing one flight keeps the others, and the type of all.
LEMMA FlightChange ==
  ASSUME flights \in Seq(Flight), NEW f \in DOMAIN flights, NEW x \in Flight
  PROVE  LET fs == [flights EXCEPT ![f] = x]
         IN /\ fs \in Seq(Flight)
            /\ DOMAIN fs = DOMAIN flights
            /\ \A g \in DOMAIN flights : fs[g] = IF g = f THEN x ELSE flights[g]
<1>1. DOMAIN flights = 1 .. Len(flights)
  BY LenProperties
<1>2. [flights EXCEPT ![f] = x] \in Seq(Flight)
  BY <1>1, ExceptSeq
<1> QED BY <1>2

\* So does starting one.
LEMMA FlightAppended ==
  ASSUME flights \in Seq(Flight), NEW x \in Flight
  PROVE  LET fs == Append(flights, x)
             n == Len(flights) + 1
         IN /\ fs \in Seq(Flight)
            /\ DOMAIN flights = 1 .. Len(flights)
            /\ n \in Nat /\ n # 0
            /\ n \notin DOMAIN flights
            /\ DOMAIN fs = DOMAIN flights \cup {n}
            /\ fs[n] = x
            /\ \A g \in DOMAIN flights : fs[g] = flights[g]
<1>1. DOMAIN flights = 1 .. Len(flights) /\ Len(flights) \in Nat
  BY LenProperties
<1>2. Append(flights, x) \in Seq(Flight) /\ Len(Append(flights, x)) = Len(flights) + 1
  OBVIOUS
<1>3. DOMAIN Append(flights, x) = 1 .. Len(flights) + 1
  BY <1>2, LenProperties
<1> QED BY <1>1, <1>2, <1>3

-----------------------------------------------------------------------------
\* A request that neither waits before the step nor after it disturbs nothing.
LEMMA QuietStep ==
  ASSUME FlightInv,
         NEW r \in Request, NEW x \in RequestState,
         requests' = [requests EXCEPT ![r] = x],
         requests[r].at # "waiting",
         x.flight = requests[r].flight,
         x.at \in {"reading", "done"},
         x.at = "reading" \/ x.outcome = "hit" => CacheReadPermitted(r),
         UNCHANGED <<accepting, shutdown, draining, flights, registry, cache>>
  PROVE  FlightInv'
<1>1. TypeOK /\ requests \in [Request -> RequestState]
  BY DEF FlightInv, TypeOK
<1>2. requests' \in [Request -> RequestState]
  BY <1>1
<1>3. \A q \in Request : requests'[q] = IF q = r THEN x ELSE requests[q]
  BY <1>1
<1>4. Active' = Active
  BY DEF Active
<1>5. \A f : Waiting(f)' = Waiting(f)
  BY <1>3 DEF Waiting
<1>6. TypeOK'
  BY <1>1, <1>2 DEF TypeOK
<1>7. RequestsKeyed'
  BY <1>3 DEF FlightInv, RequestsKeyed
<1>8. ReadersPermitted'
  BY <1>3 DEF FlightInv, ReadersPermitted, CacheReadPermitted
<1>9. WritersPermitted' /\ StillbornAtShutdown'
  BY DEF FlightInv, WritersPermitted, StillbornAtShutdown
<1>10. RegistryExact'
  BY <1>4, <1>5 DEF FlightInv, RegistryExact
<1>11. NoOrphanWork'
  BY <1>4, <1>5 DEF FlightInv, NoOrphanWork
<1> QED BY <1>6, <1>7, <1>8, <1>9, <1>10, <1>11 DEF FlightInv

\* A request that starts to wait for a flight is one more waiter of that one.
LEMMA WaitersAfterJoin ==
  ASSUME FlightInv, NEW r \in Request, requests[r].at # "waiting",
         NEW f \in Nat, WaitOn(r, f)
  PROVE  /\ requests' \in [Request -> RequestState]
         /\ \A q \in Request \ {r} : requests'[q] = requests[q]
         /\ requests'[r].at = "waiting" /\ requests'[r].flight = f
         /\ requests'[r].outcome = requests[r].outcome
         /\ Waiting(f)' = Waiting(f) \cup {r}
         /\ \A g : g # f => Waiting(g)' = Waiting(g)
         /\ Cardinality(Waiting(f)') = Cardinality(Waiting(f)) + 1
<1> DEFINE x == [requests[r] EXCEPT !.at = "waiting", !.flight = f]
<1>1. requests \in [Request -> RequestState]
  BY DEF FlightInv, TypeOK
<1>2. requests' = [requests EXCEPT ![r] = x]
  BY <1>1 DEF WaitOn
<1>3. x \in RequestState /\ x.at = "waiting" /\ x.flight = f /\ x.outcome = requests[r].outcome
  BY <1>1 DEF RequestState
<1> HIDE DEF x
<1>4. /\ requests' \in [Request -> RequestState]
      /\ \A q \in Request : requests'[q] = IF q = r THEN x ELSE requests[q]
  BY <1>1, <1>2, <1>3
<1>5. Waiting(f)' = Waiting(f) \cup {r} /\ r \notin Waiting(f)
  BY <1>3, <1>4 DEF Waiting
<1>6. \A g : g # f => Waiting(g)' = Waiting(g)
  BY <1>3, <1>4 DEF Waiting
<1>7. IsFiniteSet(Waiting(f))
  BY WaitingFinite
<1>8. Cardinality(Waiting(f) \cup {r}) = Cardinality(Waiting(f)) + 1
  BY <1>5, <1>7, FS_AddElement
<1> QED BY <1>3, <1>4, <1>5, <1>6, <1>8

\* Joining a registered flight keeps the invariant.
LEMMA JoinRegistered ==
  ASSUME FlightInv, NEW r \in Request, requests[r].at \in {"new", "reading"},
         NEW f \in registry,
         flights[f].key = FlightKey(r),
         flights' = [flights EXCEPT ![f].waiters = @ + 1],
         WaitOn(r, f),
         UNCHANGED <<accepting, shutdown, draining, registry, cache>>
  PROVE  FlightInv'
<1> DEFINE x == [flights[f] EXCEPT !.waiters = @ + 1]
<1>1. TypeOK /\ flights \in Seq(Flight) /\ f \in DOMAIN flights
  BY DEF FlightInv, TypeOK
<1>2. DOMAIN flights = 1 .. Len(flights) /\ Len(flights) \in Nat /\ flights[f] \in Flight
  BY <1>1, LenProperties, ElementOfSeq
<1>3. flights' = [flights EXCEPT ![f] = x]
  BY <1>1, <1>2
<1>4. /\ x \in Flight /\ x.key = flights[f].key /\ x.state = flights[f].state
      /\ x.waiters = flights[f].waiters + 1
  BY <1>2 DEF Flight
<1> HIDE DEF x
<1>5. /\ flights' \in Seq(Flight)
      /\ DOMAIN flights' = DOMAIN flights
      /\ \A g \in DOMAIN flights : flights'[g] = IF g = f THEN x ELSE flights[g]
  BY <1>1, <1>3, <1>4, FlightChange
<1>6. \A g \in DOMAIN flights : /\ flights'[g].key = flights[g].key
                               /\ flights'[g].state = flights[g].state
  BY <1>4, <1>5
<1>7. Active' = Active
  BY <1>5, <1>6 DEF Active
<1>8. f \in Nat /\ f # 0
  BY <1>1, <1>2
<1>9. /\ requests' \in [Request -> RequestState]
      /\ \A q \in Request \ {r} : requests'[q] = requests[q]
      /\ requests'[r].at = "waiting" /\ requests'[r].flight = f
      /\ requests'[r].outcome = requests[r].outcome
      /\ Waiting(f)' = Waiting(f) \cup {r}
      /\ \A g : g # f => Waiting(g)' = Waiting(g)
      /\ Cardinality(Waiting(f)') = Cardinality(Waiting(f)) + 1
  BY <1>8, WaitersAfterJoin
<1>10. TypeOK'
  BY <1>1, <1>5, <1>9 DEF TypeOK
<1>11. RequestsKeyed'
  BY <1>1, <1>5, <1>6, <1>9 DEF FlightInv, RequestsKeyed
<1>12. ReadersPermitted'
  BY <1>9 DEF FlightInv, ReadersPermitted, CacheReadPermitted
<1>13. WritersPermitted' /\ StillbornAtShutdown'
  BY <1>1, <1>5, <1>6 DEF FlightInv, TypeOK, WritersPermitted, StillbornAtShutdown
<1>14. RegistryExact'
  <2>1. \A g \in registry : flights'[g].waiters = Cardinality(Waiting(g)')
    <3> SUFFICES ASSUME NEW g \in registry
                 PROVE  flights'[g].waiters = Cardinality(Waiting(g)')
      OBVIOUS
    <3>1. flights[g].waiters = Cardinality(Waiting(g)) /\ g \in DOMAIN flights
      BY <1>1 DEF FlightInv, RegistryExact, TypeOK
    <3>2. CASE g = f
      BY <3>1, <3>2, <1>4, <1>5, <1>9
    <3>3. CASE g # f
      BY <3>1, <3>3, <1>5, <1>9
    <3> QED BY <3>2, <3>3
  <2>2. Active \subseteq registry /\ Active \subseteq DOMAIN flights
    BY DEF FlightInv, RegistryExact, Active
  <2> QED BY <2>1, <2>2, <1>6, <1>7 DEF FlightInv, RegistryExact
<1>15. NoOrphanWork'
  <2>1. Active \subseteq DOMAIN flights
    BY DEF Active
  <2>2. \A g : Waiting(g) \subseteq Waiting(g)'
    BY <1>9
  <2> QED BY <2>1, <2>2, <1>6, <1>7 DEF FlightInv, NoOrphanWork
<1> QED BY <1>10, <1>11, <1>12, <1>13, <1>14, <1>15 DEF FlightInv

\* Starting a flight when no registered one has its key keeps the invariant.
LEMMA JoinNew ==
  ASSUME FlightInv, NEW r \in Request, requests[r].at \in {"new", "reading"},
         \A f \in registry : flights[f].key # FlightKey(r),
         flights' = Append(flights, [key |-> FlightKey(r), state |-> "created", waiters |-> 1]),
         registry' = registry \cup {Len(flights) + 1},
         WaitOn(r, Len(flights) + 1),
         UNCHANGED <<accepting, shutdown, draining, cache>>
  PROVE  FlightInv'
<1> DEFINE x == [key |-> FlightKey(r), state |-> "created", waiters |-> 1]
<1> PICK n : n = Len(flights) + 1
  OBVIOUS
<1>1. TypeOK /\ flights \in Seq(Flight)
  BY DEF FlightInv, TypeOK
<1>2. x \in Flight /\ x.key = FlightKey(r) /\ x.state = "created" /\ x.waiters = 1
  BY DEF Flight, ActiveStates
<1>3. flights' = Append(flights, x) /\ registry' = registry \cup {n} /\ WaitOn(r, n)
  OBVIOUS
<1> HIDE DEF x
<1>4. /\ flights' \in Seq(Flight)
      /\ n \in Nat /\ n # 0 /\ n \notin DOMAIN flights
      /\ DOMAIN flights' = DOMAIN flights \cup {n}
      /\ flights'[n] = x
      /\ \A g \in DOMAIN flights : flights'[g] = flights[g]
  BY <1>1, <1>2, <1>3, FlightAppended
<1>5. Active' = Active \cup {n} /\ Active \subseteq DOMAIN flights
  BY <1>2, <1>4 DEF Active, ActiveStates
<1>6. /\ requests' \in [Request -> RequestState]
      /\ \A q \in Request \ {r} : requests'[q] = requests[q]
      /\ requests'[r].at = "waiting" /\ requests'[r].flight = n
      /\ requests'[r].outcome = requests[r].outcome
      /\ Waiting(n)' = Waiting(n) \cup {r}
      /\ \A g : g # n => Waiting(g)' = Waiting(g)
      /\ Cardinality(Waiting(n)') = Cardinality(Waiting(n)) + 1
  BY <1>3, <1>4, WaitersAfterJoin
<1>7. Waiting(n) = {} /\ Cardinality(Waiting(n)') = 1
  <2>1. Waiting(n) = {}
    BY <1>4 DEF FlightInv, RequestsKeyed, Waiting
  <2>2. Cardinality(Waiting(n)) = 0
    BY <2>1, FS_EmptySet
  <2> QED BY <2>1, <2>2, <1>6
<1>8. TypeOK'
  BY <1>1, <1>3, <1>4, <1>6 DEF TypeOK
<1>9. RequestsKeyed'
  BY <1>2, <1>4, <1>6 DEF FlightInv, RequestsKeyed
<1>10. ReadersPermitted'
  BY <1>6 DEF FlightInv, ReadersPermitted, CacheReadPermitted
<1>11. WritersPermitted' /\ StillbornAtShutdown'
  BY <1>1, <1>2, <1>4 DEF FlightInv, TypeOK, WritersPermitted, StillbornAtShutdown
<1>12. RegistryExact'
  <2>1. registry \subseteq DOMAIN flights /\ Active \subseteq registry
    BY <1>1 DEF FlightInv, TypeOK, RegistryExact
  <2>2. \A g \in registry' : flights'[g].waiters = Cardinality(Waiting(g)')
    <3> SUFFICES ASSUME NEW g \in registry'
                 PROVE  flights'[g].waiters = Cardinality(Waiting(g)')
      OBVIOUS
    <3>1. CASE g = n
      BY <3>1, <1>2, <1>4, <1>7
    <3>2. CASE g # n
      <4>1. g \in registry /\ g \in DOMAIN flights
        BY <3>2, <2>1, <1>3
      <4>2. flights[g].waiters = Cardinality(Waiting(g))
        BY <4>1 DEF FlightInv, RegistryExact
      <4> QED BY <4>1, <4>2, <3>2, <1>4, <1>6
    <3> QED BY <3>1, <3>2
  <2>3. \A f, g \in Active' : flights'[f].key = flights'[g].key => f = g
    <3>1. \A f, g \in Active : flights[f].key = flights[g].key => f = g
      BY DEF FlightInv, RegistryExact
    <3>2. \A f \in Active : flights'[f].key # FlightKey(r) /\ flights'[f] = flights[f]
      BY <2>1, <1>4
    <3> QED BY <3>1, <3>2, <1>2, <1>4, <1>5
  <2>4. Active' \subseteq registry' /\ (shutdown' = "no" => registry' = Active')
    BY <2>1, <1>3, <1>5 DEF FlightInv, RegistryExact
  <2> QED BY <2>2, <2>3, <2>4 DEF RegistryExact
<1>13. NoOrphanWork'
  <2> SUFFICES ASSUME NEW g \in Active'
               PROVE  flights'[g].state = "cancelling" \/ Waiting(g)' # {}
    BY DEF NoOrphanWork
  <2>1. CASE g = n
    BY <2>1, <1>6
  <2>2. CASE g # n
    BY <2>2, <1>4, <1>5, <1>6 DEF FlightInv, NoOrphanWork
  <2> QED BY <2>1, <2>2
<1> QED BY <1>8, <1>9, <1>10, <1>11, <1>12, <1>13 DEF FlightInv

\* Both ways to get a flight keep the invariant.
LEMMA JoinKeeps ==
  ASSUME FlightInv, NEW r \in Request, requests[r].at \in {"new", "reading"}, Join(r),
         UNCHANGED <<accepting, shutdown, draining, cache>>
  PROVE  FlightInv'
<1>1. CASE \E f \in registry :
            /\ flights[f].key = FlightKey(r)
            /\ flights' = [flights EXCEPT ![f].waiters = @ + 1]
            /\ WaitOn(r, f)
            /\ UNCHANGED registry
  BY <1>1, JoinRegistered
<1>2. CASE /\ \A f \in registry : flights[f].key # FlightKey(r)
           /\ flights' = Append(flights, [key |-> FlightKey(r), state |-> "created", waiters |-> 1])
           /\ registry' = registry \cup {Len(flights) + 1}
           /\ WaitOn(r, Len(flights) + 1)
  BY <1>2, JoinNew
<1> QED BY <1>1, <1>2 DEF Join
-----------------------------------------------------------------------------
\* A request that stops waiting for a flight is one waiter less of that one.
LEMMA WaitersAfterLeave ==
  ASSUME FlightInv, NEW r \in Request, requests[r].at = "waiting",
         NEW f, f = requests[r].flight,
         NEW x \in RequestState, x.at # "waiting",
         requests' = [requests EXCEPT ![r] = x]
  PROVE  /\ requests' \in [Request -> RequestState]
         /\ \A q \in Request : requests'[q] = IF q = r THEN x ELSE requests[q]
         /\ r \in Waiting(f)
         /\ Waiting(f)' = Waiting(f) \ {r}
         /\ \A g : g # f => Waiting(g)' = Waiting(g)
         /\ Cardinality(Waiting(f)) \in Nat \ {0}
         /\ Cardinality(Waiting(f)') = Cardinality(Waiting(f)) - 1
<1>1. requests \in [Request -> RequestState]
  BY DEF FlightInv, TypeOK
<1>2. /\ requests' \in [Request -> RequestState]
      /\ \A q \in Request : requests'[q] = IF q = r THEN x ELSE requests[q]
  BY <1>1
<1>3. Waiting(f)' = Waiting(f) \ {r} /\ r \in Waiting(f)
  BY <1>2 DEF Waiting
<1>4. \A g : g # f => Waiting(g)' = Waiting(g)
  BY <1>2 DEF Waiting
<1>5. IsFiniteSet(Waiting(f))
  BY WaitingFinite
<1>6. Cardinality(Waiting(f)) \in Nat
  BY <1>5, FS_CardinalityType
<1>7. Cardinality(Waiting(f)) # 0
  BY <1>3, <1>5, FS_EmptySet
<1>8. Cardinality(Waiting(f) \ {r}) = Cardinality(Waiting(f)) - 1
  BY <1>3, <1>5, FS_RemoveElement
<1> QED BY <1>2, <1>3, <1>4, <1>6, <1>7, <1>8

\* Leaving a flight whose entry is gone keeps the invariant.
LEMMA LeaveRetired ==
  ASSUME FlightInv, NEW r \in Request, requests[r].at = "waiting",
         NEW f, f = requests[r].flight, f \notin registry,
         NEW x \in RequestState, x.at = "done", x.flight = f,
         x.outcome = "hit" => CacheReadPermitted(r),
         requests' = [requests EXCEPT ![r] = x],
         UNCHANGED <<accepting, shutdown, draining, flights, registry, cache>>
  PROVE  FlightInv'
<1>1. /\ requests' \in [Request -> RequestState]
      /\ \A q \in Request : requests'[q] = IF q = r THEN x ELSE requests[q]
      /\ \A g : g # f => Waiting(g)' = Waiting(g)
  BY WaitersAfterLeave
<1>2. Active' = Active /\ Active \subseteq registry
  BY DEF Active, FlightInv, RegistryExact
<1>3. TypeOK'
  BY <1>1 DEF FlightInv, TypeOK
<1>4. RequestsKeyed'
  BY <1>1 DEF FlightInv, RequestsKeyed
<1>5. ReadersPermitted'
  BY <1>1 DEF FlightInv, ReadersPermitted, CacheReadPermitted
<1>6. WritersPermitted' /\ StillbornAtShutdown'
  BY DEF FlightInv, WritersPermitted, StillbornAtShutdown
<1>7. RegistryExact'
  BY <1>1, <1>2 DEF FlightInv, RegistryExact
<1>8. NoOrphanWork'
  BY <1>1, <1>2 DEF FlightInv, NoOrphanWork
<1> QED BY <1>3, <1>4, <1>5, <1>6, <1>7, <1>8 DEF FlightInv

\* Leaving a registered flight keeps the invariant, provided that the flight is
\* over, still has a waiter, or is cancelled.
LEMMA LeaveRegistered ==
  ASSUME FlightInv, NEW r \in Request, requests[r].at = "waiting",
         NEW f, f = requests[r].flight, f \in registry,
         NEW x \in RequestState, x.at \in {"done", "releasing"}, x.flight = f,
         x.outcome = "hit" => CacheReadPermitted(r),
         requests' = [requests EXCEPT ![r] = x],
         NEW y, y.key = flights[f].key, y.waiters = flights[f].waiters - 1,
         y = [key |-> y.key, state |-> y.state, waiters |-> y.waiters],
         \/ y.state = flights[f].state
         \/ y.state = "cancelling" /\ f \in Active,
         f \in Active => y.state = "cancelling" \/ y.waiters # 0,
         flights' = [flights EXCEPT ![f] = y],
         UNCHANGED <<accepting, shutdown, draining, registry, cache>>
  PROVE  FlightInv'
<1>1. TypeOK /\ flights \in Seq(Flight) /\ f \in DOMAIN flights /\ registry \subseteq DOMAIN flights
  BY DEF FlightInv, TypeOK
<1>2. flights[f] \in Flight
  BY <1>1, LenProperties, ElementOfSeq
<1>3. /\ requests' \in [Request -> RequestState]
      /\ \A q \in Request : requests'[q] = IF q = r THEN x ELSE requests[q]
      /\ \A g : g # f => Waiting(g)' = Waiting(g)
      /\ Cardinality(Waiting(f)) \in Nat \ {0}
      /\ Cardinality(Waiting(f)') = Cardinality(Waiting(f)) - 1
  BY WaitersAfterLeave
<1>4. flights[f].waiters = Cardinality(Waiting(f))
  BY DEF FlightInv, RegistryExact
<1>5. y \in Flight
  <2>1. y.waiters \in Nat
    BY <1>3, <1>4
  <2>2. y.key \in {FlightKey(q) : q \in Request}
    BY <1>2 DEF Flight
  <2>3. y.state \in ActiveStates \cup {"ended", "cancelled"}
    BY <1>2 DEF Flight, ActiveStates
  <2> QED BY <2>1, <2>2, <2>3 DEF Flight
<1>6. /\ flights' \in Seq(Flight)
      /\ DOMAIN flights' = DOMAIN flights
      /\ \A g \in DOMAIN flights : flights'[g] = IF g = f THEN y ELSE flights[g]
  BY <1>1, <1>5, FlightChange
<1>7. \A g \in DOMAIN flights : flights'[g].key = flights[g].key
  BY <1>6
<1>8. Active' = Active /\ Active \subseteq registry
  BY <1>6 DEF Active, ActiveStates, FlightInv, RegistryExact
<1>9. TypeOK'
  BY <1>1, <1>3, <1>6 DEF TypeOK
<1>10. RequestsKeyed'
  BY <1>3, <1>6, <1>7 DEF FlightInv, RequestsKeyed
<1>11. ReadersPermitted'
  BY <1>3 DEF FlightInv, ReadersPermitted, CacheReadPermitted
<1>12. WritersPermitted' /\ StillbornAtShutdown'
  BY <1>1, <1>6 DEF FlightInv, TypeOK, WritersPermitted, StillbornAtShutdown
<1>13. RegistryExact'
  <2>1. \A g \in registry : flights'[g].waiters = Cardinality(Waiting(g)')
    <3> SUFFICES ASSUME NEW g \in registry
                 PROVE  flights'[g].waiters = Cardinality(Waiting(g)')
      OBVIOUS
    <3>1. CASE g = f
      BY <3>1, <1>1, <1>3, <1>4, <1>6
    <3>2. CASE g # f
      <4>1. flights[g].waiters = Cardinality(Waiting(g)) /\ g \in DOMAIN flights
        BY <1>1 DEF FlightInv, RegistryExact
      <4> QED BY <4>1, <3>2, <1>3, <1>6
    <3> QED BY <3>1, <3>2
  <2> QED BY <2>1, <1>1, <1>7, <1>8 DEF FlightInv, RegistryExact
<1>14. NoOrphanWork'
  <2> SUFFICES ASSUME NEW g \in Active'
               PROVE  flights'[g].state = "cancelling" \/ Waiting(g)' # {}
    BY DEF NoOrphanWork
  <2>1. CASE g = f
    <3>1. CASE y.state = "cancelling"
      BY <3>1, <2>1, <1>1, <1>6
    <3>2. CASE y.waiters # 0
      <4>1. Cardinality(Waiting(f)') # 0
        BY <3>2, <1>3, <1>4
      <4>2. Waiting(f)' # {}
        BY <4>1, FS_EmptySet
      <4> QED BY <4>2, <2>1
    <3> QED BY <3>1, <3>2, <2>1, <1>8
  <2>2. CASE g # f
    <3>1. g \in Active /\ g \in DOMAIN flights
      BY <1>1, <1>8
    <3> QED BY <3>1, <2>2, <1>3, <1>6 DEF FlightInv, NoOrphanWork
  <2> QED BY <2>1, <2>2
<1> QED BY <1>9, <1>10, <1>11, <1>12, <1>13, <1>14 DEF FlightInv

\* Whoever is served by a flight keeps the invariant.
LEMMA DeliverKeeps ==
  ASSUME FlightInv, NEW r \in Request, Deliver(r)
  PROVE  FlightInv'
<1> PICK f : f = requests[r].flight
  OBVIOUS
<1> DEFINE o == IF flights[f].state = "cancelled" THEN "aborted" ELSE "delivered"
           x == [requests[r] EXCEPT !.at = "done", !.outcome = o]
           y == [flights[f] EXCEPT !.waiters = @ - 1]
<1>1. /\ requests \in [Request -> RequestState]
      /\ flights \in Seq(Flight) /\ registry \subseteq DOMAIN flights
  BY DEF FlightInv, TypeOK
<1>2. /\ requests[r].at = "waiting"
      /\ f \notin Active
      /\ Ends(r, o)
      /\ IF f \in registry THEN flights' = [flights EXCEPT ![f].waiters = @ - 1]
                           ELSE UNCHANGED flights
      /\ UNCHANGED <<accepting, shutdown, draining, registry, cache>>
  BY DEF Deliver
<1>3. requests' = [requests EXCEPT ![r] = x]
  BY <1>1, <1>2 DEF Ends
<1>4. x \in RequestState /\ x.at = "done" /\ x.flight = f /\ x.outcome # "hit"
  BY <1>1 DEF RequestState
<1> HIDE DEF o, x
<1>5. CASE f \notin registry
  BY <1>2, <1>3, <1>4, <1>5, LeaveRetired
<1>6. CASE f \in registry
  <2>1. flights[f] \in Flight /\ f \in DOMAIN flights
    BY <1>1, <1>6, LenProperties, ElementOfSeq
  <2>2. flights' = [flights EXCEPT ![f] = y]
    BY <1>2, <1>6, <2>1
  <2>3. /\ y.key = flights[f].key /\ y.waiters = flights[f].waiters - 1
        /\ y.state = flights[f].state
        /\ y = [key |-> y.key, state |-> y.state, waiters |-> y.waiters]
    BY <2>1 DEF Flight
  <2> HIDE DEF y
  <2> QED BY <1>2, <1>3, <1>4, <1>6, <2>2, <2>3, LeaveRegistered
<1> QED BY <1>5, <1>6

\* What is left of a flight whose last waiter leaves.
LEMMA CancelledRecord ==
  ASSUME NEW e \in Flight
  PROVE  [e EXCEPT !.waiters = 0, !.state = "cancelling"] =
           [key |-> e.key, state |-> "cancelling", waiters |-> 0]
<1> DEFINE K == {FlightKey(r) : r \in Request}
           S == ActiveStates \cup {"ended", "cancelled"}
<1>1. e \in [key : K, state : S, waiters : Nat]
  BY DEF Flight
<1> HIDE DEF K, S
<1> DEFINE v == [e EXCEPT !.waiters = 0, !.state = "cancelling"]
<1>2. v \in [key : K, state : {"cancelling"}, waiters : {0}] /\ v.key = e.key
  BY <1>1
<1> HIDE DEF v
<1>3. v = [key |-> e.key, state |-> "cancelling", waiters |-> 0]
  BY <1>2
<1> QED BY <1>3 DEF v

\* A client that goes away keeps the invariant: when it is the last of an
\* unfinished flight, it cancels that flight.
LEMMA CancelWaitingKeeps ==
  ASSUME FlightInv, NEW r \in Request, CancelWaiting(r)
  PROVE  FlightInv'
<1> PICK f : f = requests[r].flight
  OBVIOUS
<1> DEFINE x == [requests[r] EXCEPT !.at = "done", !.outcome = "cancelled"]
           z == [requests[r] EXCEPT !.at = "releasing"]
           y == [flights[f] EXCEPT !.waiters = @ - 1]
           w == [key |-> flights[f].key, state |-> "cancelling", waiters |-> 0]
<1>1. /\ requests \in [Request -> RequestState]
      /\ flights \in Seq(Flight) /\ registry \subseteq DOMAIN flights
  BY DEF FlightInv, TypeOK
<1>2. requests[r].at = "waiting" /\ UNCHANGED <<accepting, shutdown, draining, registry, cache>>
  BY DEF CancelWaiting
<1>3. x \in RequestState /\ x.at = "done" /\ x.flight = f /\ x.outcome # "hit"
  BY <1>1 DEF RequestState
<1>4. ASSUME Ends(r, "cancelled") PROVE requests' = [requests EXCEPT ![r] = x]
  BY <1>1, <1>4 DEF Ends
<1>5. CASE f \notin registry /\ Ends(r, "cancelled") /\ UNCHANGED flights
  <2> HIDE DEF x
  <2> QED BY <1>2, <1>3, <1>4, <1>5, LeaveRetired
<1>6. ASSUME f \in registry
      PROVE  /\ f \in DOMAIN flights /\ flights[f] \in Flight
             /\ flights[f].waiters = Cardinality(Waiting(f))
             /\ flights[f].waiters \in Nat \ {0}
  <2>1. f \in DOMAIN flights /\ flights[f] \in Flight
    BY <1>1, <1>6, LenProperties, ElementOfSeq
  <2>2. flights[f].waiters = Cardinality(Waiting(f)) /\ flights[f].waiters \in Nat
    BY <1>6, <2>1 DEF FlightInv, RegistryExact, Flight
  <2>3. r \in Waiting(f) /\ IsFiniteSet(Waiting(f))
    BY <1>2, WaitingFinite DEF Waiting
  <2>4. Cardinality(Waiting(f)) # 0
    BY <2>3, FS_EmptySet
  <2> QED BY <2>1, <2>2, <2>4
<1>7. CASE /\ f \in registry
           /\ ~LastWaiterLeaves(f)
           /\ flights' = [flights EXCEPT ![f].waiters = @ - 1]
           /\ Ends(r, "cancelled")
  <2>1. flights' = [flights EXCEPT ![f] = y]
    BY <1>6, <1>7
  <2>2. /\ y.key = flights[f].key /\ y.waiters = flights[f].waiters - 1
        /\ y.state = flights[f].state
        /\ y = [key |-> y.key, state |-> y.state, waiters |-> y.waiters]
    BY <1>6, <1>7 DEF Flight
  <2>3. f \in Active => y.state = "cancelling" \/ y.waiters # 0
    BY <1>6, <1>7, <2>2 DEF LastWaiterLeaves
  <2>4. requests' = [requests EXCEPT ![r] = x] /\ f \in registry
    BY <1>4, <1>7
  <2> HIDE DEF x, y
  <2> QED BY <1>2, <1>3, <2>1, <2>2, <2>3, <2>4, LeaveRegistered
<1>8. CASE /\ f \in registry
           /\ LastWaiterLeaves(f)
           /\ flights' = [flights EXCEPT ![f].waiters = 0, ![f].state = "cancelling"]
           /\ requests' = [requests EXCEPT ![r].at = "releasing"]
  <2>1. flights' = [flights EXCEPT ![f] = w]
    <3>1. [flights[f] EXCEPT !.waiters = 0, !.state = "cancelling"] = w
      BY <1>6, <1>8, CancelledRecord
    <3>2. flights' = [flights EXCEPT ![f] = [flights[f] EXCEPT !.waiters = 0, !.state = "cancelling"]]
      BY <1>1, <1>6, <1>8
    <3> QED BY <3>1, <3>2
  <2>2. requests' = [requests EXCEPT ![r] = z] /\ f \in registry
    BY <1>1, <1>8
  <2>3. flights[f].waiters = 1 /\ f \in Active
    BY <1>6, <1>8 DEF LastWaiterLeaves
  <2>4. w.key = flights[f].key /\ w.waiters = 0 /\ w.state = "cancelling"
    OBVIOUS
  <2>5. w = [key |-> w.key, state |-> w.state, waiters |-> w.waiters]
    OBVIOUS
  <2>6. w.waiters = flights[f].waiters - 1
    BY <2>3, <2>4
  <2>7. z \in RequestState /\ z.at = "releasing" /\ z.flight = f
    BY <1>1 DEF RequestState
  <2>8. z.outcome = "hit" => CacheReadPermitted(r)
    BY <1>1 DEF FlightInv, ReadersPermitted, RequestState
  <2> HIDE DEF w, z
  <2> QED BY <1>2, <2>1, <2>2, <2>3, <2>4, <2>5, <2>6, <2>7, <2>8, LeaveRegistered
<1> QED BY <1>5, <1>7, <1>8 DEF CancelWaiting
-----------------------------------------------------------------------------
\* A flight that goes on, or ends and retires its entry, keeps the invariant.
LEMMA FlightMoves ==
  ASSUME FlightInv, NEW f \in DOMAIN flights, f \in Active,
         NEW s \in {"running", "storing", "ended", "cancelled"},
         flights' = [flights EXCEPT ![f].state = s],
         s = "storing" => flights[f].key.write,
         s \in ActiveStates => flights[f].state # "cancelling" /\ UNCHANGED registry,
         s \notin ActiveStates =>
           registry' = registry \ {f} \/ (shutdown # "no" /\ UNCHANGED registry),
         \/ cache' \subseteq cache
         \/ /\ flights[f].key.write
            /\ cache' \subseteq cache \cup {[page |-> flights[f].key.page, flight |-> f]},
         UNCHANGED <<accepting, shutdown, draining, requests>>
  PROVE  FlightInv'
<1> DEFINE x == [flights[f] EXCEPT !.state = s]
<1>1. TypeOK /\ flights \in Seq(Flight) /\ registry \subseteq DOMAIN flights
  BY DEF FlightInv, TypeOK
<1>2. flights[f] \in Flight
  BY <1>1, LenProperties, ElementOfSeq
<1>3. flights' = [flights EXCEPT ![f] = x]
  BY <1>1, <1>2
<1>4. /\ x \in Flight /\ x.key = flights[f].key /\ x.state = s
      /\ x.waiters = flights[f].waiters
  BY <1>2 DEF Flight, ActiveStates
<1> HIDE DEF x
<1>5. /\ flights' \in Seq(Flight)
      /\ DOMAIN flights' = DOMAIN flights
      /\ \A g \in DOMAIN flights : flights'[g] = IF g = f THEN x ELSE flights[g]
  BY <1>1, <1>3, <1>4, FlightChange
<1>6. \A g \in DOMAIN flights : /\ flights'[g].key = flights[g].key
                               /\ flights'[g].waiters = flights[g].waiters
  BY <1>4, <1>5
<1>7. Active' = IF s \in ActiveStates THEN Active ELSE Active \ {f}
  BY <1>4, <1>5 DEF Active
<1>8. registry' \subseteq registry /\ Active \subseteq registry /\ Active \subseteq DOMAIN flights
  BY DEF FlightInv, RegistryExact, Active
<1>9. \A g : Waiting(g)' = Waiting(g)
  BY DEF Waiting
<1>10. TypeOK'
  <2>1. flights[f].key.page \in Page
    BY <1>2, FlightKeyPage DEF Flight
  <2>2. cache' \subseteq [page : Page, flight : DOMAIN flights']
    BY <2>1, <1>1, <1>5 DEF TypeOK
  <2> QED BY <2>2, <1>1, <1>5, <1>8 DEF TypeOK
<1>11. RequestsKeyed'
  BY <1>5, <1>6 DEF FlightInv, RequestsKeyed
<1>12. ReadersPermitted'
  BY DEF FlightInv, ReadersPermitted
<1>13. WritersPermitted'
  <2>1. \A g \in DOMAIN flights' : flights'[g].state = "storing" => flights'[g].key.write
    BY <1>4, <1>5, <1>6 DEF FlightInv, WritersPermitted
  <2>2. \A e \in cache' : flights'[e.flight].key.write
    <3>1. \A e \in cache : e.flight \in DOMAIN flights /\ flights[e.flight].key.write
      BY <1>1 DEF TypeOK, FlightInv, WritersPermitted
    <3>2. \A e \in cache : flights'[e.flight].key.write
      BY <3>1, <1>6
    <3> QED BY <3>2, <1>6
  <2> QED BY <2>1, <2>2 DEF WritersPermitted
<1>14. StillbornAtShutdown'
  BY <1>4, <1>5 DEF FlightInv, StillbornAtShutdown
<1>15. RegistryExact'
  <2>1. \A g \in registry' : flights'[g].waiters = Cardinality(Waiting(g)')
    BY <1>1, <1>6, <1>8, <1>9 DEF FlightInv, RegistryExact
  <2>2. Active' \subseteq registry' /\ (shutdown' = "no" => registry' = Active')
    BY <1>7, <1>8 DEF FlightInv, RegistryExact
  <2>3. \A g, h \in Active' : flights'[g].key = flights'[h].key => g = h
    BY <1>6, <1>7, <1>8 DEF FlightInv, RegistryExact
  <2> QED BY <2>1, <2>2, <2>3 DEF RegistryExact
<1>16. NoOrphanWork'
  <2> SUFFICES ASSUME NEW g \in Active'
               PROVE  flights'[g].state = "cancelling" \/ Waiting(g)' # {}
    BY DEF NoOrphanWork
  <2>1. g \in Active /\ g \in DOMAIN flights
    BY <1>7, <1>8
  <2>2. flights[g].state = "cancelling" \/ Waiting(g) # {}
    BY <2>1 DEF FlightInv, NoOrphanWork
  <2> QED BY <2>1, <2>2, <1>5, <1>7, <1>9
<1> QED BY <1>10, <1>11, <1>12, <1>13, <1>14, <1>15, <1>16 DEF FlightInv

\* A flight that ends and retires its entry keeps the invariant.
LEMMA RetireKeeps ==
  ASSUME FlightInv, NEW f \in DOMAIN flights, f \in Active,
         NEW s \in {"ended", "cancelled"}, Retire(f, s),
         \/ cache' \subseteq cache
         \/ /\ flights[f].key.write
            /\ cache' \subseteq cache \cup {[page |-> flights[f].key.page, flight |-> f]},
         UNCHANGED <<accepting, shutdown, draining, requests>>
  PROVE  FlightInv'
<1>1. s \in {"running", "storing", "ended", "cancelled"} /\ s # "storing" /\ s \notin ActiveStates
  BY DEF ActiveStates
<1>2. flights' = [flights EXCEPT ![f].state = s] /\ registry' = registry \ {f}
  BY DEF Retire
<1>3. s = "storing" => flights[f].key.write
  BY <1>1
<1>4. s \in ActiveStates => flights[f].state # "cancelling" /\ UNCHANGED registry
  BY <1>1
<1>5. s \notin ActiveStates =>
           registry' = registry \ {f} \/ (shutdown # "no" /\ UNCHANGED registry)
  BY <1>2
<1> QED BY <1>1, <1>2, <1>3, <1>4, <1>5, FlightMoves

\* Every step of a flight's task keeps the invariant.
LEMMA FlightStepKeeps ==
  ASSUME FlightInv, NEW f \in DOMAIN flights, FlightStep(f)
  PROVE  FlightInv'
<1>1. CASE Begin(f)
  <2>1. f \in Active
    BY <1>1 DEF Begin, Active, ActiveStates
  <2> QED BY <1>1, <2>1, FlightMoves DEF Begin, ActiveStates
<1>2. CASE EndStillborn(f)
  <2>1. f \in Active /\ shutdown # "no"
    BY <1>2 DEF EndStillborn, Active, ActiveStates, FlightInv, StillbornAtShutdown
  <2>2. "cancelled" \notin ActiveStates
    BY DEF ActiveStates
  <2> QED BY <1>2, <2>1, <2>2, FlightMoves DEF EndStillborn
<1>3. CASE CrawlEnds(f)
  <2>1. f \in Active /\ Retire(f, "ended") /\ cache' \subseteq cache
    BY <1>3 DEF CrawlEnds, Active, ActiveStates
  <2> QED BY <1>3, <2>1, RetireKeeps DEF CrawlEnds
<1>4. CASE StartStoring(f)
  <2>1. f \in Active
    BY <1>4 DEF StartStoring, Active, ActiveStates
  <2> QED BY <1>4, <2>1, FlightMoves DEF StartStoring, ActiveStates
<1>5. CASE StoreEnds(f)
  <2>1. f \in Active /\ Retire(f, "ended")
    BY <1>5 DEF StoreEnds, Active, ActiveStates
  <2>2. flights[f].key.write
    BY <1>5 DEF StoreEnds, FlightInv, WritersPermitted
  <2>3. cache' \subseteq cache \cup {[page |-> flights[f].key.page, flight |-> f]}
    BY <1>5 DEF StoreEnds
  <2> QED BY <1>5, <2>1, <2>2, <2>3, RetireKeeps DEF StoreEnds
<1>6. CASE CancelEnds(f)
  <2>1. f \in Active /\ Retire(f, "cancelled") /\ cache' \subseteq cache
    BY <1>6 DEF CancelEnds, Active, ActiveStates
  <2> QED BY <1>6, <2>1, RetireKeeps DEF CancelEnds
<1> QED BY <1>1, <1>2, <1>3, <1>4, <1>5, <1>6 DEF FlightStep
-----------------------------------------------------------------------------
\* Shutdown cancels every registered flight and keeps the invariant.
LEMMA StartShutdownKeeps ==
  ASSUME FlightInv, StartShutdown
  PROVE  FlightInv'
<1>1. TypeOK /\ flights \in Seq(Flight) /\ registry \subseteq DOMAIN flights
  BY DEF FlightInv, TypeOK
<1>2. /\ DOMAIN flights = 1 .. Len(flights) /\ Len(flights) \in Nat
      /\ \A f \in DOMAIN flights : flights[f] \in Flight
  BY <1>1, LenProperties, ElementOfSeq
<1>3. registry = Active /\ Active \subseteq DOMAIN flights
  BY DEF StartShutdown, FlightInv, RegistryExact, Active
<1>4. /\ DOMAIN flights' = DOMAIN flights
      /\ \A f \in DOMAIN flights :
           /\ flights'[f] \in Flight
           /\ flights'[f].key = flights[f].key
           /\ flights'[f].waiters = flights[f].waiters
           /\ f \notin registry => flights'[f] = flights[f]
           /\ f \in registry => flights'[f].state = IF flights[f].state = "created"
                                                   THEN "stillborn" ELSE "cancelling"
  BY <1>2 DEF StartShutdown, Flight, ActiveStates
<1>5. flights' \in Seq(Flight)
  <2>1. flights' = [f \in 1 .. Len(flights) |-> flights'[f]]
    BY <1>2 DEF StartShutdown
  <2>2. flights' \in [1 .. Len(flights) -> Flight]
    BY <2>1, <1>2, <1>4
  <2> QED BY <2>2, <1>2
<1>6. Active' = Active
  BY <1>3, <1>4 DEF Active, ActiveStates
<1>7. /\ UNCHANGED <<requests, registry, cache>> /\ shutdown' = "draining"
      /\ draining' = registry /\ accepting' = FALSE
  BY DEF StartShutdown
<1>8. \A f : Waiting(f)' = Waiting(f)
  BY <1>7 DEF Waiting
<1>9. TypeOK'
  BY <1>1, <1>4, <1>5, <1>7 DEF TypeOK
<1>10. RequestsKeyed'
  BY <1>4, <1>7 DEF FlightInv, RequestsKeyed
<1>11. ReadersPermitted' /\ StillbornAtShutdown'
  BY <1>7 DEF FlightInv, ReadersPermitted, StillbornAtShutdown
<1>12. WritersPermitted'
  BY <1>1, <1>3, <1>4, <1>7 DEF FlightInv, TypeOK, WritersPermitted
<1>13. RegistryExact'
  BY <1>1, <1>3, <1>4, <1>6, <1>7, <1>8 DEF FlightInv, RegistryExact
<1>14. NoOrphanWork'
  BY <1>3, <1>4, <1>6, <1>8 DEF FlightInv, NoOrphanWork
<1> QED BY <1>9, <1>10, <1>11, <1>12, <1>13, <1>14 DEF FlightInv
-----------------------------------------------------------------------------
\* A request that ends without waiting keeps the invariant.
LEMMA EndsKeeps ==
  ASSUME FlightInv, NEW r \in Request, requests[r].at # "waiting",
         NEW o \in {"refused", "hit", "cancelled"}, Ends(r, o),
         o = "hit" => CacheReadPermitted(r),
         UNCHANGED <<accepting, shutdown, draining, flights, registry, cache>>
  PROVE  FlightInv'
<1> DEFINE x == [requests[r] EXCEPT !.at = "done", !.outcome = o]
<1>1. requests \in [Request -> RequestState]
  BY DEF FlightInv, TypeOK
<1>2. requests' = [requests EXCEPT ![r] = x]
  BY <1>1 DEF Ends
<1>3. /\ x \in RequestState /\ x.at = "done" /\ x.flight = requests[r].flight
      /\ x.outcome = o
  BY <1>1 DEF RequestState
<1> HIDE DEF x
<1> QED BY <1>2, <1>3, QuietStep

\* Every step of a request keeps the invariant.
LEMMA RequestStepKeeps ==
  ASSUME FlightInv, NEW r \in Request,
         RequestStep(r) \/ CancelIdle(r) \/ CancelWaiting(r)
  PROVE  FlightInv'
<1>1. CASE StartReading(r)
  <2> DEFINE x == [requests[r] EXCEPT !.at = "reading"]
  <2>1. requests \in [Request -> RequestState]
    BY DEF FlightInv, TypeOK
  <2>2. requests' = [requests EXCEPT ![r] = x]
    BY <1>1, <2>1 DEF StartReading
  <2>3. x \in RequestState /\ x.at = "reading" /\ x.flight = requests[r].flight
    BY <2>1 DEF RequestState
  <2> HIDE DEF x
  <2> QED BY <1>1, <2>2, <2>3, QuietStep DEF StartReading
<1>2. CASE StartLive(r)
  BY <1>2, JoinKeeps DEF StartLive
<1>3. CASE Refuse(r)
  BY <1>3, EndsKeeps DEF Refuse
<1>4. CASE ReadHit(r)
  <2>1. CacheReadPermitted(r)
    BY <1>4 DEF ReadHit, FlightInv, ReadersPermitted
  <2> QED BY <1>4, <2>1, EndsKeeps DEF ReadHit
<1>5. CASE ReadMiss(r)
  BY <1>5, JoinKeeps DEF ReadMiss
<1>6. CASE Deliver(r)
  BY <1>6, DeliverKeeps
<1>7. CASE Released(r)
  BY <1>7, EndsKeeps DEF Released
<1>8. CASE CancelIdle(r)
  BY <1>8, EndsKeeps DEF CancelIdle
<1>9. CASE CancelWaiting(r)
  BY <1>9, CancelWaitingKeeps
<1> QED BY <1>1, <1>2, <1>3, <1>4, <1>5, <1>6, <1>7, <1>8, <1>9 DEF RequestStep

\* The initial states satisfy the invariant.
LEMMA FlightInvInit == Init => FlightInv
<1> SUFFICES ASSUME Init PROVE FlightInv
  OBVIOUS
<1>1. flights = << >> /\ DOMAIN flights = {} /\ flights \in Seq(Flight)
  BY DEF Init
<1>2. Active = {}
  BY <1>1 DEF Active
<1>3. TypeOK
  BY <1>1 DEF Init, TypeOK, RequestState
<1> QED BY <1>1, <1>2, <1>3 DEF Init, FlightInv, RequestsKeyed, ReadersPermitted,
             WritersPermitted, StillbornAtShutdown, RegistryExact, NoOrphanWork

\* Every step keeps the invariant.
LEMMA FlightInvNext == FlightInv /\ [Next]_vars => FlightInv'
<1> SUFFICES ASSUME FlightInv, [Next]_vars PROVE FlightInv'
  OBVIOUS
<1>1. CASE \E r \in Request : RequestStep(r) \/ CancelIdle(r) \/ CancelWaiting(r)
  BY <1>1, RequestStepKeeps
<1>2. CASE \E f \in DOMAIN flights : FlightStep(f)
  BY <1>2, FlightStepKeeps
<1>3. CASE StartShutdown
  BY <1>3, StartShutdownKeeps
<1>4. CASE EndShutdown
  BY <1>4 DEF EndShutdown, FlightInv, TypeOK, RequestsKeyed, ReadersPermitted,
       WritersPermitted, StillbornAtShutdown, RegistryExact, NoOrphanWork, Active, Waiting
<1>5. CASE UNCHANGED vars
  BY <1>5 DEF vars, FlightInv, TypeOK, RequestsKeyed, ReadersPermitted,
       WritersPermitted, StillbornAtShutdown, RegistryExact, NoOrphanWork, Active, Waiting
<1> QED BY <1>1, <1>2, <1>3, <1>4, <1>5 DEF Next

\* The inductive invariant holds of every behavior, however many requests there
\* are, whatever they ask for, and whenever clients go away or the process is
\* told to shut down.
THEOREM FlightInvariant == Spec => []FlightInv
BY FlightInvInit, FlightInvNext, PTL DEF Spec

\* Every variable of the shared flights keeps its type.
THEOREM FlightTypeCorrect == Spec => []TypeOK
<1>1. FlightInv => TypeOK
  BY DEF FlightInv
<1> QED BY <1>1, FlightInvariant, PTL

\* Coalescing is exact: what _singleflight_tasks holds, and whom it counts.
THEOREM CoalescingIsExact == Spec => []RegistryExact
<1>1. FlightInv => RegistryExact
  BY DEF FlightInv
<1> QED BY <1>1, FlightInvariant, PTL

\* Work nobody waits for does not go on.
THEOREM NoWorkIsOrphaned == Spec => []NoOrphanWork
<1>1. FlightInv => NoOrphanWork
  BY DEF FlightInv
<1> QED BY <1>1, FlightInvariant, PTL

\* No request is served by a flight or a cache entry that its cache permissions
\* and its document policy exclude.
THEOREM CachePolicyHolds == Spec => []CachePolicyKept
<1>1. FlightInv => CachePolicyKept
  <2> SUFFICES ASSUME FlightInv, NEW r \in Request
               PROVE  /\ \A e \in cache : requests[r].flight = e.flight => CacheWritePermitted(r)
                      /\ Asks[r].policy => requests[r].outcome # "hit"
                      /\ \A q \in Request \ {r} :
                           requests[q].flight = requests[r].flight /\ requests[r].flight # 0 =>
                             /\ CacheReadPermitted(q) = CacheReadPermitted(r)
                             /\ CacheWritePermitted(q) = CacheWritePermitted(r)
                             /\ ~Asks[q].policy
    BY DEF CachePolicyKept
  <2>1. ASSUME NEW e \in cache, requests[r].flight = e.flight
        PROVE  CacheWritePermitted(r)
    <3>1. e.flight # 0 /\ flights[e.flight].key.write
      <4>1. e.flight \in DOMAIN flights /\ flights \in Seq(Flight)
        BY DEF FlightInv, TypeOK
      <4>2. DOMAIN flights = 1 .. Len(flights) /\ Len(flights) \in Nat
        BY <4>1, LenProperties
      <4> QED BY <4>1, <4>2 DEF FlightInv, WritersPermitted
    <3>2. flights[e.flight].key = FlightKey(r)
      BY <2>1, <3>1 DEF FlightInv, RequestsKeyed
    <3> QED BY <3>1, <3>2 DEF FlightKey
  <2>2. ASSUME Asks[r].policy PROVE requests[r].outcome # "hit"
    BY <2>2 DEF FlightInv, ReadersPermitted, CacheReadPermitted
  <2>3. ASSUME NEW q \in Request \ {r}, requests[q].flight = requests[r].flight,
               requests[r].flight # 0
        PROVE  /\ CacheReadPermitted(q) = CacheReadPermitted(r)
               /\ CacheWritePermitted(q) = CacheWritePermitted(r)
               /\ ~Asks[q].policy
    <3>1. FlightKey(q) = FlightKey(r)
      BY <2>3 DEF FlightInv, RequestsKeyed
    <3>2. /\ FlightKey(q).read = FlightKey(r).read
          /\ FlightKey(q).write = FlightKey(r).write
          /\ FlightKey(q).policy = FlightKey(r).policy
      BY <3>1
    <3>3. (IF Asks[q].policy THEN q ELSE 0) = (IF Asks[r].policy THEN r ELSE 0)
      BY <3>2 DEF FlightKey
    <3>4. ~Asks[q].policy
      BY <3>3, AskAssumption
    <3> QED BY <3>2, <3>4 DEF FlightKey
  <2> QED BY <2>1, <2>2, <2>3
<1> QED BY <1>1, FlightInvariant, PTL
-----------------------------------------------------------------------------
\* No join cancels a flight.
LEMMA JoinCancelsNothing ==
  ASSUME FlightInv, NEW r \in Request, Join(r), NEW f \in Active
  PROVE  flights'[f].state = flights[f].state
<1>1. /\ flights \in Seq(Flight) /\ registry \subseteq DOMAIN flights
      /\ f \in DOMAIN flights
  BY DEF FlightInv, TypeOK, Active
<1>2. flights[f] \in Flight /\ \A g \in registry : flights[g] \in Flight
  BY <1>1, LenProperties, ElementOfSeq
<1>3. CASE \E g \in registry : flights' = [flights EXCEPT ![g].waiters = @ + 1]
  <2>1. PICK g \in registry : flights' = [flights EXCEPT ![g].waiters = @ + 1]
    BY <1>3
  <2>2. CASE f = g
    BY <2>1, <2>2, <1>1, <1>2 DEF Flight
  <2>3. CASE f # g
    BY <2>1, <2>3, <1>1
  <2> QED BY <2>2, <2>3
<1>4. CASE flights' = Append(flights, [key |-> FlightKey(r), state |-> "created", waiters |-> 1])
  <2> DEFINE x == [key |-> FlightKey(r), state |-> "created", waiters |-> 1]
  <2>1. x \in Flight
    BY DEF Flight, ActiveStates
  <2>2. flights' = Append(flights, x)
    BY <1>4
  <2> HIDE DEF x
  <2> QED BY <2>1, <2>2, <1>1, FlightAppended
<1> QED BY <1>3, <1>4 DEF Join

\* Among the steps of requests, only the last waiter's leaving cancels a flight.
LEMMA RequestCancels ==
  ASSUME FlightInv, NEW r \in Request,
         RequestStep(r) \/ CancelIdle(r) \/ CancelWaiting(r),
         NEW f \in Active, flights[f].state # "cancelling", flights'[f].state = "cancelling"
  PROVE  Waiting(f)' = {}
<1>1. /\ requests \in [Request -> RequestState]
      /\ flights \in Seq(Flight) /\ registry \subseteq DOMAIN flights
      /\ f \in DOMAIN flights
  BY DEF FlightInv, TypeOK, Active
<1>2. flights[f] \in Flight
  BY <1>1, LenProperties, ElementOfSeq
<1> PICK g : g = requests[r].flight
  OBVIOUS
<1>3. flights' # flights
  OBVIOUS
<1>4. ~ Join(r)
  BY JoinCancelsNothing
<1>5. flights' # [flights EXCEPT ![g].waiters = @ - 1]
  <2>1. CASE f = g
    BY <2>1, <1>1, <1>2 DEF Flight
  <2>2. CASE f # g
    BY <2>2, <1>1
  <2> QED BY <2>1, <2>2
<1>6. /\ CancelWaiting(r)
      /\ g \in registry /\ LastWaiterLeaves(g)
      /\ flights' = [flights EXCEPT ![g].waiters = 0, ![g].state = "cancelling"]
      /\ requests' = [requests EXCEPT ![r].at = "releasing"]
  BY <1>3, <1>4, <1>5 DEF RequestStep, StartReading, StartLive, Refuse, ReadHit, ReadMiss,
       Deliver, Released, CancelIdle, CancelWaiting
<1>7. f = g
  BY <1>1, <1>6
<1>8. requests[r].at = "waiting" /\ r \in Waiting(g)
  BY <1>6 DEF CancelWaiting, Waiting
<1>9. flights[g].waiters = Cardinality(Waiting(g)) /\ flights[g].waiters <= 1
  BY <1>6 DEF FlightInv, RegistryExact, LastWaiterLeaves
<1>10. Waiting(g) = {r}
  <2>1. IsFiniteSet(Waiting(g)) /\ Cardinality(Waiting(g)) \in Nat
    BY WaitingFinite, FS_CardinalityType
  <2>2. Cardinality(Waiting(g)) # 0
    BY <1>8, <2>1, FS_EmptySet
  <2>3. Cardinality(Waiting(g)) = 1
    BY <2>1, <2>2, <1>9
  <2>4. \E q : Waiting(g) = {q}
    BY <2>1, <2>3, FS_Singleton
  <2> QED BY <2>4, <1>8
<1>11. Waiting(g)' = {}
  <2>1. \A q \in Request : q # r => requests'[q] = requests[q]
    BY <1>1, <1>6
  <2>2. requests'[r].at = "releasing"
    BY <1>1, <1>6
  <2> QED BY <2>1, <2>2, <1>10 DEF Waiting
<1> QED BY <1>7, <1>11

\* No step of a flight's own task starts to cancel it.
LEMMA FlightStepCancelsNothing ==
  ASSUME FlightInv, NEW g \in DOMAIN flights, FlightStep(g), NEW f \in Active,
         flights'[f].state = "cancelling"
  PROVE  flights[f].state = "cancelling"
<1>1. flights \in Seq(Flight) /\ f \in DOMAIN flights
  BY DEF FlightInv, TypeOK, Active
<1>2. flights[g] \in Flight
  BY <1>1, LenProperties, ElementOfSeq
<1>3. PICK s \in {"running", "storing", "ended", "cancelled"} :
        flights' = [flights EXCEPT ![g].state = s]
  BY DEF FlightStep, Begin, EndStillborn, CrawlEnds, StartStoring, StoreEnds, CancelEnds, Retire
<1>4. f # g
  BY <1>1, <1>2, <1>3 DEF Flight
<1> QED BY <1>1, <1>3, <1>4

\* Only the last waiter of a flight, or shutdown, cancels it.
THEOREM WaitersAreProtected == Spec => WaitersProtected
<1>1. FlightInv /\ [Next]_vars => [CancelledUnwaited]_vars
  <2> SUFFICES ASSUME FlightInv, Next, NEW f \in Active,
                      flights[f].state # "cancelling", flights'[f].state = "cancelling",
                      shutdown' = shutdown
               PROVE  Waiting(f)' = {}
    BY DEF CancelledUnwaited
  <2>1. CASE \E r \in Request : RequestStep(r) \/ CancelIdle(r) \/ CancelWaiting(r)
    BY <2>1, RequestCancels
  <2>2. CASE \E g \in DOMAIN flights : FlightStep(g)
    BY <2>2, FlightStepCancelsNothing
  <2>3. CASE StartShutdown
    BY <2>3 DEF StartShutdown
  <2>4. CASE EndShutdown
    BY <2>4 DEF EndShutdown
  <2> QED BY <2>1, <2>2, <2>3, <2>4 DEF Next
<1> QED BY <1>1, FlightInvariant, PTL DEF Spec, WaitersProtected
=============================================================================
