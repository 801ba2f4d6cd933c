---------------------------- MODULE FetcherProofs ----------------------------
(***************************************************************************)
(* Proofs about fetching, for every set of crawls and domains and every    *)
(* limit: the registry of buckets and the page permits are exact, a domain *)
(* never gets more than its burst, no request is made for a hop that was   *)
(* not cleared, and a live browser is never launched over.                 *)
(***************************************************************************)
EXTENDS FetcherProperties, Facts

(* The rate limiter *)

\* An idle bucket has drained, so discarding it takes nothing away.
BurstInv ==
  /\ spent = level
  /\ \A d \in Domain : /\ level[d] + idle[d] <= Burst
                       /\ d \notin Range(limiters) => level[d] = 0

LimiterType ==
  /\ limiters \in Seq(Domain)
  /\ level \in [Domain -> 0 .. Burst] /\ shared \in 0 .. Burst
  /\ idle \in [Domain -> 0 .. Refill] /\ inUse \in [Domain -> Nat]
  /\ tickets \in [Caller -> Domain \cup {"none", "shared"}]

LimiterInv == LimiterType /\ RegistryExact /\ BurstInv

Holders(d) == {k \in Caller : tickets[k] = d}

\* The callers of a bucket are finitely many: they can be counted.
LEMMA HoldersFinite ==
  ASSUME NEW d
  PROVE  IsFiniteSet(Holders(d)) /\ Cardinality(Holders(d)) \in Nat
<1>1. IsFiniteSet(Holders(d))
  BY LimiterAssumption, FS_Subset DEF Holders
<1> QED
  BY <1>1, FS_CardinalityType

\* A caller with a ticket keeps its bucket in use and registered.
LEMMA HolderUses ==
  ASSUME LimiterInv, NEW k \in Caller, tickets[k] \in Domain
  PROVE  inUse[tickets[k]] > 0 /\ tickets[k] \in Range(limiters)
<1> DEFINE d == tickets[k]
<1>1. k \in Holders(d) /\ IsFiniteSet(Holders(d)) /\ Cardinality(Holders(d)) \in Nat
  BY HoldersFinite DEF Holders
<1>2. Cardinality(Holders(d)) # 0
  BY <1>1, FS_EmptySet
<1>3. inUse[d] = Cardinality(Holders(d)) /\ (inUse[d] > 0 => d \in Range(limiters))
  BY DEF LimiterInv, RegistryExact, Holders
<1> QED
  BY <1>1, <1>2, <1>3

\* _evict_to_limit only discards buckets that nobody awaits and that are drained.
LEMMA EvictedKeeps ==
  ASSUME LimiterInv, NEW n \in Int
  PROVE  /\ EvictedTo(n) \in Seq(Domain)
         /\ IsInjective(EvictedTo(n))
         /\ Len(EvictedTo(n)) \in Nat /\ Len(EvictedTo(n)) <= MaxDomains
         /\ Range(EvictedTo(n)) \subseteq Range(limiters)
         /\ \A d \in Range(limiters) \ Range(EvictedTo(n)) : inUse[d] = 0 /\ level[d] = 0
<1> DEFINE i == SelectInSeq(limiters, Evictable)
<1>0. /\ limiters \in Seq(Domain) /\ IsInjective(limiters)
      /\ Len(limiters) \in Nat /\ Len(limiters) <= MaxDomains /\ DOMAIN limiters = 1 .. Len(limiters)
      /\ MaxDomains \in Nat /\ Burst \in Nat
  BY LenProperties, LimiterAssumption DEF LimiterInv, LimiterType, RegistryExact
<1>1. CASE Len(limiters) > n /\ i > 0
  <2> DEFINE I == {j \in 1 .. Len(limiters) : Evictable(limiters[j])}
  <2>1. i = IF I # {} THEN Min(I) ELSE 0
    BY DEF SelectInSeq
  <2>2. I # {} /\ I \subseteq Nat
    BY <1>1, <2>1
  <2>3. \E m \in I : \A k \in I : m <= k
    <3> HIDE DEF I
    <3> QED
      BY <2>2, LeastNatural
  <2>4. i \in I
    <3> HIDE DEF I, i
    <3> QED
      BY <2>1, <2>2, <2>3 DEF Min
  <2>5. i \in 1 .. Len(limiters) /\ Evictable(limiters[i])
    BY <2>4
  <2>6. EvictedTo(n) = RemoveAt(limiters, i)
    BY <1>1 DEF EvictedTo
  <2> HIDE DEF i
  <2>7. /\ EvictedTo(n) \in Seq(Domain) /\ Len(EvictedTo(n)) = Len(limiters) - 1
        /\ IsInjective(EvictedTo(n))
        /\ Range(EvictedTo(n)) = Range(limiters) \ {limiters[i]}
    <3>1. PICK m \in 1 .. Len(limiters) : m = i
      BY <2>5
    <3>2. /\ RemoveAt(limiters, m) \in Seq(Domain)
          /\ Len(RemoveAt(limiters, m)) = Len(limiters) - 1
      BY <1>0, RemoveAtElements
    <3>3. /\ IsInjective(RemoveAt(limiters, m))
          /\ Range(RemoveAt(limiters, m)) = Range(limiters) \ {limiters[m]}
      BY <1>0, RemoveAtRange
    <3> QED
      BY <2>6, <3>1, <3>2, <3>3
  <2>8. limiters[i] \in Domain
    BY <1>0, <2>5, ElementOfSeq
  <2>9. inUse[limiters[i]] = 0 /\ level[limiters[i]] = 0
    <3>1. PICK e \in Domain : e = limiters[i]
      BY <2>8
    <3>2. idle[e] = Burst /\ inUse[e] = 0
      BY <2>5, <3>1 DEF Evictable, Refill
    <3>3. level[e] \in Nat /\ level[e] + idle[e] <= Burst
      BY DEF LimiterInv, LimiterType, BurstInv
    <3> QED
      BY <1>0, <3>1, <3>2, <3>3
  <2> QED
    BY <1>0, <2>5, <2>7, <2>9
<1>2. CASE ~(Len(limiters) > n /\ i > 0)
  <2>1. EvictedTo(n) = limiters
    BY <1>2 DEF EvictedTo
  <2> QED
    BY <1>0, <2>1
<1> QED
  BY <1>1, <1>2

\* Looking up or creating a bucket gives the caller a ticket and keeps the limiter sound.
LEMMA RegisterKeeps ==
  ASSUME LimiterInv, NEW k \in Caller, NEW d \in Domain, Register(k, d)
  PROVE  /\ LimiterInv'
         /\ tickets[k] = "none" /\ tickets'[k] # "none"
         /\ \A c \in Caller \ {k} : tickets'[c] = tickets[c]
<1> DEFINE known == d \in Range(limiters)
           kept == EvictedTo(MaxDomains - 1)
           own == known \/ Len(kept) < MaxDomains
           t == IF own THEN d ELSE "shared"
<1>0. /\ limiters \in Seq(Domain) /\ IsInjective(limiters)
      /\ Len(limiters) \in Nat /\ Len(limiters) <= MaxDomains
      /\ MaxDomains \in Nat /\ Burst \in Nat \ {0}
      /\ level \in [Domain -> 0 .. Burst] /\ idle \in [Domain -> 0 .. Burst]
      /\ inUse \in [Domain -> Nat] /\ shared \in 0 .. Burst
      /\ tickets \in [Caller -> Domain \cup {"none", "shared"}]
      /\ d # "none" /\ d # "shared" /\ "none" \notin Domain /\ "shared" \notin Domain
  BY LenProperties, LimiterAssumption DEF LimiterInv, LimiterType, RegistryExact, Refill
<1>1. /\ tickets[k] = "none"
      /\ tickets' = [tickets EXCEPT ![k] = t]
      /\ limiters' = CASE known -> Append(RemoveFirst(limiters, d), d)
                       [] own /\ ~known -> Append(kept, d)
                       [] OTHER -> kept
      /\ level' = [e \in Domain |-> IF e \in Range(limiters') THEN level[e] ELSE 0]
      /\ idle' = [e \in Domain |-> IF e \in Range(limiters') \ {d} THEN idle[e] ELSE 0]
      /\ inUse' = IF own THEN [inUse EXCEPT ![d] = @ + 1] ELSE inUse
      /\ UNCHANGED <<shared, spent>>
  BY DEF Register
<1>2. /\ kept \in Seq(Domain) /\ IsInjective(kept) /\ Len(kept) \in Nat /\ Len(kept) <= MaxDomains
      /\ Range(kept) \subseteq Range(limiters)
      /\ \A e \in Range(limiters) \ Range(kept) : inUse[e] = 0 /\ level[e] = 0
  <2>1. MaxDomains - 1 \in Int
    BY <1>0
  <2> QED
    BY <2>1, EvictedKeeps
<1> HIDE DEF kept
<1>3. /\ limiters' \in Seq(Domain) /\ IsInjective(limiters') /\ Len(limiters') <= MaxDomains
      /\ Range(limiters') \subseteq Range(limiters) \cup {d}
      /\ own => d \in Range(limiters')
      /\ \A e \in Range(limiters) \ Range(limiters') : inUse[e] = 0 /\ level[e] = 0
  <2>1. CASE known
    <3> DEFINE rest == RemoveFirst(limiters, d)
    <3>1. /\ rest \in Seq(Domain) /\ IsInjective(rest) /\ Range(rest) = Range(limiters) \ {d}
          /\ Len(rest) = Len(limiters) - 1
      BY <1>0, <2>1, RemoveFirstRange
    <3>2. limiters' = Append(rest, d)
      BY <1>1, <2>1
    <3> HIDE DEF rest
    <3>3. Append(rest, d) \in Seq(Domain) /\ Len(Append(rest, d)) = Len(rest) + 1
      BY <3>1, AppendProperties
    <3>4. Range(Append(rest, d)) = Range(rest) \cup {d} /\ IsInjective(Append(rest, d))
      BY <3>1, AppendRange
    <3> QED
      BY <1>0, <2>1, <3>1, <3>2, <3>3, <3>4
  <2>2. CASE own /\ ~known
    <3>1. limiters' = Append(kept, d)
      BY <1>1, <2>2
    <3>2. Append(kept, d) \in Seq(Domain) /\ Len(Append(kept, d)) = Len(kept) + 1
      BY <1>2, AppendProperties
    <3>3. d \notin Range(kept)
      BY <1>2, <2>2
    <3>4. Range(Append(kept, d)) = Range(kept) \cup {d} /\ IsInjective(Append(kept, d))
      BY <1>2, <3>3, AppendRange
    <3> QED
      BY <1>0, <1>2, <2>2, <3>1, <3>2, <3>4
  <2>3. CASE ~own
    <3>1. limiters' = kept
      BY <1>1, <2>3
    <3> QED
      BY <1>2, <2>3, <3>1
  <2> QED
    BY <2>1, <2>2, <2>3
<1>4. tickets' \in [Caller -> Domain \cup {"none", "shared"}] /\ tickets'[k] = t
      /\ \A c \in Caller \ {k} : tickets'[c] = tickets[c]
  BY <1>0, <1>1
<1>5. inUse' \in [Domain -> Nat] /\ \A e \in Domain : inUse'[e] = IF own /\ e = d THEN inUse[e] + 1 ELSE inUse[e]
  BY <1>0, <1>1
<1>6. ASSUME NEW e \in Domain
      PROVE  /\ inUse'[e] = Cardinality({c \in Caller : tickets'[c] = e})
             /\ inUse'[e] > 0 => e \in Range(limiters')
  <2> DEFINE now == {c \in Caller : tickets'[c] = e}
  <2>1. inUse[e] = Cardinality(Holders(e)) /\ (inUse[e] > 0 => e \in Range(limiters))
    BY DEF LimiterInv, RegistryExact, Holders
  <2>2. IsFiniteSet(Holders(e)) /\ k \notin Holders(e) /\ now \ {k} = Holders(e) \ {k}
    BY <1>0, <1>1, <1>4, HoldersFinite DEF Holders
  <2>3. k \in now <=> own /\ e = d
    BY <1>0, <1>4
  <2> HIDE DEF now
  <2>4. inUse'[e] = Cardinality(now)
    BY <1>5, <2>1, <2>2, <2>3, CountChange
  <2>5. ASSUME inUse'[e] > 0
        PROVE  e \in Range(limiters')
    <3>1. CASE own /\ e = d
      BY <1>3, <3>1
    <3>2. CASE ~(own /\ e = d)
      <4>1. inUse[e] > 0
        BY <1>5, <2>5, <3>2
      <4> QED
        BY <4>1, <2>1, <1>3
    <3> QED
      BY <3>1, <3>2
  <2> QED
    BY <2>4, <2>5 DEF now
<1>7. level' = level
  <2>1. ASSUME NEW e \in Domain
        PROVE  level'[e] = level[e]
    <3>1. level'[e] = IF e \in Range(limiters') THEN level[e] ELSE 0
      BY <1>1
    <3>2. e \notin Range(limiters') => level[e] = 0
      BY <1>3 DEF LimiterInv, BurstInv
    <3> QED
      BY <3>1, <3>2
  <2> QED
    BY <2>1, <1>0, <1>1
<1>8. idle' \in [Domain -> 0 .. Burst] /\ \A e \in Domain : idle'[e] <= idle[e]
  BY <1>0, <1>1
<1>9. LimiterType'
  BY <1>0, <1>1, <1>3, <1>4, <1>5, <1>7, <1>8 DEF LimiterType, Refill
<1>10. RegistryExact'
  BY <1>3, <1>6 DEF RegistryExact
<1>11. BurstInv'
  <2>1. spent' = level'
    BY <1>1, <1>7 DEF LimiterInv, BurstInv
  <2>2. ASSUME NEW e \in Domain
        PROVE  level'[e] + idle'[e] <= Burst /\ (e \notin Range(limiters') => level'[e] = 0)
    <3>1. level[e] + idle[e] <= Burst /\ level[e] \in Nat /\ idle[e] \in Nat /\ idle'[e] \in Nat
      BY <1>0, <1>8 DEF LimiterInv, BurstInv
    <3>2. level'[e] + idle'[e] <= Burst
      BY <1>0, <1>7, <1>8, <3>1
    <3> QED
      BY <3>2, <1>1
  <2> QED
    BY <2>1, <2>2 DEF BurstInv
<1>12. tickets'[k] # "none"
  BY <1>0, <1>4
<1> QED
  BY <1>1, <1>4, <1>9, <1>10, <1>11, <1>12 DEF LimiterInv

\* A caller leaves its bucket, with a token or without: the part that both share.
LEMMA LeavesBucket ==
  ASSUME LimiterInv, NEW k \in Caller, tickets[k] # "none",
         tickets' = [tickets EXCEPT ![k] = "none"],
         inUse' = IF tickets[k] = "shared" THEN inUse ELSE [inUse EXCEPT ![tickets[k]] = @ - 1],
         limiters' = limiters \/ limiters' = EvictedTo(MaxDomains)
  PROVE  /\ RegistryExact'
         /\ limiters' \in Seq(Domain) /\ inUse' \in [Domain -> Nat]
         /\ tickets' \in [Caller -> Domain \cup {"none", "shared"}]
         /\ tickets'[k] = "none" /\ \A c \in Caller \ {k} : tickets'[c] = tickets[c]
         /\ \A e \in Range(limiters) \ Range(limiters') : inUse[e] = 0 /\ level[e] = 0
<1>0. /\ limiters \in Seq(Domain) /\ IsInjective(limiters) /\ Len(limiters) <= MaxDomains
      /\ MaxDomains \in Int
      /\ inUse \in [Domain -> Nat]
      /\ tickets \in [Caller -> Domain \cup {"none", "shared"}]
      /\ "none" \notin Domain /\ "shared" \notin Domain
  BY LimiterAssumption DEF LimiterInv, LimiterType, RegistryExact
<1>1. /\ limiters' \in Seq(Domain) /\ IsInjective(limiters') /\ Len(limiters') <= MaxDomains
      /\ \A e \in Range(limiters) \ Range(limiters') : inUse[e] = 0 /\ level[e] = 0
  BY <1>0, EvictedKeeps
<1>2. /\ tickets' \in [Caller -> Domain \cup {"none", "shared"}]
      /\ tickets'[k] = "none" /\ \A c \in Caller \ {k} : tickets'[c] = tickets[c]
  BY <1>0
<1>3. inUse' \in [Domain -> Nat]
      /\ \A e \in Domain : inUse'[e] = IF e = tickets[k] THEN inUse[e] - 1 ELSE inUse[e]
  <2>1. CASE tickets[k] = "shared"
    BY <2>1, <1>0
  <2>2. CASE tickets[k] # "shared"
    <3>1. PICK d \in Domain : d = tickets[k]
      BY <2>2, <1>0
    <3>2. inUse[d] > 0
      BY <3>1, HolderUses
    <3>3. inUse' = [inUse EXCEPT ![d] = @ - 1]
      BY <2>2, <3>1
    <3> QED
      BY <1>0, <3>1, <3>2, <3>3
  <2> QED
    BY <2>1, <2>2
<1>4. ASSUME NEW e \in Domain
      PROVE  /\ inUse'[e] = Cardinality({c \in Caller : tickets'[c] = e})
             /\ inUse'[e] > 0 => e \in Range(limiters')
  <2> DEFINE now == {c \in Caller : tickets'[c] = e}
  <2>1. inUse[e] = Cardinality(Holders(e)) /\ (inUse[e] > 0 => e \in Range(limiters))
    BY DEF LimiterInv, RegistryExact, Holders
  <2>2. IsFiniteSet(Holders(e)) /\ now \ {k} = Holders(e) \ {k} /\ k \notin now
    BY <1>0, <1>2, HoldersFinite DEF Holders
  <2>3. k \in Holders(e) <=> e = tickets[k]
    BY DEF Holders
  <2> HIDE DEF now
  <2>4. inUse'[e] = Cardinality(now)
    BY <1>3, <2>1, <2>2, <2>3, CountChange
  <2>5. inUse'[e] > 0 => inUse[e] > 0
    BY <1>0, <1>3
  <2> QED
    BY <1>1, <2>1, <2>4, <2>5 DEF now
<1>5. RegistryExact'
  BY <1>1, <1>4 DEF RegistryExact
<1> QED
  BY <1>1, <1>2, <1>3, <1>5

\* A token granted takes the caller out of its bucket.
LEMMA GrantedKeeps ==
  ASSUME LimiterInv, NEW k \in Caller, Granted(k)
  PROVE  /\ LimiterInv'
         /\ tickets'[k] = "none" /\ \A c \in Caller \ {k} : tickets'[c] = tickets[c]
<1> DEFINE d == tickets[k]
<1>0. /\ level \in [Domain -> 0 .. Burst] /\ idle \in [Domain -> 0 .. Burst]
      /\ shared \in 0 .. Burst /\ Burst \in Nat \ {0} /\ spent = level
      /\ d \in Domain \cup {"shared"} /\ d # "none" /\ "shared" \notin Domain
      /\ tickets' = [tickets EXCEPT ![k] = "none"]
  BY LimiterAssumption DEF LimiterInv, LimiterType, BurstInv, Refill, Granted
<1>1. inUse' = IF d = "shared" THEN inUse ELSE [inUse EXCEPT ![d] = @ - 1]
  BY DEF Granted
<1>2. limiters' = limiters \/ limiters' = EvictedTo(MaxDomains)
  BY DEF Granted
<1>3. /\ RegistryExact'
      /\ limiters' \in Seq(Domain) /\ inUse' \in [Domain -> Nat]
      /\ tickets' \in [Caller -> Domain \cup {"none", "shared"}]
      /\ tickets'[k] = "none" /\ \A c \in Caller \ {k} : tickets'[c] = tickets[c]
      /\ \A e \in Range(limiters) \ Range(limiters') : inUse[e] = 0 /\ level[e] = 0
  BY <1>0, <1>1, <1>2, LeavesBucket
<1>4. CASE d = "shared"
  <2>1. shared < Burst /\ shared' = shared + 1 /\ UNCHANGED <<limiters, level, idle, spent>>
    BY <1>4 DEF Granted
  <2>2. LimiterType'
    BY <1>0, <1>3, <2>1 DEF LimiterType, Refill
  <2>3. BurstInv'
    BY <2>1 DEF BurstInv, LimiterInv
  <2> QED
    BY <1>3, <2>2, <2>3 DEF LimiterInv
<1>5. CASE d # "shared"
  <2>1. PICK e \in Domain : e = d
    BY <1>0, <1>5
  <2>2. /\ level[e] < Burst
        /\ level' = [level EXCEPT ![e] = @ + 1]
        /\ spent' = [spent EXCEPT ![e] = @ + 1]
        /\ idle' = [idle EXCEPT ![e] = 0]
        /\ UNCHANGED shared
    BY <1>5, <2>1 DEF Granted
  <2>3. level' \in [Domain -> 0 .. Burst] /\ idle' \in [Domain -> 0 .. Burst]
        /\ spent' = level'
    BY <1>0, <2>2
  <2>4. LimiterType'
    BY <1>0, <1>3, <2>2, <2>3 DEF LimiterType, Refill
  <2>5. inUse[e] > 0 /\ e \in Range(limiters)
    BY <2>1, HolderUses
  <2>6. e \in Range(limiters')
    BY <1>3, <2>5
  <2>7. ASSUME NEW x \in Domain
        PROVE  level'[x] + idle'[x] <= Burst /\ (x \notin Range(limiters') => level'[x] = 0)
    <3>1. level[x] + idle[x] <= Burst /\ (x \notin Range(limiters) => level[x] = 0)
      BY DEF LimiterInv, BurstInv
    <3>2. CASE x = e
      BY <1>0, <2>2, <2>3, <2>6, <3>2
    <3>3. CASE x # e
      <4>1. level'[x] = level[x] /\ idle'[x] = idle[x]
        BY <1>0, <2>2, <3>3
      <4> QED
        BY <1>3, <3>1, <4>1
    <3> QED
      BY <3>2, <3>3
  <2>8. BurstInv'
    BY <2>3, <2>7 DEF BurstInv
  <2> QED
    BY <1>3, <2>4, <2>8 DEF LimiterInv
<1> QED
  BY <1>3, <1>4, <1>5

\* So does a wait that was given up.
LEMMA GivesUpKeeps ==
  ASSUME LimiterInv, NEW k \in Caller, GivesUp(k)
  PROVE  /\ LimiterInv'
         /\ tickets'[k] = "none" /\ \A c \in Caller \ {k} : tickets'[c] = tickets[c]
<1>1. /\ tickets[k] # "none" /\ tickets' = [tickets EXCEPT ![k] = "none"]
      /\ inUse' = IF tickets[k] = "shared" THEN inUse ELSE [inUse EXCEPT ![tickets[k]] = @ - 1]
      /\ limiters' = EvictedTo(MaxDomains)
      /\ UNCHANGED <<level, idle, shared, spent>>
  BY DEF GivesUp
<1>2. /\ RegistryExact'
      /\ limiters' \in Seq(Domain) /\ inUse' \in [Domain -> Nat]
      /\ tickets' \in [Caller -> Domain \cup {"none", "shared"}]
      /\ tickets'[k] = "none" /\ \A c \in Caller \ {k} : tickets'[c] = tickets[c]
      /\ \A e \in Range(limiters) \ Range(limiters') : inUse[e] = 0 /\ level[e] = 0
  BY <1>1, LeavesBucket
<1>3. LimiterType'
  BY <1>1, <1>2 DEF LimiterInv, LimiterType
<1>4. BurstInv'
  BY <1>1, <1>2 DEF LimiterInv, BurstInv
<1> QED
  BY <1>2, <1>3, <1>4 DEF LimiterInv

\* The passing of time empties buckets and touches no ticket.
LEMMA DrainKeeps ==
  ASSUME LimiterInv, Drain
  PROVE  LimiterInv' /\ tickets' = tickets
<1>0. /\ level \in [Domain -> 0 .. Burst] /\ idle \in [Domain -> 0 .. Burst]
      /\ shared \in 0 .. Burst /\ Burst \in Nat \ {0} /\ spent = level
  BY LimiterAssumption DEF LimiterInv, LimiterType, BurstInv, Refill
<1>1. /\ level' = [d \in Domain |-> Less(level[d])]
      /\ spent' = [d \in Domain |-> Less(spent[d])]
      /\ shared' = Less(shared)
      /\ idle' = [d \in Domain |->
                    IF d \in Range(limiters) /\ idle[d] < Burst THEN idle[d] + 1 ELSE idle[d]]
      /\ UNCHANGED <<limiters, inUse, tickets>>
  BY DEF Drain, Refill
<1>2. level' \in [Domain -> 0 .. Burst] /\ idle' \in [Domain -> 0 .. Burst]
      /\ shared' \in 0 .. Burst /\ spent' = level'
  BY <1>0, <1>1 DEF Less
<1>3. LimiterType'
  BY <1>1, <1>2 DEF LimiterInv, LimiterType, Refill
<1>4. RegistryExact'
  BY <1>1 DEF LimiterInv, RegistryExact
<1>5. ASSUME NEW d \in Domain
      PROVE  level'[d] + idle'[d] <= Burst /\ (d \notin Range(limiters') => level'[d] = 0)
  <2>1. /\ level[d] + idle[d] <= Burst /\ (d \notin Range(limiters) => level[d] = 0)
        /\ level[d] \in Nat /\ idle[d] \in Nat
    BY <1>0 DEF LimiterInv, BurstInv
  <2>2. level'[d] = Less(level[d])
    BY <1>1
  <2>3. idle'[d] = IF d \in Range(limiters) /\ idle[d] < Burst THEN idle[d] + 1 ELSE idle[d]
    BY <1>1
  <2>4. CASE level[d] = 0
    BY <1>0, <1>1, <1>2, <2>1, <2>2, <2>3, <2>4 DEF Less
  <2>5. CASE level[d] # 0
    BY <1>0, <1>1, <2>1, <2>2, <2>3, <2>5 DEF Less
  <2> QED
    BY <2>4, <2>5
<1>6. BurstInv'
  BY <1>2, <1>5 DEF BurstInv
<1> QED
  BY <1>1, <1>3, <1>4, <1>6 DEF LimiterInv

\* A step of the renderer or of a fetch leaves the limiter sound.
LEMMA LimiterUnchanged ==
  ASSUME LimiterInv, UNCHANGED limiterVars
  PROVE  LimiterInv' /\ tickets' = tickets
BY DEF LimiterInv, LimiterType, RegistryExact, BurstInv, limiterVars
-----------------------------------------------------------------------------
(* The renderer *)

Permitted == {c \in Crawl : renders[c] \notin {"none", "queued"}}

RenderInv ==
  /\ pages \in Int /\ browser \in {"none", "connected", "dead"}
  /\ launcher \in Crawl \cup {0} /\ renders \in [Crawl -> Renders]
  /\ pages >= 0
  /\ pages + Cardinality(Permitted) = MaxPages
  /\ \A c \in Crawl : launcher = c <=> renders[c] = "launching"

\* The renders that hold a permit can be counted.
LEMMA PermittedFinite == IsFiniteSet(Permitted) /\ Cardinality(Permitted) \in Nat
<1>1. IsFiniteSet(Permitted)
  BY LimiterAssumption, FetcherAssumption, FS_Subset DEF Permitted
<1> QED
  BY <1>1, FS_CardinalityType

\* There are never more pages than permits.
LEMMA PagesBounded == RenderInv => pages \in 0 .. MaxPages
BY PermittedFinite, RendererAssumption DEF RenderInv

\* What every step of a render has in common: the place of one crawl changes, and
\* with it the number of permits that are held.
LEMMA RenderStepKeeps ==
  ASSUME RenderInv, NEW c \in Crawl, NEW at \in Renders, Goes(c, at),
         pages' = pages + (IF renders[c] \in {"none", "queued"} THEN 0 ELSE 1)
                        - (IF at \in {"none", "queued"} THEN 0 ELSE 1),
         pages' >= 0,
         browser' \in {"none", "connected", "dead"},
         \/ launcher' = launcher /\ renders[c] # "launching" /\ at # "launching"
         \/ launcher' = c /\ launcher = 0 /\ at = "launching"
         \/ launcher' = 0 /\ renders[c] = "launching" /\ at # "launching"
  PROVE  RenderInv' /\ renders'[c] = at /\ \A b \in Crawl \ {c} : renders'[b] = renders[b]
<1>1. /\ renders' \in [Crawl -> Renders] /\ renders'[c] = at
      /\ \A b \in Crawl \ {c} : renders'[b] = renders[b]
  BY DEF Goes, RenderInv
<1>2. pages' + Cardinality(Permitted') = MaxPages
  <2>1. Permitted' \ {c} = Permitted \ {c} /\ IsFiniteSet(Permitted)
    BY <1>1, PermittedFinite DEF Permitted
  <2>2. c \in Permitted <=> renders[c] \notin {"none", "queued"}
    BY DEF Permitted
  <2>3. c \in Permitted' <=> at \notin {"none", "queued"}
    BY <1>1 DEF Permitted
  <2>4. pages + Cardinality(Permitted) = MaxPages /\ pages \in Int /\ MaxPages \in Int
    BY RendererAssumption DEF RenderInv
  <2>5. /\ Cardinality(Permitted) \in Nat /\ Cardinality(Permitted') \in Nat
        /\ c \in Permitted /\ c \in Permitted' => Cardinality(Permitted') = Cardinality(Permitted)
        /\ c \notin Permitted /\ c \notin Permitted' => Cardinality(Permitted') = Cardinality(Permitted)
        /\ c \notin Permitted /\ c \in Permitted' => Cardinality(Permitted') = Cardinality(Permitted) + 1
        /\ c \in Permitted /\ c \notin Permitted' => Cardinality(Permitted') = Cardinality(Permitted) - 1
    BY <2>1, CountChange
  <2> QED
    BY <2>2, <2>3, <2>4, <2>5
<1>3. launcher' \in Crawl \cup {0} /\ \A b \in Crawl : launcher' = b <=> renders'[b] = "launching"
  BY <1>1, RendererAssumption DEF RenderInv
<1>4. pages' \in Int
  BY DEF RenderInv
<1> QED
  BY <1>1, <1>2, <1>3, <1>4 DEF RenderInv

\* A render joins the queue for a page.
LEMMA QueueKeeps ==
  ASSUME RenderInv, NEW c \in Crawl, Queue(c)
  PROVE  /\ RenderInv'
         /\ renders'[c] # "none" /\ \A b \in Crawl \ {c} : renders'[b] = renders[b]
<1>1. /\ renders[c] = "none" /\ Goes(c, "queued") /\ UNCHANGED <<pages, browser, launcher>>
      /\ pages \in Int /\ pages >= 0 /\ browser \in {"none", "connected", "dead"}
  BY DEF Queue, RenderInv
<1>2. /\ pages' = pages + (IF renders[c] \in {"none", "queued"} THEN 0 ELSE 1)
                        - (IF "queued" \in {"none", "queued"} THEN 0 ELSE 1)
      /\ "queued" \in Renders
  BY <1>1 DEF Renders
<1>3. /\ RenderInv' /\ renders'[c] = "queued"
      /\ \A b \in Crawl \ {c} : renders'[b] = renders[b]
  BY <1>1, <1>2, RenderStepKeeps
<1> QED
  BY <1>3

\* A render takes its page, the launch lock, the browser, its context and its document.
LEMMA PrepareKeeps ==
  ASSUME RenderInv, NEW c \in Crawl,
         TakePage(c) \/ TakeLock(c) \/ Launched(c) \/ Opened(c) \/ Loaded(c)
  PROVE  /\ RenderInv'
         /\ renders'[c] # "none" /\ \A b \in Crawl \ {c} : renders'[b] = renders[b]
<1>0. /\ pages \in Int /\ pages >= 0 /\ browser \in {"none", "connected", "dead"} /\ c # 0
      /\ {"locking", "launching", "opening", "loading", "closing"} \subseteq Renders
  BY RendererAssumption DEF RenderInv, Renders
<1> DEFINE rest == /\ RenderInv' /\ renders'[c] # "none"
                   /\ \A b \in Crawl \ {c} : renders'[b] = renders[b]
<1>1. CASE TakePage(c)
  <2>1. PICK at \in {"opening", "locking"} : Goes(c, at)
    BY <1>1 DEF TakePage
  <2>2. /\ renders[c] = "queued" /\ pages' = pages - 1 /\ pages > 0
        /\ UNCHANGED <<browser, launcher>>
    BY <1>1 DEF TakePage
  <2>3. pages' = pages + (IF renders[c] \in {"none", "queued"} THEN 0 ELSE 1)
                       - (IF at \in {"none", "queued"} THEN 0 ELSE 1) /\ pages' >= 0
    BY <1>0, <2>1, <2>2
  <2>4. /\ RenderInv' /\ renders'[c] = at /\ \A b \in Crawl \ {c} : renders'[b] = renders[b]
    BY <1>0, <2>1, <2>2, <2>3, RenderStepKeeps
  <2> QED
    BY <2>1, <2>4
<1>2. CASE TakeLock(c) \/ Launched(c) \/ Opened(c) \/ Loaded(c)
  <2>1. PICK at \in {"launching", "opening", "loading", "closing"} :
          /\ Goes(c, at)
          /\ \/ launcher' = launcher /\ renders[c] # "launching" /\ at # "launching"
             \/ launcher' = c /\ launcher = 0 /\ at = "launching"
             \/ launcher' = 0 /\ renders[c] = "launching" /\ at # "launching"
    <3>1. CASE TakeLock(c)
      <4>1. CASE MustLaunch
        BY <3>1, <4>1 DEF TakeLock
      <4>2. CASE ~MustLaunch
        BY <3>1, <4>2 DEF TakeLock
      <4> QED
        BY <4>1, <4>2
    <3>2. CASE Launched(c)
      BY <3>2 DEF Launched
    <3>3. CASE Opened(c)
      BY <3>3 DEF Opened
    <3>4. CASE Loaded(c)
      BY <3>4 DEF Loaded
    <3> QED
      BY <1>2, <3>1, <3>2, <3>3, <3>4
  <2>2. /\ renders[c] \in {"locking", "launching", "opening", "loading"} /\ pages' = pages
        /\ browser' \in {"none", "connected", "dead"}
    BY <1>0, <1>2 DEF TakeLock, Launched, Opened, Loaded
  <2>3. pages' = pages + (IF renders[c] \in {"none", "queued"} THEN 0 ELSE 1)
                       - (IF at \in {"none", "queued"} THEN 0 ELSE 1) /\ pages' >= 0
    BY <1>0, <2>1, <2>2
  <2>4. /\ RenderInv' /\ renders'[c] = at /\ \A b \in Crawl \ {c} : renders'[b] = renders[b]
    BY <1>0, <2>1, <2>2, <2>3, RenderStepKeeps
  <2> QED
    BY <2>1, <2>4
<1> QED
  BY <1>1, <1>2

\* A render ends with its context closed, or before there is one.
LEMMA RenderEndsKeeps ==
  ASSUME RenderInv, NEW c \in Crawl, Closed(c) \/ Abandon(c)
  PROVE  /\ RenderInv'
         /\ renders'[c] = "none" /\ \A b \in Crawl \ {c} : renders'[b] = renders[b]
<1>0. /\ pages \in Int /\ pages >= 0 /\ browser \in {"none", "connected", "dead"} /\ c # 0
      /\ "none" \in Renders
  BY RendererAssumption DEF RenderInv, Renders
<1>1. Goes(c, "none") /\ browser' = browser
  BY DEF Closed, Abandon
<1>2. pages' = pages + (IF renders[c] \in {"none", "queued"} THEN 0 ELSE 1)
                     - (IF "none" \in {"none", "queued"} THEN 0 ELSE 1) /\ pages' >= 0
  BY <1>0 DEF Closed, Abandon
<1>3. \/ launcher' = launcher /\ renders[c] # "launching"
      \/ launcher' = 0 /\ renders[c] = "launching"
  BY DEF Closed, Abandon
<1> QED
  BY <1>0, <1>1, <1>2, <1>3, RenderStepKeeps

\* A step of the limiter or of a fetch leaves the renderer sound.
LEMMA RenderUnchanged ==
  ASSUME RenderInv, UNCHANGED <<pages, launcher, renders>>,
         browser' \in {"none", "connected", "dead"}
  PROVE  RenderInv' /\ renders' = renders
BY DEF RenderInv, Permitted
-----------------------------------------------------------------------------
(* The fetches *)

\* Besides what is promised: a render belongs to a fetch, only an attempt that
\* is not the last is followed by a pause, and a fetch has a URL.
\* What a fetch has behind it at each stage: no attempt before its first, a hop
\* that was validated before the policy is asked, one that was allowed after it.
Ready(f) ==
  /\ f.at \in {"gate", "render", "validate", "policy"} => f.attempt = 0
  /\ f.at = "policy" => f.validated = <<f.url, f.hop>>
  /\ f.at \in {"token", "stream", "sleep"} => Cleared(f)

FetchPart ==
  /\ fetches \in [Crawl -> Fetch]
  /\ HopsCleared
  /\ \A c \in Crawl :
       /\ renders[c] # "none" <=> fetches[c].at = "render"
       /\ fetches[c].at = "sleep" => fetches[c].attempt < MaxAttempts
       /\ fetches[c].at # "idle" => fetches[c].url \in Domain
       /\ Ready(fetches[c])

IInv == LimiterInv /\ RenderInv /\ FetchPart

\* What the invariant says of one crawl.
LEMMA FetchFacts ==
  ASSUME FetchPart, NEW c \in Crawl
  PROVE  /\ fetches[c] \in Fetch
         /\ fetches[c].pause <= fetches[c].budget
         /\ Ready(fetches[c])
         /\ fetches[c].at = "token" <=> tickets[c] # "none"
         /\ fetches[c].at = "render" <=> renders[c] # "none"
         /\ fetches[c].at = "sleep" => fetches[c].attempt < MaxAttempts
         /\ fetches[c].at # "idle" => fetches[c].url \in Domain
<1>1. fetches[c] \in Fetch
  BY DEF FetchPart
<1>2. fetches[c].pause <= fetches[c].budget
  BY DEF FetchPart, HopsCleared
<1>3. Ready(fetches[c])
  BY DEF FetchPart
<1>4. fetches[c].at = "token" <=> tickets[c] # "none"
  BY DEF FetchPart, HopsCleared
<1>5. fetches[c].at = "render" <=> renders[c] # "none"
  BY DEF FetchPart
<1>6. fetches[c].at = "sleep" => fetches[c].attempt < MaxAttempts
  BY DEF FetchPart
<1>7. fetches[c].at # "idle" => fetches[c].url \in Domain
  BY DEF FetchPart
<1> QED
  BY <1>1, <1>2, <1>3, <1>4, <1>5, <1>6, <1>7

\* What every step of a crawl has in common.
LEMMA CrawlStepKeeps ==
  ASSUME FetchPart, NEW c \in Crawl, NEW f \in Fetch,
         fetches' = [fetches EXCEPT ![c] = f],
         Ready(f),
         f.pause <= f.budget,
         f.at = "token" <=> tickets'[c] # "none",
         f.at = "render" <=> renders'[c] # "none",
         f.at = "sleep" => f.attempt < MaxAttempts,
         f.at # "idle" => f.url \in Domain,
         \A b \in Crawl \ {c} : tickets'[b] = tickets[b] /\ renders'[b] = renders[b]
  PROVE  FetchPart'
<1>1. /\ fetches' \in [Crawl -> Fetch] /\ fetches'[c] = f
      /\ \A b \in Crawl \ {c} : fetches'[b] = fetches[b]
  BY DEF FetchPart
<1>2. HopsCleared'
  BY <1>1 DEF FetchPart, HopsCleared, Ready
<1> QED
  BY <1>1, <1>2 DEF FetchPart

\* The record of a crawl that fetches nothing is a record like the others.
LEMMA NoFetchType ==
  /\ NoFetch \in Fetch /\ NoFetch.at = "idle" /\ NoFetch.pause = 0 /\ NoFetch.budget = 0
BY FetcherAssumption DEF NoFetch, Fetch, Hop

\* The hop a crawl is at can be recorded.
LEMMA HopType ==
  ASSUME NEW c \in Crawl, fetches[c] \in Fetch
  PROVE  /\ HopOf(c) \in Hop
         /\ LET g == [fetches[c] EXCEPT !.allowed = HopOf(c)]
            IN  /\ g \in Fetch /\ g.attempt = fetches[c].attempt /\ g.pause = fetches[c].pause
                /\ g.budget = fetches[c].budget /\ g.url = fetches[c].url
<1>1. HopOf(c) \in Hop
  BY DEF HopOf, Hop, Fetch
<1> QED
  BY <1>1 DEF Fetch

\* A fetch that ends leaves neither a ticket nor a page behind.
LEMMA EndsKeeps ==
  ASSUME FetchPart, NEW c \in Crawl, Ends(c), tickets'[c] = "none", renders'[c] = "none",
         \A b \in Crawl \ {c} : tickets'[b] = tickets[b] /\ renders'[b] = renders[b]
  PROVE  FetchPart'
<1> DEFINE f == NoFetch
<1>1. /\ f \in Fetch /\ f.at = "idle" /\ f.pause = 0 /\ f.budget = 0
      /\ fetches' = [fetches EXCEPT ![c] = f]
  BY NoFetchType DEF Ends
<1> HIDE DEF f
<1>2. /\ Ready(f)
      /\ f.pause <= f.budget
      /\ f.at = "token" <=> tickets'[c] # "none"
      /\ f.at = "render" <=> renders'[c] # "none"
      /\ f.at = "sleep" => f.attempt < MaxAttempts
      /\ f.at # "idle" => f.url \in Domain
  BY <1>1 DEF Ready
<1> QED
  BY <1>1, <1>2, CrawlStepKeeps

\* A fetch that moves to its next stage has what that stage needs.
LEMMA MovesKeeps ==
  ASSUME FetchPart, NEW c \in Crawl, NEW at \in {"validate", "render", "stream"},
         Moves(c, at), fetches[c].at # "idle",
         fetches[c].at \in (IF at = "stream" THEN {"token"} ELSE {"gate", "render"}),
         tickets'[c] = "none",
         at = "render" <=> renders'[c] # "none",
         \A b \in Crawl \ {c} : tickets'[b] = tickets[b] /\ renders'[b] = renders[b]
  PROVE  FetchPart'
<1> DEFINE f == [fetches[c] EXCEPT !.at = at]
<1>1. fetches[c] \in Fetch /\ fetches[c].pause <= fetches[c].budget /\ fetches[c].url \in Domain
      /\ Ready(fetches[c])
  BY FetchFacts
<1>2. /\ f \in Fetch /\ f.at = at /\ Ready(f)
      /\ f.pause = fetches[c].pause /\ f.budget = fetches[c].budget /\ f.url = fetches[c].url
  BY <1>1 DEF Fetch, Ready, Cleared
<1>3. fetches' = [fetches EXCEPT ![c] = f]
  BY DEF Moves, FetchPart
<1> HIDE DEF f
<1> QED
  BY <1>1, <1>2, <1>3, CrawlStepKeeps

\* The top of the retry loop, for a fetch that is cleared and has attempts left.
LEMMA AttemptKeeps ==
  ASSUME IInv, NEW c \in Crawl, NEW g \in Fetch, Attempt(c, g), Cleared(g),
         g.attempt < MaxAttempts, g.pause <= g.budget, g.url \in Domain,
         fetches[c].at \in {"policy", "stream", "sleep"}, UNCHANGED renderVars
  PROVE  IInv'
<1>0. LimiterInv /\ RenderInv /\ FetchPart /\ Crawl = Caller
  BY FetcherAssumption DEF IInv
<1>1. RenderInv' /\ renders' = renders
  BY <1>0, RenderUnchanged DEF renderVars, RenderInv
<1>2. renders[c] = "none" /\ tickets[c] = "none"
  BY <1>0, FetchFacts
<1>3. CASE DeadlinePassed(c)
  <2>1. Ends(c) /\ UNCHANGED limiterVars
    BY <1>3 DEF Attempt
  <2>2. LimiterInv' /\ tickets' = tickets
    BY <1>0, <2>1, LimiterUnchanged
  <2>3. FetchPart'
    BY <1>0, <1>1, <1>2, <2>1, <2>2, EndsKeeps
  <2> QED
    BY <1>1, <2>2, <2>3 DEF IInv
<1>4. CASE ~DeadlinePassed(c)
  <2> DEFINE f == [g EXCEPT !.at = "token", !.attempt = g.attempt + 1]
  <2>1. Register(c, g.url) /\ fetches' = [fetches EXCEPT ![c] = f]
    BY <1>4 DEF Attempt
  <2>2. /\ LimiterInv' /\ tickets'[c] # "none"
        /\ \A b \in Crawl \ {c} : tickets'[b] = tickets[b]
    BY <1>0, <1>2, <2>1, RegisterKeeps
  <2>3. f \in Fetch
    <3>1. g.attempt + 1 \in 0 .. MaxAttempts
      BY FetcherAssumption DEF Fetch
    <3> QED
      BY <3>1 DEF Fetch
  <2>4. /\ f.at = "token" /\ f.url = g.url /\ f.pause = g.pause /\ f.budget = g.budget
        /\ f.validated = g.validated /\ f.allowed = g.allowed /\ f.hop = g.hop
    BY DEF Fetch
  <2> HIDE DEF f
  <2>5. Ready(f)
    BY <2>4 DEF Ready, Cleared
  <2>6. FetchPart'
    BY <1>0, <1>1, <1>2, <2>1, <2>2, <2>3, <2>4, <2>5, CrawlStepKeeps
  <2> QED
    BY <1>1, <2>2, <2>6 DEF IInv
<1> QED
  BY <1>3, <1>4

\* Nothing is fetched, rendered or limited at the start.
LEMMA InitIInv ==
  ASSUME Init
  PROVE  IInv
<1>0. /\ Burst \in Nat \ {0} /\ MaxDomains \in Nat \ {0} /\ MaxPages \in Nat \ {0} /\ 0 \notin Crawl
      /\ IsFiniteSet(Caller) /\ Crawl = Caller /\ "none" \notin Domain
  BY LimiterAssumption, RendererAssumption, FetcherAssumption
<1>1. /\ limiters = << >> /\ limiters \in Seq(Domain) /\ Len(limiters) = 0
      /\ DOMAIN limiters = {} /\ Range(limiters) = {}
  BY EmptySeq DEF Init, LimiterInit, Range
<1>2. LimiterType
  BY <1>0, <1>1 DEF Init, LimiterInit, LimiterType, Refill
<1>3. RegistryExact
  <2>1. Len(limiters) <= MaxDomains /\ IsInjective(limiters)
    BY <1>0, <1>1 DEF IsInjective
  <2>2. ASSUME NEW d \in Domain
        PROVE  inUse[d] = 0 /\ {k \in Caller : tickets[k] = d} = {}
    BY <1>0 DEF Init, LimiterInit
  <2>3. ASSUME NEW d \in Domain
        PROVE  inUse[d] = Cardinality({k \in Caller : tickets[k] = d})
    BY <2>2, FS_EmptySet
  <2> QED
    BY <2>1, <2>2, <2>3 DEF RegistryExact
<1>4. BurstInv
  BY <1>0, <1>1 DEF Init, LimiterInit, BurstInv
<1>5. RenderInv
  <2>1. Permitted = {}
    BY DEF Init, RendererInit, Permitted
  <2> QED
    BY <1>0, <2>1, FS_EmptySet DEF Init, RendererInit, RenderInv, Renders
<1>6. FetchPart
  <2>1. fetches = [c \in Crawl |-> NoFetch] /\ fetches \in [Crawl -> Fetch]
    BY NoFetchType DEF Init
  <2>2. ASSUME NEW c \in Crawl
        PROVE  /\ fetches[c].at = "idle" /\ fetches[c].pause = 0 /\ fetches[c].budget = 0
               /\ tickets[c] = "none" /\ renders[c] = "none" /\ Ready(fetches[c])
    BY <1>0, <2>1, NoFetchType DEF Init, LimiterInit, RendererInit, Ready
  <2>3. HopsCleared
    BY <2>2 DEF HopsCleared
  <2> QED
    BY <2>1, <2>2, <2>3 DEF FetchPart
<1> QED
  BY <1>2, <1>3, <1>4, <1>5, <1>6 DEF IInv, LimiterInv

\* A crawl starts.
LEMMA StartKeeps ==
  ASSUME IInv, NEW c \in Crawl, NEW url \in Domain, Begin(c, url)
  PROVE  IInv'
<1>0. LimiterInv /\ RenderInv /\ FetchPart
  BY DEF IInv
<1>1. /\ LimiterInv' /\ tickets' = tickets /\ RenderInv' /\ renders' = renders
  BY <1>0, LimiterUnchanged, RenderUnchanged DEF Begin, renderVars, RenderInv
<1>2. PICK at \in {"gate", "validate"} :
        fetches' = [fetches EXCEPT ![c] = [NoFetch EXCEPT !.at = at, !.url = url, !.budget = Total]]
  BY DEF Begin
<1> DEFINE f == [NoFetch EXCEPT !.at = at, !.url = url, !.budget = Total]
<1>3. /\ f \in Fetch /\ f.at = at /\ f.url = url /\ f.budget = Total /\ f.pause = 0
      /\ Ready(f)
  <2>1. /\ 0 \in 0 .. MaxRedirects /\ 0 \in 0 .. MaxAttempts /\ 0 \in 0 .. MaxPause
        /\ Total \in 0 .. Total /\ url \in Domain \cup {"none"}
    BY FetcherAssumption
  <2>2. NoFetch \in Fetch /\ NoFetch.pause = 0 /\ NoFetch.attempt = 0
    BY NoFetchType DEF NoFetch
  <2> QED
    BY <2>1, <2>2 DEF Fetch, Ready
<1>4. fetches' = [fetches EXCEPT ![c] = f] /\ f.pause <= f.budget
  BY <1>2, <1>3, FetcherAssumption
<1>5. tickets[c] = "none" /\ renders[c] = "none"
  BY <1>0, FetchFacts DEF Begin, At
<1> HIDE DEF f
<1>6. FetchPart'
  BY <1>0, <1>1, <1>3, <1>4, <1>5, CrawlStepKeeps
<1> QED
  BY <1>1, <1>6 DEF IInv

\* A step of a crawl that neither registers for a token nor holds one.
LEMMA EndsOrMoves ==
  ASSUME LimiterInv', RenderInv', FetchPart, NEW c \in Crawl,
         fetches[c].at # "idle", tickets'[c] = "none",
         \A b \in Crawl \ {c} : tickets'[b] = tickets[b] /\ renders'[b] = renders[b],
         \/ Ends(c) /\ renders'[c] = "none"
         \/ Moves(c, "validate") /\ renders'[c] = "none" /\ fetches[c].at \in {"gate", "render"}
         \/ Moves(c, "render") /\ renders'[c] # "none" /\ fetches[c].at = "gate"
         \/ Moves(c, "stream") /\ renders'[c] = "none" /\ fetches[c].at = "token"
  PROVE  IInv'
<1>1. CASE Ends(c) /\ renders'[c] = "none"
  BY <1>1, EndsKeeps DEF IInv
<1>2. CASE ~(Ends(c) /\ renders'[c] = "none")
  <2>1. PICK at \in {"validate", "render", "stream"} :
          /\ Moves(c, at)
          /\ fetches[c].at \in (IF at = "stream" THEN {"token"} ELSE {"gate", "render"})
          /\ at = "render" <=> renders'[c] # "none"
    BY <1>2
  <2> QED
    BY <2>1, MovesKeeps DEF IInv
<1> QED
  BY <1>1, <1>2

\* The steps of a rendered crawl keep the invariant.
LEMMA RenderingKeeps ==
  ASSUME IInv, NEW c \in Crawl, Gate(c) \/ Prepare(c) \/ Rendered(c)
  PROVE  IInv'
<1>0. LimiterInv /\ RenderInv /\ FetchPart
  BY DEF IInv
<1>1. LimiterInv' /\ tickets' = tickets
  BY <1>0, LimiterUnchanged DEF Gate, Prepare, Rendered
<1>2. fetches[c].at \in {"gate", "render"} /\ tickets'[c] = "none"
  BY <1>0, <1>1, FetchFacts DEF Gate, Prepare, Rendered, At
<1>3. CASE Gate(c)
  <2>1. CASE UNCHANGED renderVars /\ (Ends(c) \/ Moves(c, "validate"))
    <3>1. RenderInv' /\ renders' = renders
      BY <1>0, <2>1, RenderUnchanged DEF renderVars, RenderInv
    <3>2. renders[c] = "none"
      BY <1>0, <1>3, FetchFacts DEF Gate, At
    <3> QED
      BY <1>0, <1>1, <1>2, <2>1, <3>1, <3>2, EndsOrMoves
  <2>2. CASE Moves(c, "render") /\ Queue(c)
    <3>0. fetches[c].at = "gate"
      BY <1>3 DEF Gate, At
    <3>1. /\ RenderInv' /\ renders'[c] # "none"
          /\ \A b \in Crawl \ {c} : renders'[b] = renders[b]
      BY <1>0, <2>2, QueueKeeps
    <3> QED
      BY <1>0, <1>1, <1>2, <2>2, <3>0, <3>1, EndsOrMoves
  <2> QED
    BY <1>3, <2>1, <2>2 DEF Gate
<1>4. CASE Prepare(c)
  <2>1. /\ RenderInv' /\ renders'[c] # "none"
        /\ \A b \in Crawl \ {c} : renders'[b] = renders[b]
    BY <1>0, <1>4, PrepareKeeps DEF Prepare
  <2>2. fetches' = fetches /\ fetches[c].at = "render"
    BY <1>4 DEF Prepare, At
  <2>3. HopsCleared'
    BY <1>0, <1>1, <2>2 DEF FetchPart, HopsCleared
  <2>4. FetchPart'
    BY <1>0, <2>1, <2>2, <2>3 DEF FetchPart
  <2> QED
    BY <1>1, <2>1, <2>4 DEF IInv
<1>5. CASE Rendered(c)
  <2>1. Ends(c) \/ Moves(c, "validate")
    BY <1>5 DEF Rendered
  <2>2. /\ RenderInv' /\ renders'[c] = "none"
        /\ \A b \in Crawl \ {c} : renders'[b] = renders[b]
    BY <1>0, <1>5, RenderEndsKeeps DEF Rendered
  <2> QED
    BY <1>0, <1>1, <1>2, <2>1, <2>2, EndsOrMoves
<1> QED
  BY <1>3, <1>4, <1>5

\* Validation, policy, token, the end of a pause and the timeout keep the invariant.
LEMMA HopKeeps ==
  ASSUME IInv, NEW c \in Crawl, Validate(c) \/ Policy(c) \/ Token(c) \/ Wake(c) \/ TimeOut(c)
  PROVE  IInv'
<1>0. LimiterInv /\ RenderInv /\ FetchPart /\ Crawl = Caller
  BY FetcherAssumption DEF IInv
<1>1. UNCHANGED renderVars
  BY DEF Validate, Policy, Token, Wake, TimeOut
<1>2. RenderInv' /\ renders' = renders
  BY <1>0, <1>1, RenderUnchanged DEF renderVars, RenderInv
<1>3. fetches[c].at \in {"validate", "policy", "token", "stream", "sleep"} /\ renders[c] = "none"
  BY <1>0, FetchFacts DEF Validate, Policy, Token, Wake, TimeOut, At
<1>4. CASE UNCHANGED limiterVars /\ fetches[c].at # "token" /\ Ends(c)
  <2>1. LimiterInv' /\ tickets' = tickets /\ tickets[c] = "none"
    BY <1>0, <1>4, LimiterUnchanged, FetchFacts
  <2> QED
    BY <1>0, <1>2, <1>3, <1>4, <2>1, EndsOrMoves
<1>5. CASE Policy(c) /\ ~(UNCHANGED limiterVars /\ Ends(c))
  <2> DEFINE g == [fetches[c] EXCEPT !.allowed = HopOf(c)]
  <2>1. fetches[c].at = "policy" /\ Attempt(c, g)
    BY <1>5 DEF Policy, At
  <2>2. /\ fetches[c] \in Fetch /\ fetches[c].pause <= fetches[c].budget
        /\ fetches[c].url \in Domain /\ fetches[c].attempt = 0
        /\ fetches[c].validated = HopOf(c)
    BY <1>0, <2>1, FetchFacts DEF Ready, HopOf
  <2>3. g \in Fetch /\ g.attempt = 0 /\ g.pause <= g.budget /\ g.url \in Domain
    BY <2>2, HopType
  <2>4. Cleared(g)
    BY <2>2 DEF Cleared, HopOf, Fetch
  <2> HIDE DEF g
  <2> QED
    BY <1>1, <2>1, <2>3, <2>4, FetcherAssumption, AttemptKeeps
<1>6. CASE Wake(c)
  <2>1. fetches[c].at = "sleep" /\ Attempt(c, fetches[c])
    BY <1>6 DEF Wake, At
  <2>2. /\ fetches[c] \in Fetch /\ fetches[c].pause <= fetches[c].budget
        /\ fetches[c].url \in Domain /\ fetches[c].attempt < MaxAttempts
        /\ Cleared(fetches[c])
    BY <1>0, <2>1, FetchFacts DEF Ready
  <2> QED
    BY <1>1, <2>1, <2>2, AttemptKeeps
<1>7. CASE Token(c)
  <2>1. Granted(c) /\ Moves(c, "stream") /\ fetches[c].at = "token"
    BY <1>7 DEF Token, At
  <2>2. /\ LimiterInv' /\ tickets'[c] = "none"
        /\ \A b \in Crawl \ {c} : tickets'[b] = tickets[b]
    BY <1>0, <2>1, GrantedKeeps
  <2> QED
    BY <1>0, <1>2, <1>3, <2>1, <2>2, EndsOrMoves
<1>8. CASE Ends(c) /\ GivesUp(c)
  <2>1. /\ LimiterInv' /\ tickets'[c] = "none"
        /\ \A b \in Crawl \ {c} : tickets'[b] = tickets[b]
    BY <1>0, <1>8, GivesUpKeeps
  <2> QED
    BY <1>0, <1>2, <1>3, <1>8, <2>1, EndsOrMoves
<1>9. CASE Validate(c) /\ ~Ends(c)
  <2> DEFINE f == [fetches[c] EXCEPT !.at = "policy", !.validated = HopOf(c)]
  <2>1. /\ fetches[c].at = "validate" /\ UNCHANGED limiterVars
        /\ fetches' = [fetches EXCEPT ![c].at = "policy", ![c].validated = HopOf(c)]
    BY <1>9 DEF Validate, At
  <2>2. fetches' = [fetches EXCEPT ![c] = f]
    BY <1>0, <2>1 DEF FetchPart
  <2>3. /\ fetches[c] \in Fetch /\ fetches[c].pause <= fetches[c].budget
        /\ fetches[c].url \in Domain /\ fetches[c].attempt = 0 /\ tickets[c] = "none"
    BY <1>0, <2>1, FetchFacts DEF Ready
  <2>4. f \in Fetch
    BY <2>3, HopType DEF Fetch
  <2>5. /\ f.at = "policy" /\ f.attempt = 0 /\ f.pause <= f.budget /\ f.url \in Domain
        /\ f.validated = <<f.url, f.hop>>
    BY <2>3 DEF Fetch, HopOf
  <2> HIDE DEF f
  <2>6. LimiterInv' /\ tickets' = tickets
    BY <1>0, <2>1, LimiterUnchanged
  <2>7. Ready(f)
    BY <2>5 DEF Ready
  <2>8. FetchPart'
    BY <1>0, <1>2, <1>3, <2>2, <2>3, <2>4, <2>5, <2>6, <2>7, CrawlStepKeeps
  <2> QED
    BY <1>2, <2>6, <2>8 DEF IInv
<1>10. \/ UNCHANGED limiterVars /\ fetches[c].at # "token" /\ Ends(c)
       \/ Policy(c) /\ ~(UNCHANGED limiterVars /\ Ends(c))
       \/ Wake(c) \/ Token(c)
       \/ Ends(c) /\ GivesUp(c)
       \/ Validate(c) /\ ~Ends(c)
  BY DEF Validate, Policy, Token, Wake, TimeOut, At
<1> QED
  BY <1>4, <1>5, <1>6, <1>7, <1>8, <1>9, <1>10

\* Whatever the server answers, the invariant is kept.
LEMMA ResponseKeeps ==
  ASSUME IInv, NEW c \in Crawl, Response(c)
  PROVE  IInv'
<1>0. /\ LimiterInv /\ RenderInv /\ FetchPart
      /\ fetches[c].at = "stream"
  BY DEF IInv, Response, Answered, Redirected, Retry, At
<1>1. UNCHANGED renderVars /\ RenderInv' /\ renders' = renders
  BY <1>0, RenderUnchanged DEF Response, Answered, Redirected, Retry, renderVars, RenderInv
<1>2. /\ renders[c] = "none" /\ tickets[c] = "none"
      /\ fetches[c] \in Fetch /\ fetches[c].pause <= fetches[c].budget /\ fetches[c].url \in Domain
      /\ Cleared(fetches[c])
  BY <1>0, FetchFacts DEF Ready
<1>3. CASE UNCHANGED limiterVars /\ Ends(c)
  <2>1. LimiterInv' /\ tickets' = tickets
    BY <1>0, <1>3, LimiterUnchanged
  <2> QED
    BY <1>0, <1>1, <1>2, <1>3, <2>1, EndsOrMoves
<1>4. ASSUME NEW f \in Fetch, UNCHANGED limiterVars, fetches' = [fetches EXCEPT ![c] = f],
             f.at \in {"validate", "sleep"}, f.pause <= f.budget, f.url \in Domain,
             f.at = "validate" => f.attempt = 0,
             f.at = "sleep" => Cleared(f) /\ f.attempt < MaxAttempts
      PROVE  IInv'
  <2>1. LimiterInv' /\ tickets' = tickets
    BY <1>0, <1>4, LimiterUnchanged
  <2>2. /\ f.at = "token" <=> tickets'[c] # "none"
        /\ f.at = "render" <=> renders'[c] # "none"
        /\ Ready(f)
    BY <1>1, <1>2, <1>4, <2>1 DEF Ready
  <2>3. FetchPart'
    BY <1>0, <1>1, <1>4, <2>1, <2>2, CrawlStepKeeps
  <2> QED
    BY <1>1, <2>1, <2>3 DEF IInv
<1>5. ASSUME NEW url \in Domain, Redirected(c, url), fetches[c].hop < MaxRedirects
      PROVE  IInv'
  <2> DEFINE f == [fetches[c] EXCEPT !.at = "validate", !.url = url, !.hop = fetches[c].hop + 1,
                                     !.attempt = 0]
  <2>1. /\ fetches' = [fetches EXCEPT ![c].at = RedirectedTo, ![c].url = url, ![c].hop = @ + 1,
                                      ![c].attempt = 0]
        /\ UNCHANGED limiterVars
    BY <1>5 DEF Redirected
  <2>2. fetches' = [fetches EXCEPT ![c] = f]
    BY <1>0, <2>1 DEF FetchPart, RedirectedTo
  <2>3. fetches[c].hop + 1 \in 0 .. MaxRedirects
    BY <1>2, <1>5, FetcherAssumption DEF Fetch
  <2>4. /\ f \in Fetch /\ f.at = "validate" /\ f.url = url /\ f.attempt = 0
        /\ f.pause = fetches[c].pause /\ f.budget = fetches[c].budget
    <3>1. 0 \in 0 .. MaxAttempts /\ url \in Domain \cup {"none"}
      BY FetcherAssumption
    <3> QED
      BY <1>2, <2>3, <3>1 DEF Fetch
  <2> HIDE DEF f
  <2> QED
    BY <1>2, <1>4, <2>1, <2>2, <2>4
<1>6. ASSUME NEW delay \in 0 .. MaxPause, Retry(c, delay),
             ~(Ends(c) /\ UNCHANGED limiterVars)
      PROVE  IInv'
  <2>1. fetches[c].attempt < MaxAttempts /\ fetches[c].budget \in Nat /\ delay \in Nat
    BY <1>2, <1>6, FetcherAssumption DEF Retry, Fetch
  <2>2. delay < fetches[c].budget
    BY <1>6, <2>1 DEF Retry
  <2>3. CASE delay = 0
    <3>1. Attempt(c, fetches[c])
      BY <1>6, <2>1, <2>2, <2>3 DEF Retry
    <3> QED
      BY <1>0, <1>1, <1>2, <2>1, <3>1, AttemptKeeps
  <2>4. CASE delay # 0
    <3> DEFINE f == [fetches[c] EXCEPT !.at = "sleep", !.pause = delay]
    <3>1. /\ fetches' = [fetches EXCEPT ![c].at = "sleep", ![c].pause = delay]
          /\ UNCHANGED limiterVars
      BY <1>6, <2>1, <2>2, <2>4 DEF Retry
    <3>2. fetches' = [fetches EXCEPT ![c] = f]
      BY <1>0, <3>1 DEF FetchPart
    <3>3. /\ f \in Fetch /\ f.at = "sleep" /\ f.url = fetches[c].url /\ f.hop = fetches[c].hop
          /\ f.validated = fetches[c].validated /\ f.allowed = fetches[c].allowed
          /\ f.pause = delay /\ f.budget = fetches[c].budget /\ f.attempt = fetches[c].attempt
      BY <1>2 DEF Fetch
    <3>4. f.pause <= f.budget /\ Cleared(f)
      BY <1>2, <2>1, <2>2, <3>3 DEF Cleared
    <3> HIDE DEF f
    <3> QED
      BY <1>2, <1>4, <2>1, <3>1, <3>2, <3>3, <3>4
  <2> QED
    BY <2>3, <2>4
<1> QED
  BY <1>3, <1>5, <1>6 DEF Response, Answered, Redirected, Retry

\* A cancellation at any stage keeps the invariant.
LEMMA CancelKeeps ==
  ASSUME IInv, NEW c \in Crawl, Cancel(c)
  PROVE  IInv'
<1>0. /\ LimiterInv /\ RenderInv /\ FetchPart /\ Crawl = Caller
      /\ fetches[c].at # "idle"
  BY FetcherAssumption DEF IInv, Cancel, At
<1>1. /\ LimiterInv' /\ tickets'[c] = "none"
      /\ \A b \in Crawl \ {c} : tickets'[b] = tickets[b]
  <2>1. CASE fetches[c].at = "token"
    BY <1>0, <2>1, GivesUpKeeps DEF Cancel, At
  <2>2. CASE fetches[c].at # "token"
    BY <1>0, <2>2, LimiterUnchanged, FetchFacts DEF Cancel, At
  <2> QED
    BY <2>1, <2>2
<1>2. CASE fetches[c].at # "render"
  <2>1. Ends(c) /\ UNCHANGED renderVars /\ renders[c] = "none"
    BY <1>0, <1>2, FetchFacts DEF Cancel, At
  <2>2. RenderInv' /\ renders' = renders
    BY <1>0, <2>1, RenderUnchanged DEF renderVars, RenderInv
  <2> QED
    BY <1>0, <1>1, <2>1, <2>2, EndsOrMoves
<1>3. CASE Ends(c) /\ (Abandon(c) \/ Closed(c))
  <2>1. /\ RenderInv' /\ renders'[c] = "none"
        /\ \A b \in Crawl \ {c} : renders'[b] = renders[b]
    BY <1>0, <1>3, RenderEndsKeeps
  <2> QED
    BY <1>0, <1>1, <1>3, <2>1, EndsOrMoves
<1>4. CASE fetches[c].at = "render" /\ Loaded(c) /\ fetches' = [fetches EXCEPT ![c].cancelled = TRUE]
  <2> DEFINE f == [fetches[c] EXCEPT !.cancelled = TRUE]
  <2>1. fetches' = [fetches EXCEPT ![c] = f]
    BY <1>0, <1>4 DEF FetchPart
  <2>2. /\ fetches[c] \in Fetch /\ fetches[c].pause <= fetches[c].budget /\ fetches[c].url \in Domain
        /\ fetches[c].attempt = 0
    BY <1>0, <1>4, FetchFacts DEF Ready
  <2>3. /\ f \in Fetch /\ f.at = "render" /\ f.url = fetches[c].url
        /\ f.pause = fetches[c].pause /\ f.budget = fetches[c].budget /\ Ready(f)
    BY <1>4, <2>2 DEF Fetch, Ready
  <2>4. /\ RenderInv' /\ renders'[c] # "none"
        /\ \A b \in Crawl \ {c} : renders'[b] = renders[b]
    BY <1>0, <1>4, PrepareKeeps
  <2> HIDE DEF f
  <2>5. FetchPart'
    BY <1>0, <1>1, <2>1, <2>2, <2>3, <2>4, CrawlStepKeeps
  <2> QED
    BY <1>1, <2>4, <2>5 DEF IInv
<1> QED
  BY <1>2, <1>3, <1>4 DEF Cancel, At

\* So does the passing of time.
LEMMA TimeKeeps ==
  ASSUME IInv, Tick
  PROVE  IInv'
<1>0. LimiterInv /\ RenderInv /\ FetchPart
  BY DEF IInv
<1>1. LimiterInv' /\ tickets' = tickets /\ RenderInv' /\ renders' = renders
  BY <1>0, DrainKeeps, RenderUnchanged DEF Tick, renderVars, RenderInv
<1>2. ASSUME NEW c \in Crawl
      PROVE  /\ fetches'[c] \in Fetch /\ fetches'[c].pause <= fetches'[c].budget
             /\ fetches'[c].at = fetches[c].at /\ Ready(fetches'[c])
             /\ fetches'[c].attempt = fetches[c].attempt /\ fetches'[c].url = fetches[c].url
  <2> DEFINE f == fetches[c]
  <2>1. fetches'[c] = [f EXCEPT !.budget = Less(f.budget), !.pause = Less(f.pause)]
    BY DEF Tick
  <2>2. f \in Fetch /\ f.pause <= f.budget /\ Ready(f)
    BY <1>0, FetchFacts
  <2>3. /\ f.pause \in 0 .. MaxPause /\ f.budget \in 0 .. Total
        /\ MaxPause \in Nat /\ Total \in Nat
    BY <2>2, FetcherAssumption DEF Fetch
  <2>4. /\ Less(f.pause) \in 0 .. MaxPause /\ Less(f.budget) \in 0 .. Total
        /\ Less(f.pause) <= Less(f.budget)
    BY <2>2, <2>3 DEF Less
  <2> HIDE DEF f
  <2>5. /\ fetches'[c] \in Fetch
        /\ fetches'[c].pause = Less(f.pause) /\ fetches'[c].budget = Less(f.budget)
        /\ fetches'[c].at = f.at /\ fetches'[c].hop = f.hop
        /\ fetches'[c].validated = f.validated /\ fetches'[c].allowed = f.allowed
        /\ fetches'[c].attempt = f.attempt /\ fetches'[c].url = f.url
    BY <2>1, <2>2, <2>4 DEF Fetch
  <2>6. Ready(fetches'[c])
    BY <2>2, <2>5 DEF Ready, Cleared
  <2> QED
    BY <2>4, <2>5, <2>6 DEF f
<1>3. fetches' \in [Crawl -> Fetch]
  BY <1>2 DEF Tick
<1>4. HopsCleared'
  BY <1>0, <1>1, <1>2 DEF FetchPart, HopsCleared, Ready
<1>5. FetchPart'
  BY <1>0, <1>1, <1>2, <1>3, <1>4 DEF FetchPart
<1> QED
  BY <1>1, <1>5 DEF IInv

\* Every step keeps the invariant.
LEMMA NextIInv ==
  ASSUME IInv, [Next]_vars
  PROVE  IInv'
<1>0. LimiterInv /\ RenderInv /\ FetchPart
  BY DEF IInv
<1>1. CASE CrashBrowser \/ UNCHANGED vars
  <2>1. /\ UNCHANGED <<limiterVars, fetches>> /\ UNCHANGED <<pages, launcher, renders>>
        /\ browser' \in {"none", "connected", "dead"}
    BY <1>0, <1>1 DEF CrashBrowser, Crash, vars, renderVars, RenderInv
  <2>2. LimiterInv' /\ tickets' = tickets /\ RenderInv' /\ renders' = renders
    BY <1>0, <2>1, LimiterUnchanged, RenderUnchanged
  <2>3. HopsCleared'
    BY <1>0, <2>1, <2>2 DEF FetchPart, HopsCleared
  <2>4. FetchPart'
    BY <1>0, <2>1, <2>2, <2>3 DEF FetchPart
  <2> QED
    BY <2>2, <2>4 DEF IInv
<1> QED
  BY <1>1, StartKeeps, RenderingKeeps, HopKeeps, ResponseKeeps, CancelKeeps, TimeKeeps
  DEF Next, FetchStep

\* The inductive invariant of the fetcher, the limiter and the renderer.
LEMMA Invariance == Spec => []IInv
<1>1. Init => IInv
  BY InitIInv
<1>2. IInv /\ [Next]_vars => IInv'
  BY NextIInv
<1> QED
  BY <1>1, <1>2, PTL DEF Spec
-----------------------------------------------------------------------------
(* What it says of every run *)

\* Buckets in the registry are counted exactly and never discarded while they are
\* awaited; page permits and the launch lock balance; every request belongs to a
\* hop that was validated and allowed as it is.
THEOREM FetchingIsSound == Spec => []FetchInv
<1>1. ASSUME IInv
      PROVE  FetchInv
  <2>0. LimiterInv /\ RenderInv /\ FetchPart
    BY <1>1 DEF IInv
  <2>1. pages \in 0 .. MaxPages
    BY <2>0, PagesBounded
  <2>2. TypeOK
    BY <2>0, <2>1 DEF LimiterInv, LimiterType, RenderInv, FetchPart, TypeOK
  <2>3. PagesExact
    BY <2>0 DEF RenderInv, FetchPart, PagesExact, Permitted
  <2> QED
    BY <2>0, <2>2, <2>3 DEF FetchInv, LimiterInv, FetchPart
<1> QED
  BY <1>1, Invariance, PTL

\* Discarding idle buckets never hands a domain a fresh burst (_evict_to_limit).
THEOREM BurstsAreKept == Spec => []BurstsKept
<1>1. ASSUME IInv, NEW d \in Domain
      PROVE  spent[d] = IF d \in Range(limiters) THEN level[d] ELSE 0
  BY <1>1 DEF IInv, LimiterInv, BurstInv
<1>2. IInv => BurstsKept
  BY <1>1 DEF BurstsKept
<1> QED
  BY <1>2, Invariance, PTL

\* Who takes the launch lock looks at the browser again, so a launch never closes
\* a browser that another one connected meanwhile (_ensure_browser).
THEOREM LiveBrowsersAreKept == Spec => BrowserKept
<1>1. ASSUME Next, browser = "connected"
      PROVE  browser' \in {"connected", "dead"}
  <2>1. ASSUME NEW c \in Crawl, FetchStep(c)
        PROVE  browser' \in {"connected", "dead"}
    <3>1. CASE Prepare(c)
      BY <1>1, <3>1 DEF Prepare, TakePage, TakeLock, MustLaunch, Launched, Opened, Loaded
    <3>2. CASE Gate(c) \/ Rendered(c)
      BY <1>1, <3>2 DEF Gate, Queue, Rendered, Abandon, Closed, renderVars
    <3>3. CASE Validate(c) \/ Policy(c) \/ Token(c) \/ Wake(c) \/ TimeOut(c)
      BY <1>1, <3>3 DEF Validate, Policy, Token, Wake, TimeOut, renderVars
    <3> QED
      BY <2>1, <3>1, <3>2, <3>3 DEF FetchStep
  <2>2. ASSUME NEW c \in Crawl, Response(c) \/ Cancel(c) \/ \E url \in Domain : Begin(c, url)
        PROVE  browser' \in {"connected", "dead"}
    BY <1>1, <2>2 DEF Response, Answered, Redirected, Retry, Begin, Cancel, Abandon, Closed, Loaded,
                      renderVars
  <2>3. CASE Tick \/ CrashBrowser
    BY <1>1, <2>3 DEF Tick, CrashBrowser, Crash, renderVars
  <2> QED
    BY <1>1, <2>1, <2>2, <2>3 DEF Next
<1>2. [Next]_vars => [browser = "connected" => browser' \in {"connected", "dead"}]_vars
  BY <1>1
<1> QED
  BY <1>2, PTL DEF Spec, BrowserKept
=============================================================================
