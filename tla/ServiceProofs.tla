--------------------------- MODULE ServiceProofs ----------------------------
(***************************************************************************)
(* Proofs about the parts of the service that MCService runs together, for *)
(* every number of callers, clients, URLs, sitemaps and sizes: the         *)
(* connection to the result cache, a site map, and an answer of /crawl.    *)
(***************************************************************************)
EXTENDS RedisCacheProperties, SiteMapProperties, BatchProperties, Facts

(***************************************************************************)
(* The connection to the result cache                                      *)
(***************************************************************************)

\* Who is not connecting or using a client refers to none, and who connects has
\* one that is open and nobody else's.
HandlersHold ==
  /\ \A k \in Caller : pc[k] \in {"idle", "queued"} => client[k] = None
  /\ \A k \in Handling : client[k] # None
  /\ \A k \in Caller : pc[k] \in {"ping", "discard"} =>
       redis = None /\ client[k] \in open /\ client[k] # closing

\* close() has a client only while it awaits; and before close(), without a client,
\* the cooldown in force is the one that the last failure calls for.
Backs ==
  /\ closer # "closing" => closing = None
  /\ closer = "none" /\ failures <= MaxExponent /\ redis = None => hush <= quiet

CacheIInv == CacheTypeOK /\ ConnectsAlone /\ ClientsAccounted /\ HandlersHold /\ Backs
-----------------------------------------------------------------------------
(* The cooldown *)

\* The recursion that defines the powers of two has its solution.
LEMMA PowersUnfold ==
  \A n \in Nat : PowerOfTwo[n] = IF n = 0 THEN 1 ELSE 2 * PowerOfTwo[n - 1]
<1> DEFINE Upto(n, g) == \A i \in 0 .. n : g[i] = IF i = 0 THEN 1 ELSE 2 * g[i - 1]
           P == {n \in Nat : \E g : Upto(n, g)}
           Q == {n \in Nat : \A m \in Nat : \A g, h : n <= m /\ Upto(n, g) /\ Upto(m, h) => g[n] = h[n]}
           best(n) == CHOOSE g : Upto(n, g)
           f == [n \in Nat |-> best(n)[n]]
           powers == [n \in Nat |-> IF n = 0 THEN 1 ELSE 2 * f[n - 1]]
<1>1. 0 \in P
  <2>1. Upto(0, [i \in {0} |-> 1])
    OBVIOUS
  <2> QED
    BY <2>1
<1>2. ASSUME NEW n \in Nat, n \in P
      PROVE  n + 1 \in P
  <2>1. PICK g : Upto(n, g)
    BY <1>2
  <2> DEFINE h == [i \in 0 .. n + 1 |-> IF i = n + 1 THEN 2 * g[n] ELSE g[i]]
  <2>2. Upto(n + 1, h)
    <3> SUFFICES ASSUME NEW i \in 0 .. n + 1
                 PROVE  h[i] = IF i = 0 THEN 1 ELSE 2 * h[i - 1]
      OBVIOUS
    <3>1. CASE i = n + 1
      BY <3>1
    <3>2. CASE i \in 0 .. n
      <4>1. g[i] = IF i = 0 THEN 1 ELSE 2 * g[i - 1]
        BY <2>1, <3>2
      <4>2. h[i] = g[i] /\ (i # 0 => h[i - 1] = g[i - 1])
        BY <3>2
      <4> QED
        BY <4>1, <4>2
    <3> QED
      BY <3>1, <3>2
  <2> HIDE DEF h, Upto
  <2> QED
    BY <2>2
<1>3. \A n \in Nat : \E g : Upto(n, g)
  <2>1. Nat \subseteq P
    <3> HIDE DEF P
    <3> QED
      BY <1>1, <1>2, NatSetInduction
  <2> HIDE DEF Upto
  <2> QED
    BY <2>1
<1>4. 0 \in Q
  OBVIOUS
<1>5. ASSUME NEW n \in Nat, n \in Q
      PROVE  n + 1 \in Q
  <2> SUFFICES ASSUME NEW m \in Nat, NEW g, NEW h, n + 1 <= m, Upto(n + 1, g), Upto(m, h)
               PROVE  g[n + 1] = h[n + 1]
    OBVIOUS
  <2>1. Upto(n, g)
    OBVIOUS
  <2>2. g[n] = h[n]
    <3>1. n <= m
      OBVIOUS
    <3> HIDE DEF Upto
    <3> QED
      BY <1>5, <2>1, <3>1
  <2>3. g[n + 1] = 2 * g[n]
    <3>1. n + 1 \in 0 .. n + 1 /\ n + 1 # 0 /\ n + 1 - 1 = n
      OBVIOUS
    <3> QED
      BY <3>1
  <2>4. h[n + 1] = 2 * h[n]
    <3>1. n + 1 \in 0 .. m /\ n + 1 # 0 /\ n + 1 - 1 = n
      OBVIOUS
    <3> QED
      BY <3>1
  <2> QED
    BY <2>2, <2>3, <2>4
<1>6. Nat \subseteq Q
  <2> HIDE DEF Q
  <2> QED
    BY <1>4, <1>5, NatSetInduction
<1>7. \A n \in Nat : Upto(n, best(n))
  <2> HIDE DEF Upto
  <2> QED
    BY <1>3
<1>8. ASSUME NEW n \in Nat
      PROVE  f[n] = IF n = 0 THEN 1 ELSE 2 * f[n - 1]
  <2>1. best(n)[n] = IF n = 0 THEN 1 ELSE 2 * best(n)[n - 1]
    <3>1. n \in 0 .. n
      OBVIOUS
    <3> HIDE DEF best
    <3> QED
      BY <1>7, <3>1
  <2>2. CASE n # 0
    <3>1. n - 1 \in Nat /\ n - 1 <= n
      BY <2>2
    <3>2. Upto(n - 1, best(n - 1)) /\ Upto(n, best(n))
      BY <1>7, <3>1
    <3>3. best(n - 1)[n - 1] = best(n)[n - 1]
      <4> HIDE DEF best, Upto
      <4> QED
        BY <1>6, <3>1, <3>2
    <3> HIDE DEF best
    <3> QED
      BY <2>1, <2>2, <3>1, <3>3
  <2>3. CASE n = 0
    BY <2>1, <2>3
  <2> QED
    BY <2>2, <2>3
<1>9. f = powers
  <2>1. DOMAIN f = Nat /\ f = [n \in Nat |-> f[n]]
    OBVIOUS
  <2> HIDE DEF f
  <2> QED
    BY <1>8, <2>1
<1>10. PowerOfTwo = CHOOSE g : g = [n \in Nat |-> IF n = 0 THEN 1 ELSE 2 * g[n - 1]]
  BY DEF PowerOfTwo
<1>11. PowerOfTwo = [n \in Nat |-> IF n = 0 THEN 1 ELSE 2 * PowerOfTwo[n - 1]]
  <2> HIDE DEF f
  <2> QED
    BY <1>9, <1>10
<1> QED
  BY <1>11

\* A power of two is a positive number.
LEMMA PowersPositive == PowerOfTwo[0] = 1 /\ \A n \in Nat : PowerOfTwo[n] \in Nat \ {0}
<1> DEFINE P == {n \in Nat : PowerOfTwo[n] \in Nat \ {0}}
<1>1. PowerOfTwo[0] = 1
  BY PowersUnfold
<1>2. ASSUME NEW n \in Nat, n \in P
      PROVE  n + 1 \in P
  <2>1. n + 1 \in Nat /\ n + 1 # 0 /\ n + 1 - 1 = n
    OBVIOUS
  <2>2. PowerOfTwo[n + 1] = 2 * PowerOfTwo[n]
    BY <2>1, PowersUnfold
  <2>3. 2 * PowerOfTwo[n] \in Nat \ {0}
    BY <1>2
  <2> QED
    BY <2>1, <2>2, <2>3
<1>3. Nat \subseteq P
  <2>1. 0 \in P
    BY <1>1
  <2> HIDE DEF P
  <2> QED
    BY <1>2, <2>1, NatSetInduction
<1> QED
  BY <1>1, <1>3

\* A cooldown is no longer than the cap.
LEMMA CooldownBounds ==
  ASSUME NEW n \in Nat \ {0}
  PROVE  Cooldown(n) \in 0 .. Cap
<1>1. Base \in Nat /\ Cap \in Nat
  BY CacheAssumption
<1>2. PICK p \in Nat \ {0} : p = PowerOfTwo[n - 1]
  BY PowersPositive
<1>3. PICK b \in Nat : b = Base * p
  BY <1>1
<1>4. Cooldown(n) = IF b <= Cap THEN b ELSE Cap
  <2>1. Cooldown(n) = Min({b, Cap})
    BY <1>2, <1>3 DEF Cooldown
  <2> QED
    BY <1>1, <2>1, OfTwo
<1> QED
  BY <1>1, <1>4
-----------------------------------------------------------------------------
(* The lock *)

\* Who connects holds the lock, and who waits for it is in the queue.
QueueInv == queue \in Seq(Caller) /\ IsInjective(queue) /\ ConnectsAlone

\* A caller outside the queue, one waiting in it, and the one that holds the lock.
Out == {"idle", "using", "drop"}
Holding == {"ping", "discard"}

\* What changes when a caller goes to another await.
LEMMA GoesTo ==
  ASSUME CacheTypeOK, NEW k \in Caller, NEW stage \in Stages, NEW c \in 0 .. Clients, Goes(k, stage, c)
  PROVE  /\ pc' \in [Caller -> Stages] /\ client' \in [Caller -> 0 .. Clients]
         /\ pc'[k] = stage /\ client'[k] = c
         /\ \A j \in Caller : j # k => pc'[j] = pc[j] /\ client'[j] = client[j]
BY DEF CacheTypeOK, Goes

\* Who holds the lock or waits for it is in the queue, and nobody else is.
LEMMA InQueue ==
  ASSUME CacheTypeOK, ConnectsAlone, NEW k \in Caller
  PROVE  /\ k \in Range(queue) <=> pc[k] \notin Out
         /\ pc[k] \in Holding => queue # << >> /\ Head(queue) = k
<1>1. queue # << >> => Head(queue) \in Range(queue)
  BY TailRange DEF CacheTypeOK
<1>2. pc[k] \in Stages
  BY DEF CacheTypeOK
<1> QED
  BY <1>1, <1>2 DEF ConnectsAlone, Out, Holding, Stages

\* A caller outside the queue stays outside.
LEMMA StaysOut ==
  ASSUME CacheTypeOK, ConnectsAlone, NEW k \in Caller, pc[k] \in Out,
         NEW stage \in Out, NEW c \in 0 .. Clients, Goes(k, stage, c), UNCHANGED queue
  PROVE  QueueInv'
<1>1. k \notin Range(queue)
  BY InQueue
<1>2. stage \in Stages
  BY DEF Out, Stages
<1>3. pc'[k] = stage /\ \A j \in Caller : j # k => pc'[j] = pc[j]
  BY <1>2, GoesTo
<1> QED
  BY <1>1, <1>3 DEF QueueInv, CacheTypeOK, ConnectsAlone, Out, Holding

\* A caller that has the lock begins to connect, or to close what it made.
LEMMA StaysAhead ==
  ASSUME CacheTypeOK, ConnectsAlone, NEW k \in Caller,
         queue # << >>, Head(queue) = k, pc[k] \notin Out,
         NEW stage \in Holding, NEW c \in 0 .. Clients, Goes(k, stage, c), UNCHANGED queue
  PROVE  QueueInv'
<1>1. stage \in Stages
  BY DEF Holding, Stages
<1>2. pc'[k] = stage /\ \A j \in Caller : j # k => pc'[j] = pc[j]
  BY <1>1, GoesTo
<1> QED
  BY <1>2 DEF QueueInv, CacheTypeOK, ConnectsAlone, Out, Holding

\* The lock is taken by a caller that did not wait, or the caller waits for it.
LEMMA Joins ==
  ASSUME CacheTypeOK, ConnectsAlone, NEW k \in Caller, pc[k] \in Out,
         NEW stage \in Stages, NEW c \in 0 .. Clients, Goes(k, stage, c),
         queue' = Append(queue, k),
         stage = IF queue = << >> THEN "ping" ELSE "queued"
  PROVE  QueueInv'
<1>1. pc'[k] = stage /\ \A j \in Caller : j # k => pc'[j] = pc[j]
  BY GoesTo
<1>2. k \notin Range(queue)
  BY InQueue
<1>3. queue' \in Seq(Caller) /\ IsInjective(queue') /\ Range(queue') = Range(queue) \cup {k}
  BY <1>2, AppendRange, AppendProperties DEF CacheTypeOK
<1>4. queue' # << >> /\ Head(queue') = IF queue = << >> THEN k ELSE Head(queue)
  <2>1. Len(queue) \in Nat /\ (queue = << >> <=> Len(queue) = 0) /\ (queue # << >> => Head(queue) = queue[1])
    BY LenProperties, EmptySeq, HeadTailProperties DEF CacheTypeOK
  <2>2. Len(queue') = Len(queue) + 1 /\ queue'[Len(queue) + 1] = k
        /\ \A i \in 1 .. Len(queue) : queue'[i] = queue[i]
    BY AppendProperties DEF CacheTypeOK
  <2>3. queue' # << >> /\ Head(queue') = queue'[1]
    BY <1>3, <2>1, <2>2, EmptySeq, HeadTailProperties
  <2> QED
    BY <2>1, <2>2, <2>3
<1>5. \A j \in Caller : pc[j] \in Holding => queue # << >> /\ Head(queue) = j
  BY InQueue
<1> QED
  BY <1>1, <1>2, <1>3, <1>4, <1>5 DEF QueueInv, ConnectsAlone, Out, Holding

\* The caller that has the lock leaves it.
LEMMA LeavesHead ==
  ASSUME CacheTypeOK, ConnectsAlone, NEW k \in Caller,
         queue # << >>, Head(queue) = k,
         NEW stage \in Out, NEW c \in 0 .. Clients, Goes(k, stage, c), queue' = Released
  PROVE  QueueInv'
<1>1. stage \in Stages
  BY DEF Out, Stages
<1>2. pc'[k] = stage /\ \A j \in Caller : j # k => pc'[j] = pc[j]
  BY <1>1, GoesTo
<1>3. queue' \in Seq(Caller) /\ IsInjective(queue') /\ Range(queue') = Range(queue) \ {k}
  BY TailRange, HeadTailProperties DEF CacheTypeOK, Released
<1>4. \A j \in Caller : pc[j] \in Holding => j = k
  BY InQueue
<1> QED
  BY <1>2, <1>3, <1>4 DEF QueueInv, ConnectsAlone, Out, Holding

\* A caller is cancelled, wherever in the queue it is.
LEMMA LeavesAnywhere ==
  ASSUME CacheTypeOK, ConnectsAlone, NEW k \in Caller,
         Goes(k, "idle", None), queue' = RemoveFirst(queue, k)
  PROVE  QueueInv'
<1>1. None \in 0 .. Clients /\ "idle" \in Stages
  BY CacheAssumption DEF None, Stages
<1>2. pc'[k] = "idle" /\ \A j \in Caller : j # k => pc'[j] = pc[j]
  BY <1>1, GoesTo
<1>3. queue' \in Seq(Caller) /\ IsInjective(queue') /\ Range(queue') = Range(queue) \ {k}
  BY RemoveFirstRange DEF CacheTypeOK
<1>4. \A j \in Caller : pc[j] \in Holding /\ j # k => queue' # << >> /\ Head(queue') = j
  BY InQueue, RemoveFirstHead DEF CacheTypeOK
<1> QED
  BY <1>2, <1>3, <1>4 DEF QueueInv, ConnectsAlone, Out, Holding
-----------------------------------------------------------------------------
(* The clients *)

\* A client that is made anew is nobody's.
LEMMA FreshClient ==
  ASSUME CacheTypeOK, Unused # {}
  PROVE  Fresh \in 1 .. Clients /\ Fresh \notin open \cup {closing} /\ Fresh # None
         /\ \A k \in Caller : client[k] # Fresh
<1>1. Fresh \in Unused
  BY DEF Fresh
<1>2. \A k \in Caller : client[k] \in Range(client)
  BY DEF Range, CacheTypeOK
<1> HIDE DEF Fresh
<1> QED
  BY <1>1, <1>2, CacheAssumption DEF Unused, None

\* What holds of the clients, and when the next attempt may come.
ClientsInv == ClientsAccounted /\ HandlersHold

\* A call that neither makes nor closes a client becomes one that does not either,
\* while clients are closed that nobody makes or closes.
LEMMA ClientsStay ==
  ASSUME CacheTypeOK, ClientsInv, NEW k \in Caller, k \notin Handling,
         NEW stage \in {"idle", "queued", "using"}, NEW c \in 0 .. Clients,
         stage \in {"idle", "queued"} => c = None,
         Goes(k, stage, c), UNCHANGED <<open, redis, closing>>
  PROVE  ClientsInv'
<1>1. stage \in Stages
  BY DEF Stages
<1>2. /\ pc'[k] = stage /\ client'[k] = c
      /\ \A j \in Caller : j # k => pc'[j] = pc[j] /\ client'[j] = client[j]
  BY <1>1, GoesTo
<1>3. Handling' = Handling /\ \A j \in Handling : client'[j] = client[j]
  BY <1>2 DEF Handling
<1>5. ClientsAccounted'
  BY <1>3 DEF ClientsInv, ClientsAccounted
<1>6. HandlersHold'
  BY <1>2, <1>3 DEF ClientsInv, HandlersHold, Handling
<1> QED
  BY <1>5, <1>6 DEF ClientsInv

\* A caller connects: nobody else does.
LEMMA ClientsConnect ==
  ASSUME CacheTypeOK, ConnectsAlone, ClientsInv, NEW k \in Caller,
         queue = << >> \/ Head(queue) = k, k \notin Handling,
         Connects(k), UNCHANGED <<redis, closing>>
  PROVE  ClientsInv'
<1>0. redis = None /\ Unused # {} /\ Goes(k, "ping", Fresh) /\ open' = open \cup {Fresh}
  BY DEF Connects, Makes
<1>1. /\ Fresh \in 1 .. Clients /\ Fresh \notin open \cup {redis, closing}
      /\ \A j \in Caller : client[j] # Fresh
  BY <1>0, FreshClient
<1>2. Fresh \in 0 .. Clients /\ Fresh # None /\ "ping" \in Stages
  BY <1>1, CacheAssumption DEF None, Stages
<1>3. /\ pc'[k] = "ping" /\ client'[k] = Fresh
      /\ \A j \in Caller : j # k => pc'[j] = pc[j] /\ client'[j] = client[j]
  BY <1>0, <1>2, GoesTo
<1>4. Handling' = Handling \cup {k} /\ \A j \in Handling : client'[j] = client[j]
  BY <1>3 DEF Handling
<1> HIDE DEF Fresh
<1>5. ClientsAccounted'
  <2>1. \A j \in Handling : client'[j] # Fresh /\ client'[j] # redis /\ j \in Caller /\ j # k
    BY <1>1, <1>4 DEF ClientsInv, ClientsAccounted, Handling
  <2>3. \A i \in Handling' : client'[i] # redis' /\ \A j \in Handling' \ {i} : client'[j] # client'[i]
    BY <1>1, <1>3, <1>4, <2>1 DEF ClientsInv, ClientsAccounted
  <2> QED
    BY <1>0, <1>1, <2>3 DEF ClientsAccounted
<1>6. \A j \in Caller : pc[j] \in {"ping", "discard"} => client[j] \in open /\ client[j] # closing
  BY DEF ClientsInv, HandlersHold
<1>7. HandlersHold'
  BY <1>0, <1>1, <1>2, <1>3, <1>4, <1>6 DEF ClientsInv, HandlersHold
<1> QED
  BY <1>5, <1>7 DEF ClientsInv

\* A caller has closed the client that it made or dropped, or gives it up.
LEMMA ClientsLeave ==
  ASSUME CacheTypeOK, ClientsInv, NEW k \in Handling,
         Goes(k, "idle", None), open' = open \ {client[k]} \/ open' = open, UNCHANGED <<redis, closing>>
  PROVE  ClientsInv'
<1>1. None \in 0 .. Clients /\ "idle" \in Stages /\ k \in Caller
  BY CacheAssumption DEF None, Stages, Handling
<1>2. /\ pc'[k] = "idle" /\ client'[k] = None
      /\ \A j \in Caller : j # k => pc'[j] = pc[j] /\ client'[j] = client[j]
  BY <1>1, GoesTo
<1>3. Handling' = Handling \ {k} /\ \A j \in Handling \ {k} : client'[j] = client[j] /\ client[j] # client[k]
  BY <1>1, <1>2 DEF Handling, ClientsInv, ClientsAccounted
<1>4. redis # client[k]
  BY DEF ClientsInv, ClientsAccounted
<1>6. ClientsAccounted'
  BY <1>3, <1>4 DEF ClientsInv, ClientsAccounted
<1>7. HandlersHold'
  <2>1. \A j \in Caller : pc'[j] \in {"ping", "discard"} => j \in Handling \ {k} /\ pc[j] \in {"ping", "discard"}
    BY <1>2 DEF Handling
  <2> QED
    BY <1>2, <1>3, <2>1 DEF ClientsInv, HandlersHold
<1> QED
  BY <1>6, <1>7 DEF ClientsInv
-----------------------------------------------------------------------------
(* The steps *)

\* The type of everything but the queue.
RestTyped ==
  /\ redis \in 0 .. Clients /\ closing \in 0 .. Clients /\ open \subseteq 1 .. Clients
  /\ failures \in 0 .. MaxExponent + 1 /\ quiet \in 0 .. Cap /\ hush \in 0 .. Cap
  /\ pc \in [Caller -> Stages] /\ client \in [Caller -> 0 .. Clients]
  /\ closer \in {"none", "closing", "ended"}

LEMMA CacheParts ==
  /\ CacheIInv <=> RestTyped /\ QueueInv /\ ClientsInv /\ Backs
  /\ (CacheIInv <=> RestTyped /\ QueueInv /\ ClientsInv /\ Backs)'
BY DEF CacheIInv, CacheTypeOK, RestTyped, QueueInv, ClientsInv

\* A failure in the range of the exponent leaves the cooldown it calls for.
LEMMA FailureRecorded ==
  ASSUME CacheTypeOK, RecordFailure
  PROVE  /\ failures' \in 1 .. MaxExponent + 1 /\ quiet' \in 0 .. Cap /\ hush' \in 0 .. Cap
         /\ failures' <= MaxExponent => hush' <= quiet'
<1>1. failures' \in 1 .. MaxExponent + 1
  <2>1. failures + 1 \in Int /\ MaxExponent + 1 \in Int /\ MaxExponent \in Nat /\ failures \in Nat
    BY CacheAssumption DEF CacheTypeOK
  <2>2. failures' = IF failures + 1 <= MaxExponent + 1 THEN failures + 1 ELSE MaxExponent + 1
    BY <2>1, OfTwo DEF RecordFailure
  <2> QED
    BY <2>1, <2>2
<1>2. failures' \in Nat \ {0} /\ MaxExponent \in Nat
  BY <1>1, CacheAssumption
<1>3. Cooldown(failures') \in 0 .. Cap
  BY <1>2, CooldownBounds
<1> QED
  BY <1>1, <1>2, <1>3 DEF RecordFailure, Overflows, CacheTypeOK

LEMMA CacheStart == CacheInit => CacheIInv
<1> SUFFICES ASSUME CacheInit
             PROVE  CacheIInv
  OBVIOUS
<1> USE CacheAssumption DEF CacheInit, None
<1>1. RestTyped
  BY DEF RestTyped, Stages
<1>2. QueueInv
  <2>1. Range(<< >>) = {}
    BY DEF Range
  <2> QED
    BY <2>1 DEF QueueInv, ConnectsAlone, IsInjective
<1>3. Handling = {}
  BY DEF Handling
<1>4. ClientsInv
  BY <1>3 DEF ClientsInv, ClientsAccounted, HandlersHold
<1>5. Backs
  BY DEF Backs
<1> QED
  BY <1>1, <1>2, <1>4, <1>5, CacheParts

\* A call begins, with the client or with the lock, or waits.
LEMMA BeginKeeps ==
  ASSUME CacheIInv, NEW k \in Caller, Begin(k)
  PROVE  CacheIInv'
<1>0. CacheTypeOK /\ ConnectsAlone /\ ClientsInv /\ ClientsAccounted /\ Backs
  BY DEF CacheIInv, ClientsInv
<1>1. /\ pc[k] = "idle" /\ k \notin Handling /\ pc[k] \in Out
      /\ UNCHANGED <<redis, failures, quiet, closer, closing, hush>>
  BY DEF Begin, Handling, Out
<1>2. None \in 0 .. Clients /\ redis \in 0 .. Clients /\ {"using", "ping", "queued"} \subseteq Stages
      /\ "using" \in Out
  BY <1>0, CacheAssumption DEF None, Stages, Out, CacheTypeOK
<1>3. CASE Uses(k) /\ UNCHANGED queue
  <2>1. QueueInv'
    BY <1>0, <1>1, <1>2, <1>3, StaysOut DEF Uses
  <2>2. RestTyped'
    BY <1>0, <1>1, <1>2, <1>3, GoesTo DEF Uses, RestTyped, CacheTypeOK
  <2>3. ClientsInv'
    BY <1>0, <1>1, <1>2, <1>3, ClientsStay DEF Uses
  <2>4. Backs'
    BY <1>0, <1>1 DEF Backs
  <2> QED
    BY <2>1, <2>2, <2>3, <2>4, CacheParts
<1>4. CASE redis = None /\ queue' = Append(queue, k) /\ queue = << >> /\ Connects(k)
  <2>0. Fresh \in 0 .. Clients /\ open' = open \cup {Fresh} /\ Fresh \in 1 .. Clients
    BY <1>0, <1>4, FreshClient DEF Connects, Makes
  <2>1. QueueInv'
    BY <1>0, <1>1, <1>2, <1>4, <2>0, Joins DEF Connects, Makes
  <2>2. RestTyped'
    BY <1>0, <1>1, <1>2, <1>4, <2>0, GoesTo DEF Connects, Makes, RestTyped, CacheTypeOK
  <2>3. ClientsInv'
    BY <1>0, <1>1, <1>4, ClientsConnect
  <2>4. Backs'
    BY <1>0, <1>1 DEF Backs
  <2> QED
    BY <2>1, <2>2, <2>3, <2>4, CacheParts
<1>5. CASE queue' = Append(queue, k) /\ queue # << >> /\ Goes(k, "queued", None) /\ UNCHANGED open
  <2>1. QueueInv'
    BY <1>0, <1>1, <1>2, <1>5, Joins
  <2>2. RestTyped'
    BY <1>0, <1>1, <1>2, <1>5, GoesTo DEF RestTyped, CacheTypeOK
  <2>3. ClientsInv'
    BY <1>0, <1>1, <1>2, <1>5, ClientsStay
  <2>4. Backs'
    BY <1>0, <1>1 DEF Backs
  <2> QED
    BY <2>1, <2>2, <2>3, <2>4, CacheParts
<1> QED
  BY <1>3, <1>4, <1>5 DEF Begin

\* The lock is handed on.
LEMMA TakeLockKeeps ==
  ASSUME CacheIInv, NEW k \in Caller, TakeLock(k)
  PROVE  CacheIInv'
<1>0. CacheTypeOK /\ ConnectsAlone /\ ClientsInv /\ ClientsAccounted /\ Backs
  BY DEF CacheIInv, ClientsInv
<1>1. /\ pc[k] = "queued" /\ k \notin Handling /\ pc[k] \notin Out
      /\ queue # << >> /\ Head(queue) = k
      /\ UNCHANGED <<redis, failures, quiet, closer, closing, hush>>
  <2>1. k \in Range(queue) /\ Range(<< >>) = {}
    BY <1>0 DEF TakeLock, ConnectsAlone, Range
  <2> QED
    BY <2>1 DEF TakeLock, Handling, Out
<1>2. None \in 0 .. Clients /\ redis \in 0 .. Clients /\ {"using", "ping", "idle"} \subseteq Stages
      /\ {"using", "idle"} \subseteq Out /\ "ping" \in Holding
  BY <1>0, CacheAssumption DEF None, Stages, Out, Holding, CacheTypeOK
<1>3. CASE Uses(k) /\ queue' = Released
  <2>1. QueueInv'
    BY <1>0, <1>1, <1>2, <1>3, LeavesHead DEF Uses
  <2>2. RestTyped'
    BY <1>0, <1>1, <1>2, <1>3, GoesTo DEF Uses, RestTyped, CacheTypeOK
  <2>3. ClientsInv'
    BY <1>0, <1>1, <1>2, <1>3, ClientsStay DEF Uses
  <2>4. Backs'
    BY <1>0, <1>1 DEF Backs
  <2> QED
    BY <2>1, <2>2, <2>3, <2>4, CacheParts
<1>4. CASE Connects(k) /\ UNCHANGED queue
  <2>0. Fresh \in 0 .. Clients /\ open' = open \cup {Fresh} /\ Fresh \in 1 .. Clients
    BY <1>0, <1>4, FreshClient DEF Connects, Makes
  <2>1. QueueInv'
    BY <1>0, <1>1, <1>2, <1>4, <2>0, StaysAhead DEF Connects, Makes
  <2>2. RestTyped'
    BY <1>0, <1>1, <1>2, <1>4, <2>0, GoesTo DEF Connects, Makes, RestTyped, CacheTypeOK
  <2>3. ClientsInv'
    BY <1>0, <1>1, <1>4, ClientsConnect
  <2>4. Backs'
    BY <1>0, <1>1 DEF Backs
  <2> QED
    BY <2>1, <2>2, <2>3, <2>4, CacheParts
<1>5. CASE Goes(k, "idle", None) /\ queue' = Released /\ UNCHANGED open
  <2>1. QueueInv'
    BY <1>0, <1>1, <1>2, <1>5, LeavesHead
  <2>2. RestTyped'
    BY <1>0, <1>1, <1>2, <1>5, GoesTo DEF RestTyped, CacheTypeOK
  <2>3. ClientsInv'
    BY <1>0, <1>1, <1>2, <1>5, ClientsStay
  <2>4. Backs'
    BY <1>0, <1>1 DEF Backs
  <2> QED
    BY <2>1, <2>2, <2>3, <2>4, CacheParts
<1> QED
  BY <1>3, <1>4, <1>5 DEF TakeLock

\* The server answers: the new client is the one in use.
LEMMA PingSucceedsKeeps ==
  ASSUME CacheIInv, NEW k \in Caller, PingSucceeds(k)
  PROVE  CacheIInv'
<1>0. CacheTypeOK /\ ConnectsAlone /\ ClientsInv /\ ClientsAccounted /\ HandlersHold
  BY DEF CacheIInv, ClientsInv
<1>1. /\ pc[k] = "ping" /\ k \in Handling /\ Goes(k, "using", client[k]) /\ queue' = Released
      /\ redis' = client[k] /\ failures' = 0 /\ quiet' = 0
      /\ UNCHANGED <<open, closer, closing, hush>>
  BY DEF PingSucceeds, Handling
<1>2. client[k] \in 0 .. Clients /\ "using" \in Stages /\ "using" \in Out
  BY <1>0 DEF Stages, Out, CacheTypeOK
<1>3. queue # << >> /\ Head(queue) = k /\ \A j \in Caller : pc[j] \in {"ping", "discard"} => j = k
  BY <1>0, <1>1 DEF ConnectsAlone
<1>4. QueueInv'
  BY <1>0, <1>1, <1>2, <1>3, LeavesHead
<1>5. /\ pc'[k] = "using" /\ client'[k] = client[k]
      /\ pc' \in [Caller -> Stages] /\ client' \in [Caller -> 0 .. Clients]
      /\ \A j \in Caller : j # k => pc'[j] = pc[j] /\ client'[j] = client[j]
  BY <1>0, <1>1, <1>2, GoesTo
<1>6. RestTyped'
  BY <1>0, <1>1, <1>2, <1>5, CacheAssumption DEF RestTyped, CacheTypeOK
<1>7. Handling' = Handling \ {k} /\ redis = None /\ client[k] \in open /\ client[k] # None
  BY <1>0, <1>1, <1>5 DEF Handling, HandlersHold
<1>8. ClientsAccounted'
  <2>4. \A j \in Handling' : j \in Handling /\ j \in Caller /\ j # k /\ client'[j] = client[j]
    BY <1>5, <1>7 DEF Handling
  <2>5. \A i \in Handling' : client'[i] # redis' /\ \A j \in Handling' \ {i} : client'[j] # client'[i]
    BY <1>0, <1>1, <2>4 DEF ClientsAccounted
  <2> QED
    BY <1>1, <1>7, <2>5 DEF ClientsAccounted
<1>9. HandlersHold'
  BY <1>0, <1>3, <1>5, <1>7 DEF HandlersHold, Handling
<1>10. Backs'
  BY <1>1, <1>7 DEF Backs, CacheIInv
<1> QED
  BY <1>4, <1>6, <1>8, <1>9, <1>10, CacheParts DEF ClientsInv

\* Nobody answers the ping.
LEMMA PingFailsKeeps ==
  ASSUME CacheIInv, NEW k \in Caller, PingFails(k)
  PROVE  CacheIInv'
<1>0. CacheTypeOK /\ ConnectsAlone /\ ClientsInv /\ ClientsAccounted /\ HandlersHold /\ Backs
  BY DEF CacheIInv, ClientsInv
<1>1. /\ pc[k] = "ping" /\ k \in Handling /\ pc[k] \notin Out /\ Goes(k, "discard", client[k])
      /\ UNCHANGED <<redis, failures, quiet, queue, open, closer, closing, hush>>
  BY DEF PingFails, Handling, Out
<1>2. client[k] \in 0 .. Clients /\ "discard" \in Stages /\ "discard" \in Holding
  BY <1>0 DEF Stages, Holding, CacheTypeOK
<1>3. queue # << >> /\ Head(queue) = k
  BY <1>0, <1>1 DEF ConnectsAlone
<1>4. QueueInv'
  BY <1>0, <1>1, <1>2, <1>3, StaysAhead
<1>5. /\ pc'[k] = "discard" /\ client' = client
      /\ pc' \in [Caller -> Stages]
      /\ \A j \in Caller : j # k => pc'[j] = pc[j]
  BY <1>0, <1>1, <1>2, GoesTo DEF Goes, CacheTypeOK
<1>6. RestTyped'
  BY <1>0, <1>1, <1>5 DEF RestTyped, CacheTypeOK
<1>7. Handling' = Handling
  BY <1>1, <1>5 DEF Handling
<1>8. ClientsInv'
  BY <1>0, <1>1, <1>5, <1>7 DEF ClientsInv, ClientsAccounted, HandlersHold
<1>9. Backs'
  BY <1>0, <1>1 DEF Backs
<1> QED
  BY <1>4, <1>6, <1>8, <1>9, CacheParts

\* The client that could not connect is closed, and the failure counted.
LEMMA DiscardedKeeps ==
  ASSUME CacheIInv, NEW k \in Caller, Discarded(k)
  PROVE  CacheIInv'
<1>0. CacheTypeOK /\ ConnectsAlone /\ ClientsInv /\ HandlersHold
  BY DEF CacheIInv, ClientsInv
<1>1. /\ pc[k] = "discard" /\ k \in Handling /\ Goes(k, "idle", None) /\ queue' = Released
      /\ open' = open \ {client[k]} /\ RecordFailure /\ UNCHANGED <<redis, closer, closing>>
  BY DEF Discarded, Handling
<1>2. None \in 0 .. Clients /\ "idle" \in Stages /\ "idle" \in Out
  BY CacheAssumption DEF None, Stages, Out
<1>3. queue # << >> /\ Head(queue) = k
  BY <1>0, <1>1 DEF ConnectsAlone
<1>4. QueueInv'
  BY <1>0, <1>1, <1>2, <1>3, LeavesHead
<1>5. RestTyped'
  <2>1. failures' \in 0 .. MaxExponent + 1
    BY <1>0, <1>1, FailureRecorded, CacheAssumption
  <2> QED
    BY <1>0, <1>1, <1>2, <2>1, GoesTo, FailureRecorded DEF RestTyped, CacheTypeOK
<1>6. ClientsInv'
  BY <1>0, <1>1, ClientsLeave
<1>7. Backs'
  BY <1>0, <1>1, FailureRecorded DEF Backs, CacheIInv
<1> QED
  BY <1>4, <1>5, <1>6, <1>7, CacheParts

LEMMA SucceedsKeeps ==
  ASSUME CacheIInv, NEW k \in Caller, Succeeds(k)
  PROVE  CacheIInv'
<1>0. CacheTypeOK /\ ConnectsAlone /\ ClientsInv /\ Backs
  BY DEF CacheIInv, ClientsInv
<1>1. /\ pc[k] \in Out /\ k \notin Handling /\ Goes(k, "idle", None)
      /\ UNCHANGED <<redis, failures, quiet, queue, open, closer, closing, hush>>
  BY DEF Succeeds, Handling, Out
<1>2. None \in 0 .. Clients /\ "idle" \in Stages /\ "idle" \in Out
  BY CacheAssumption DEF None, Stages, Out
<1>3. QueueInv'
  BY <1>0, <1>1, <1>2, StaysOut
<1>4. RestTyped'
  BY <1>0, <1>1, <1>2, GoesTo DEF RestTyped, CacheTypeOK
<1>5. ClientsInv'
  BY <1>0, <1>1, <1>2, ClientsStay
<1>6. Backs'
  BY <1>0, <1>1 DEF Backs
<1> QED
  BY <1>3, <1>4, <1>5, <1>6, CacheParts

\* A failed call takes the client in use away from all, and closes it.
LEMMA FailsKeeps ==
  ASSUME CacheIInv, NEW k \in Caller, Fails(k)
  PROVE  CacheIInv'
<1>0. CacheTypeOK /\ ConnectsAlone /\ ClientsAccounted /\ HandlersHold
  BY DEF CacheIInv
<1>1. /\ pc[k] = "using" /\ pc[k] \in Out /\ k \notin Handling
      /\ redis' = None /\ RecordFailure /\ UNCHANGED <<queue, closer, closing>>
  BY DEF Fails, Handling, Out, DroppedBy
<1>2. None \in 0 .. Clients /\ redis \in 0 .. Clients /\ {"idle", "drop"} \subseteq Stages /\ {"idle", "drop"} \subseteq Out
  BY <1>0, CacheAssumption DEF None, Stages, Out, CacheTypeOK
<1>3. failures' \in 0 .. MaxExponent + 1 /\ quiet' \in 0 .. Cap /\ hush' \in 0 .. Cap
  BY <1>0, <1>1, FailureRecorded, CacheAssumption
<1>4. Backs'
  BY <1>0, <1>1, FailureRecorded DEF Backs, CacheIInv
<1>5. CASE Goes(k, "idle", None) /\ UNCHANGED open
  <2>1. QueueInv'
    BY <1>0, <1>1, <1>2, <1>5, StaysOut
  <2>2. RestTyped'
    BY <1>0, <1>1, <1>2, <1>3, <1>5, GoesTo DEF RestTyped, CacheTypeOK
  <2>3. /\ pc'[k] = "idle" /\ client'[k] = None
        /\ \A j \in Caller : j # k => pc'[j] = pc[j] /\ client'[j] = client[j]
    BY <1>0, <1>2, <1>5, GoesTo
  <2>4. Handling' = Handling /\ \A j \in Handling : client'[j] = client[j]
    BY <1>1, <2>3 DEF Handling
  <2>6. ClientsAccounted'
    <3>2. \A i \in Handling' : client'[i] # redis' /\ \A j \in Handling' \ {i} : client'[j] # client'[i]
      BY <1>0, <1>1, <2>4 DEF ClientsAccounted, HandlersHold
    <3> QED
      BY <1>1, <3>2 DEF ClientsAccounted
  <2>7. HandlersHold'
    BY <1>0, <1>1, <1>5, <2>3, <2>4 DEF HandlersHold, ClientsAccounted, Handling
  <2> QED
    BY <1>4, <2>1, <2>2, <2>6, <2>7, CacheParts DEF ClientsInv
<1>6. CASE redis # None /\ Goes(k, "drop", redis) /\ UNCHANGED open
  <2>1. QueueInv'
    BY <1>0, <1>1, <1>2, <1>6, StaysOut
  <2>2. RestTyped'
    BY <1>0, <1>1, <1>2, <1>3, <1>6, GoesTo DEF RestTyped, CacheTypeOK
  <2>3. /\ pc'[k] = "drop" /\ client'[k] = redis
        /\ \A j \in Caller : j # k => pc'[j] = pc[j] /\ client'[j] = client[j]
    BY <1>0, <1>2, <1>6, GoesTo
  <2>4. Handling' = Handling \cup {k} /\ \A j \in Handling : client'[j] = client[j] /\ j \in Caller /\ j # k
    BY <1>1, <2>3 DEF Handling
  <2>5. ClientsAccounted'
    <3>2. \A j \in Handling : client[j] # None /\ client[j] # redis
      BY <1>0 DEF ClientsAccounted, HandlersHold
    <3>3. \A i \in Handling' : client'[i] # redis' /\ \A j \in Handling' \ {i} : client'[j] # client'[i]
      BY <1>0, <1>1, <1>6, <2>3, <2>4, <3>2 DEF ClientsAccounted
    <3> QED
      BY <1>1, <3>3 DEF ClientsAccounted
  <2>6. HandlersHold'
    BY <1>0, <1>1, <1>6, <2>3, <2>4 DEF HandlersHold
  <2> QED
    BY <1>4, <2>1, <2>2, <2>5, <2>6, CacheParts DEF ClientsInv
<1> QED
  BY <1>5, <1>6 DEF Fails, DroppedBy

LEMMA DroppedKeeps ==
  ASSUME CacheIInv, NEW k \in Caller, Dropped(k)
  PROVE  CacheIInv'
<1>0. CacheTypeOK /\ ConnectsAlone /\ ClientsInv /\ Backs
  BY DEF CacheIInv, ClientsInv
<1>1. /\ pc[k] \in Out /\ k \in Handling /\ Goes(k, "idle", None) /\ open' = open \ {client[k]}
      /\ UNCHANGED <<redis, failures, quiet, queue, closer, closing, hush>>
  BY DEF Dropped, Handling, Out
<1>2. None \in 0 .. Clients /\ "idle" \in Stages /\ "idle" \in Out
  BY CacheAssumption DEF None, Stages, Out
<1>3. QueueInv'
  BY <1>0, <1>1, <1>2, StaysOut
<1>4. RestTyped'
  BY <1>0, <1>1, <1>2, GoesTo DEF RestTyped, CacheTypeOK
<1>5. ClientsInv'
  BY <1>0, <1>1, ClientsLeave
<1>6. Backs'
  BY <1>0, <1>1 DEF Backs
<1> QED
  BY <1>3, <1>4, <1>5, <1>6, CacheParts

\* A cancelled call forgets the client that it makes or closes.
LEMMA CancelKeeps ==
  ASSUME CacheIInv, NEW k \in Caller, Cancel(k)
  PROVE  CacheIInv'
<1>0. CacheTypeOK /\ ConnectsAlone /\ ClientsInv /\ Backs
  BY DEF CacheIInv, ClientsInv
<1>1. /\ Goes(k, "idle", None) /\ queue' = RemoveFirst(queue, k)
      /\ UNCHANGED <<redis, failures, quiet, open, closer, closing, hush>>
  BY DEF Cancel, Handling
<1>2. None \in 0 .. Clients /\ "idle" \in Stages
  BY CacheAssumption DEF None, Stages
<1>3. QueueInv'
  BY <1>0, <1>1, LeavesAnywhere
<1>4. RestTyped'
  BY <1>0, <1>1, <1>2, GoesTo DEF RestTyped, CacheTypeOK
<1>5. ClientsInv'
  BY <1>0, <1>1, <1>2, ClientsLeave, ClientsStay
<1>6. Backs'
  BY <1>0, <1>1 DEF Backs
<1> QED
  BY <1>3, <1>4, <1>5, <1>6, CacheParts

\* close() and the clock move no caller.
LEMMA CloserAndClockKeep ==
  ASSUME CacheIInv, StartClose \/ EndClose \/ CloseFails \/ Tick
  PROVE  CacheIInv'
<1>0. CacheTypeOK /\ ConnectsAlone /\ ClientsAccounted /\ HandlersHold /\ Backs
  BY DEF CacheIInv
<1>1. UNCHANGED <<queue, pc, client>>
  BY DEF StartClose, EndClose, CloseFails, Tick
<1>2. QueueInv' /\ Handling' = Handling
  BY <1>0, <1>1 DEF QueueInv, CacheTypeOK, ConnectsAlone, Handling
<1>3. \A j \in Caller : pc[j] \in {"ping", "discard"} => j \in Handling
  BY DEF Handling
<1>4. CASE StartClose
  <2>1. RestTyped' /\ Backs'
    BY <1>0, <1>4, CacheAssumption DEF StartClose, RestTyped, CacheTypeOK, Backs
  <2>2. ClientsAccounted'
    <3>1. closing = None /\ closing' \in {closing, redis} /\ UNCHANGED <<redis, open>>
      BY <1>0, <1>4 DEF StartClose, Backs
    <3> QED
      BY <1>0, <1>1, <1>2, <3>1 DEF ClientsAccounted
  <2>3. HandlersHold'
    BY <1>0, <1>1, <1>2, <1>3, <1>4 DEF StartClose, ClientsAccounted, HandlersHold
  <2> QED
    BY <1>2, <2>1, <2>2, <2>3, CacheParts DEF ClientsInv
<1>5. CASE EndClose
  <2>1. RestTyped' /\ Backs'
    BY <1>0, <1>5, CacheAssumption DEF EndClose, RestTyped, CacheTypeOK, Backs, None
  <2>2. ClientsAccounted'
    BY <1>0, <1>1, <1>2, <1>5 DEF EndClose, ClientsAccounted, HandlersHold
  <2>3. HandlersHold'
    BY <1>0, <1>1, <1>2, <1>3, <1>5 DEF EndClose, ClientsAccounted, HandlersHold
  <2> QED
    BY <1>2, <2>1, <2>2, <2>3, CacheParts DEF ClientsInv
<1>6. CASE CloseFails
  <2>1. RestTyped' /\ Backs'
    BY <1>0, <1>6, CacheAssumption DEF CloseFails, RestTyped, CacheTypeOK, Backs, None
  <2>2. ClientsAccounted'
    BY <1>0, <1>1, <1>2, <1>6 DEF CloseFails, ClientsAccounted
  <2>3. HandlersHold'
    BY <1>0, <1>1, <1>2, <1>3, <1>6 DEF CloseFails, ClientsAccounted, HandlersHold
  <2> QED
    BY <1>2, <2>1, <2>2, <2>3, CacheParts DEF ClientsInv
<1>7. CASE Tick
  <2>1. /\ quiet' = (IF quiet >= 1 THEN quiet - 1 ELSE 0) /\ hush' = (IF hush >= 1 THEN hush - 1 ELSE 0)
        /\ quiet \in Nat /\ hush \in Nat /\ Cap \in Nat
    <3>1. quiet \in Nat /\ hush \in Nat /\ Cap \in Nat /\ quiet - 1 \in Int /\ hush - 1 \in Int /\ 0 \in Int
      BY <1>0, CacheAssumption DEF CacheTypeOK
    <3>2. Max({quiet - 1, 0}) = (IF quiet - 1 >= 0 THEN quiet - 1 ELSE 0)
      BY <3>1, OfTwo
    <3>3. Max({hush - 1, 0}) = (IF hush - 1 >= 0 THEN hush - 1 ELSE 0)
      BY <3>1, OfTwo
    <3> QED
      BY <1>7, <3>1, <3>2, <3>3 DEF Tick
  <2>2. quiet' \in 0 .. Cap /\ hush' \in 0 .. Cap /\ (hush <= quiet => hush' <= quiet')
    BY <1>0, <2>1 DEF CacheTypeOK
  <2>3. RestTyped' /\ Backs'
    BY <1>0, <1>7, <2>2 DEF Tick, RestTyped, CacheTypeOK, Backs
  <2>4. ClientsAccounted' /\ HandlersHold'
    BY <1>0, <1>1, <1>2, <1>7 DEF Tick, ClientsAccounted, HandlersHold
  <2> QED
    BY <1>2, <2>3, <2>4, CacheParts DEF ClientsInv
<1> QED
  BY <1>4, <1>5, <1>6, <1>7

LEMMA CacheStep == CacheIInv /\ [CacheNext]_cacheVars => CacheIInv'
<1> SUFFICES ASSUME CacheIInv, [CacheNext]_cacheVars
             PROVE  CacheIInv'
  OBVIOUS
<1>1. ASSUME NEW k \in Caller, Begin(k) \/ Proceeds(k) \/ Cancel(k)
      PROVE  CacheIInv'
  BY <1>1, BeginKeeps, TakeLockKeeps, PingSucceedsKeeps, PingFailsKeeps, DiscardedKeeps,
     SucceedsKeeps, FailsKeeps, DroppedKeeps, CancelKeeps DEF Proceeds
<1>2. CASE UNCHANGED cacheVars
  BY <1>2 DEF cacheVars, CacheIInv, CacheTypeOK, ConnectsAlone, ClientsAccounted, HandlersHold, Handling, Backs
<1> QED
  BY <1>1, <1>2, CloserAndClockKeep DEF CacheNext

\* One call at a time connects, and the client that all share is accounted for,
\* however many calls fail, are cancelled or wait, and whenever close() falls.
THEOREM CacheIsSound == CacheSpec => []CacheInv
<1>1. CacheIInv => CacheInv
  BY DEF CacheIInv, CacheInv
<1> QED
  BY CacheStart, CacheStep, <1>1, PTL DEF CacheSpec

\* An attempt is made when the cooldown that the last failure calls for is over.
LEMMA AttemptsAreLate ==
  ASSUME CacheIInv, [CacheNext]_cacheVars, NEW k \in Caller, Attempt(k), failures <= MaxExponent
  PROVE  hush = 0 \/ closer # "none"
<1>0. CacheTypeOK /\ Backs
  BY DEF CacheIInv
<1>1. ASSUME NEW j \in Caller, NEW stage \in Stages \ {"ping"}, NEW c, Goes(j, stage, c)
      PROVE  FALSE
  BY <1>0, <1>1 DEF Goes, Attempt, CacheTypeOK
<1>2. {"idle", "queued", "discard", "using", "drop"} \subseteq Stages \ {"ping"}
  BY DEF Stages
<1>3. pc' # pc
  BY DEF Attempt
<1>4. PICK j \in Caller : Begin(j) \/ TakeLock(j)
  <2>1. PICK j \in Caller : Begin(j) \/ Proceeds(j) \/ Cancel(j)
    BY <1>3 DEF CacheNext, cacheVars, StartClose, EndClose, CloseFails, Tick
  <2>2. ~PingSucceeds(j) /\ ~PingFails(j) /\ ~Discarded(j) /\ ~Succeeds(j) /\ ~Dropped(j) /\ ~Cancel(j)
    BY <1>1, <1>2 DEF PingSucceeds, PingFails, Discarded, Succeeds, Dropped, Cancel
  <2>3. ~Fails(j)
    BY <1>1, <1>2 DEF Fails
  <2> QED
    BY <2>1, <2>2, <2>3 DEF Proceeds
<1>5. redis = None /\ quiet = 0
  BY <1>1, <1>2, <1>4 DEF Begin, TakeLock, Uses, Connects, MayConnect
<1> QED
  BY <1>0, <1>5 DEF Backs, CacheTypeOK

\* The server is left alone for the whole cooldown after every failure, whoever
\* waited for the lock meanwhile.
THEOREM BackoffIsKept == CacheSpec => BackoffHolds
<1>1. CacheIInv /\ [CacheNext]_cacheVars =>
        [\A k \in Caller : Attempt(k) /\ failures <= MaxExponent => hush = 0 \/ closer # "none"]_cacheVars
  BY AttemptsAreLate
<1> QED
  BY CacheStart, CacheStep, <1>1, PTL DEF CacheSpec, BackoffHolds

\* A call moves to one of its stages, with a client or none.
LEMMA CallMoves ==
  ASSUME CacheIInv, NEW k \in Caller, Begin(k) \/ Proceeds(k) \/ Cancel(k)
  PROVE  \E stage \in Stages, n \in 0 .. Clients : Goes(k, stage, n)
<1>0. CacheTypeOK
  BY DEF CacheIInv
<1>1. Stages = {"idle", "queued", "ping", "discard", "using", "drop"} /\ None \in 0 .. Clients
      /\ redis \in 0 .. Clients /\ client[k] \in 0 .. Clients
  BY <1>0, CacheAssumption DEF Stages, None, CacheTypeOK
<1>2. CASE Connects(k)
  <2>1. Unused # {} /\ Goes(k, "ping", Fresh)
    BY <1>2 DEF Connects, Makes
  <2>2. Fresh \in 0 .. Clients
    BY <1>0, <2>1, FreshClient
  <2> HIDE DEF Fresh
  <2> QED
    BY <1>1, <2>1, <2>2
<1>3. CASE ~Connects(k)
  <2>1. CASE Fails(k)
    BY <1>1, <2>1 DEF Fails, DroppedBy
  <2>2. CASE ~Fails(k)
    BY <1>1, <1>3, <2>2 DEF Begin, Proceeds, Cancel, TakeLock, Uses, PingSucceeds, PingFails,
       Discarded, Succeeds, Dropped
  <2> QED
    BY <2>1, <2>2
<1> QED
  BY <1>2, <1>3

\* A step of a call refers to the clients referred to before it, or closes them,
\* or is one of the known ways to lose one.
LEMMA CallsKeepClients ==
  ASSUME CacheIInv, NEW k \in Caller, Begin(k) \/ Proceeds(k) \/ Cancel(k),
         NEW c \in Lost', c \notin Lost
  PROVE  GivenUp(c)
<1>0. CacheTypeOK /\ HandlersHold
  BY DEF CacheIInv
<1>1. c \in open' /\ c \notin {redis', closing'} /\ \A j \in Handling' : client'[j] # c
  BY DEF Lost
<1>2. UNCHANGED closing
  BY DEF Begin, Proceeds, Cancel, TakeLock, PingSucceeds, PingFails, Discarded, Succeeds, Fails, Dropped
<1>3. PICK stage \in Stages, n \in 0 .. Clients : Goes(k, stage, n)
  BY CallMoves
<1>4. /\ pc'[k] = stage /\ client'[k] = n
      /\ \A j \in Caller : j # k => pc'[j] = pc[j] /\ client'[j] = client[j]
  BY <1>0, <1>3, GoesTo
<1>5. n # c \/ stage \notin {"ping", "discard", "drop"}
  BY <1>1, <1>4 DEF Handling
<1>6. c \in open
  <2>1. CASE Connects(k)
    <3>1. Goes(k, "ping", Fresh) /\ open' = open \cup {Fresh} /\ "ping" \in Stages
      BY <2>1 DEF Connects, Makes, Stages
    <3>2. stage = "ping" /\ n = Fresh
      BY <1>0, <1>3, <3>1 DEF Goes, CacheTypeOK
    <3> HIDE DEF Fresh
    <3> QED
      BY <1>1, <1>5, <3>1, <3>2
  <2>2. CASE ~Connects(k)
    <3>1. open' \subseteq open
      BY <2>2 DEF Begin, Proceeds, Cancel, TakeLock, Uses, PingSucceeds, PingFails, Discarded,
         Succeeds, Fails, Dropped
    <3> QED
      BY <1>1, <3>1
  <2> QED
    BY <2>1, <2>2
<1>7. c = redis \/ (k \in Handling /\ client[k] = c)
  <2>1. c = redis \/ \E j \in Handling : client[j] = c
    BY <1>1, <1>2, <1>6 DEF Lost
  <2>2. \A j \in Handling : j # k => client[j] # c
    BY <1>1, <1>4 DEF Handling
  <2> QED
    BY <2>1, <2>2
<1>8. CASE Cancel(k)
  <2>1. redis' = redis
    BY <1>8 DEF Cancel
  <2> QED
    BY <1>1, <1>7, <1>8, <2>1 DEF GivenUp
<1>9. CASE Fails(k)
  <2>1. k \notin Handling /\ c = redis
    BY <1>7, <1>9 DEF Fails, Handling
  <2>2. redis # None
    BY <1>0, <1>6, <2>1 DEF CacheTypeOK, None
  <2>3. CASE Overflows(failures')
    BY <1>9, <2>1, <2>3 DEF GivenUp
  <2>4. CASE ~Overflows(failures')
    <3>1. Goes(k, "drop", redis) /\ "drop" \in Stages
      BY <1>9, <2>2, <2>4 DEF Fails, DroppedBy, Stages
    <3>2. stage = "drop" /\ n = redis
      BY <1>0, <1>3, <3>1 DEF Goes, CacheTypeOK
    <3> QED
      BY <1>5, <2>1, <3>2
  <2> QED
    BY <2>3, <2>4
<1>10. CASE PingSucceeds(k)
  <2>1. redis' = client[k] /\ redis = None
    BY <1>0, <1>10 DEF PingSucceeds, HandlersHold
  <2> QED
    BY <1>0, <1>1, <1>6, <1>7, <2>1 DEF CacheTypeOK, None
<1>11. CASE PingFails(k)
  <2>1. redis' = redis /\ k \in Handling /\ pc'[k] = "discard" /\ client'[k] = client[k]
    <3>1. Goes(k, "discard", client[k]) /\ pc[k] = "ping" /\ redis' = redis
      BY <1>11 DEF PingFails
    <3>2. stage = "discard" /\ n = client[k]
      BY <1>0, <1>3, <3>1 DEF Goes, CacheTypeOK
    <3> QED
      BY <1>4, <3>1, <3>2 DEF Handling
  <2> QED
    BY <1>1, <1>4, <1>5, <1>7, <2>1
<1>12. CASE Discarded(k) \/ Dropped(k)
  <2>1. redis' = redis /\ open' = open \ {client[k]}
    BY <1>12 DEF Discarded, Dropped
  <2> QED
    BY <1>1, <1>7, <2>1
<1>13. CASE Begin(k) \/ TakeLock(k) \/ Succeeds(k)
  <2>1. redis' = redis /\ k \notin Handling
    BY <1>13 DEF Begin, TakeLock, Succeeds, Handling
  <2> QED
    BY <1>1, <1>7, <2>1
<1> QED
  BY <1>8, <1>9, <1>10, <1>11, <1>12, <1>13 DEF Proceeds

\* A step loses a client only as described by GivenUp.
LEMMA StepKeepsClients ==
  ASSUME CacheIInv, [CacheNext]_cacheVars
  PROVE  [\A c \in Lost' \ Lost : GivenUp(c)]_cacheVars
<1>0. CacheTypeOK /\ Backs
  BY DEF CacheIInv
<1> SUFFICES ASSUME CacheNext, NEW c \in Lost', c \notin Lost
             PROVE  GivenUp(c)
  OBVIOUS
<1>1. CASE StartClose \/ EndClose \/ CloseFails \/ Tick
  <2>1. UNCHANGED <<pc, client>>
    BY <1>1 DEF StartClose, EndClose, CloseFails, Tick
  <2>2. /\ c \in open' /\ c \notin {redis', closing'} /\ \A j \in Handling : client[j] # c
        /\ Handling' = Handling
    BY <2>1 DEF Lost, Handling
  <2>3. CASE EndClose
    <3>1. c \in open /\ c # closing
      BY <2>2, <2>3 DEF EndClose
    <3>2. c = redis
      BY <2>2, <3>1 DEF Lost
    <3> QED
      BY <2>3, <3>2 DEF GivenUp
  <2>4. CASE CloseFails
    <3>1. c \in open /\ c # redis
      BY <2>2, <2>4 DEF CloseFails
    <3>2. c = closing
      BY <2>2, <3>1 DEF Lost
    <3> QED
      BY <2>4, <3>2 DEF GivenUp
  <2>5. CASE StartClose
    <3>1. redis' = redis /\ open' = open /\ closing = None /\ None \notin open
      BY <1>0, <2>5 DEF StartClose, Backs, CacheTypeOK, None
    <3> QED
      BY <2>2, <3>1 DEF Lost
  <2>6. CASE Tick
    <3>1. UNCHANGED <<redis, open, closing>>
      BY <2>6 DEF Tick
    <3> QED
      BY <2>2, <3>1 DEF Lost
  <2> QED
    BY <1>1, <2>3, <2>4, <2>5, <2>6
<1>2. CASE \E k \in Caller : Begin(k) \/ Proceeds(k) \/ Cancel(k)
  BY <1>2, CallsKeepClients
<1> QED
  BY <1>1, <1>2 DEF CacheNext

\* A connection is lost by a cancelled call, by a cooldown that overflows, or by
\* close(), and in no other way, whatever calls fail, wait and connect meanwhile.
THEOREM ClientsAreKept == CacheSpec => ClientsKept
<1>1. CacheIInv /\ [CacheNext]_cacheVars => [\A c \in Lost' \ Lost : GivenUp(c)]_cacheVars
  BY StepKeepsClients
<1> QED
  BY CacheStart, CacheStep, <1>1, PTL DEF CacheSpec, ClientsKept

(***************************************************************************)
(* An answer of /crawl                                                     *)
(***************************************************************************)

Payload == [url : Nat, text : Nat, wire : Nat, rich : Nat, error : States]
Results == [Index -> Payload]

\* The results with everything behind position m replaced, and those where, in
\* addition, the URLs behind m are forgotten.
Cut(r, m) == [i \in Index |-> IF i > m THEN Stripped(r[i]) ELSE r[i]]
Forgotten(r, m) == [i \in Index |-> IF i > m THEN [Stripped(r[i]) EXCEPT !.url = 0] ELSE Stripped(r[i])]

\* Every result is one URL's, in the order of the request.
TasksTyped == task \in Results /\ \A i \in Index : task[i].url = UrlSize[i] /\ task[i].error # "budget"

\* The errors of the crawls are the errors of the results.
Collected == \A i \in Index : task[i].error \in {"none", "failed"}
Faithful(results) ==
  /\ results \in Results
  /\ \A i \in Index : results[i].url = UrlSize[i] /\ results[i].error = task[i].error

\* Where the answer is made: what is replaced is a tail of the results, and the
\* answer did not fit with one result less replaced.
Progress ==
  \/ step \in {"crawl", "aborted"} /\ out = << >> /\ crawled = << >> /\ at = 0 /\ extracting = {}
  \/ step = "extract" /\ Collected /\ Faithful(out) /\ crawled = << >> /\ at = 0
  \/ /\ step \in {"strip", "forget", "done"} /\ Collected /\ Faithful(crawled) /\ at \in 0 .. Len(UrlSize)
     /\ \/ step = "strip" /\ at >= 1 /\ out = Cut(crawled, at) /\ ~Fits(Cut(crawled, at))
        \/ step = "forget" /\ at >= 1 /\ out = Forgotten(crawled, at) /\ ~Fits(Cut(crawled, 1))
        \/ step = "done" /\ Fits(out) /\
             \/ \E m \in 0 .. Len(UrlSize) : out = Cut(crawled, m) /\ (m < Len(UrlSize) => ~Fits(Cut(crawled, m + 1)))
             \/ \E m \in 0 .. Len(UrlSize) : out = Forgotten(crawled, m) /\ ~Fits(Cut(crawled, 1))

BatchIInv == extracting \subseteq Index /\ TasksTyped /\ Progress
-----------------------------------------------------------------------------
(* The size of an answer *)

LEMMA Positions ==
  /\ Len(UrlSize) \in Nat \ {0} /\ Index = 1 .. Len(UrlSize)
  /\ \A i \in Index : UrlSize[i] \in Nat
BY LenProperties, EmptySeq, ElementOfSeq, BatchAssumption DEF Index

\* What the loops make of typed results is typed.
LEMMA CutsAreResults ==
  ASSUME NEW r \in Results, NEW m \in Int
  PROVE  Cut(r, m) \in Results /\ Forgotten(r, m) \in Results
<1>1. ASSUME NEW i \in Index
      PROVE  /\ Stripped(r[i]) \in Payload
             /\ [Stripped(r[i]) EXCEPT !.url = 0] \in Payload
  <2>1. r[i] \in Payload
    BY DEF Results
  <2> QED
    BY <2>1 DEF Payload, Stripped, States
<1> QED
  BY <1>1 DEF Cut, Forgotten, Results

\* When nothing is left but the notices, the answer fits.
LEMMA NoticesFit ==
  ASSUME NEW r \in Results
  PROVE  Fits(Forgotten(r, 0))
<1> DEFINE none == Forgotten(r, 0)
           size == [i \in DOMAIN none |-> Size(none[i])]
<1>1. DOMAIN none = Index /\ IsFiniteSet(Index) /\ Cardinality(Index) = Len(UrlSize)
  <2>1. IsFiniteSet(1 .. Len(UrlSize)) /\ Cardinality(1 .. Len(UrlSize)) = Len(UrlSize)
    BY Positions, FS_Interval
  <2> QED
    BY <2>1, Positions DEF Forgotten
<1>2. ASSUME NEW i \in Index PROVE size[i] = Frame + Notice
  <2>1. r[i] \in Payload /\ i > 0
    BY Positions DEF Results
  <2>2. none[i] = [Stripped(r[i]) EXCEPT !.url = 0]
    BY <2>1 DEF Forgotten
  <2>3. /\ none[i].url = 0 /\ none[i].wire = 0 /\ none[i].rich = 0 /\ none[i].error = "budget"
    BY <2>1, <2>2 DEF Stripped, Payload
  <2>4. Frame + Notice \in Nat /\ Frame \in Nat
    BY BatchAssumption
  <2> HIDE DEF none
  <2> QED
    BY <1>1, <2>3, <2>4 DEF Size
<1>3. Sum(none) = Len(UrlSize) * (Frame + Notice)
  <2>1. Frame + Notice \in Int
    BY BatchAssumption
  <2>2. Sum(none) = SumFunctionOnSet(size, Index)
    BY <1>1 DEF Sum
  <2> HIDE DEF size
  <2> QED
    BY <1>1, <1>2, <2>1, <2>2, SumConstant
<1> QED
  BY <1>3, BatchAssumption DEF Fits, SerializedSize
-----------------------------------------------------------------------------
(* The steps *)

LEMMA BatchStart == BatchInit => BatchIInv
<1> SUFFICES ASSUME BatchInit PROVE BatchIInv
  OBVIOUS
<1>1. TasksTyped
  BY Positions DEF BatchInit, TasksTyped, Results, Payload, Empty, Result, States
<1> QED
  BY <1>1 DEF BatchInit, BatchIInv, Progress

\* The crawls end, in any order.
LEMMA CrawlKeeps ==
  ASSUME BatchIInv, NEW i \in Index, CrawlEnds(i) \/ CrawlFails(i) \/ CrawlCancelled(i)
  PROVE  BatchIInv'
<1>1. /\ step = "crawl" /\ UNCHANGED <<step, out, extracting, at, crawled>>
      /\ task \in Results
  BY DEF CrawlEnds, CrawlFails, CrawlCancelled, BatchIInv, TasksTyped
<1>2. Progress'
  BY <1>1 DEF BatchIInv, Progress
<1>3. ASSUME NEW t \in Nat, NEW w \in Nat, NEW r \in Nat, NEW e \in States \ {"budget"},
             task' = [task EXCEPT ![i] = Result(UrlSize[i], t, w, r, e)]
      PROVE  TasksTyped'
  <2>1. Result(UrlSize[i], t, w, r, e) \in Payload
    BY Positions DEF Result, Payload
  <2>2. task' \in Results
    BY <1>1, <1>3, <2>1 DEF Results
  <2>3. \A j \in Index : task'[j] = IF j = i THEN Result(UrlSize[i], t, w, r, e) ELSE task[j]
    BY <1>1, <1>3 DEF Results
  <2>4. \A j \in Index : task'[j].url = UrlSize[j] /\ task'[j].error # "budget"
    BY <2>3 DEF Result, BatchIInv, TasksTyped
  <2> QED
    BY <2>2, <2>4 DEF TasksTyped
<1>4. {"none", "failed", "cancelled"} \subseteq States \ {"budget"}
  BY DEF States
<1>5. CASE CrawlEnds(i)
  <2>1. PICK t \in Texts, r \in Riches, e \in {1, Escape} :
          task' = [task EXCEPT ![i] = Result(UrlSize[i], t, t * e, r, "none")]
    BY <1>5 DEF CrawlEnds
  <2>2. t \in Nat /\ r \in Nat /\ e \in Nat
    BY BatchAssumption
  <2>3. t * e \in Nat
    BY <2>2
  <2> QED
    BY <1>1, <1>2, <1>3, <1>4, <2>1, <2>2, <2>3 DEF BatchIInv
<1>6. CASE CrawlFails(i)
  <2>1. PICK r \in Riches : task' = [task EXCEPT ![i] = Result(UrlSize[i], 0, 0, r, "failed")]
    BY <1>6 DEF CrawlFails
  <2>2. r \in Nat
    BY BatchAssumption
  <2> QED
    BY <1>1, <1>2, <1>3, <1>4, <2>1, <2>2 DEF BatchIInv
<1>7. CASE CrawlCancelled(i)
  <2>1. task' = [task EXCEPT ![i] = Result(UrlSize[i], 0, 0, 0, "cancelled")]
    BY <1>7 DEF CrawlCancelled, Empty
  <2> QED
    BY <1>1, <1>2, <1>3, <1>4, <2>1 DEF BatchIInv
<1> QED
  BY <1>5, <1>6, <1>7

\* The results are collected, or the request is cancelled.
LEMMA CollectKeeps ==
  ASSUME BatchIInv, Abort \/ Collect
  PROVE  BatchIInv'
<1>1. step = "crawl" /\ UNCHANGED <<task, at, crawled>> /\ TasksTyped
      /\ out = << >> /\ crawled = << >> /\ at = 0 /\ extracting = {}
  BY DEF Abort, Collect, BatchIInv, Progress
<1>2. TasksTyped'
  BY <1>1 DEF TasksTyped
<1>3. CASE Abort
  BY <1>1, <1>2, <1>3 DEF Abort, BatchIInv, Progress
<1>4. CASE Collect
  <2>1. Ending("running") = {} /\ Ending("cancelled") = {} /\ out' = task /\ step' = "extract"
    BY <1>4 DEF Collect, Ended
  <2>2. \A i \in Index : task[i].error \in States /\ task[i].error \notin {"running", "cancelled", "budget"}
    BY <1>1, <2>1 DEF TasksTyped, Results, Payload, Ending
  <2>3. Collected' /\ Faithful(out)'
    BY <1>1, <2>1, <2>2 DEF Collected, Faithful, TasksTyped, States
  <2>4. DOMAIN out' = Index
    BY <1>1, <2>1 DEF TasksTyped, Results
  <2>5. extracting' \subseteq Index
    BY <1>4, <2>4 DEF Collect
  <2> QED
    BY <1>1, <1>2, <2>1, <2>3, <2>5 DEF BatchIInv, Progress
<1> QED
  BY <1>3, <1>4

\* JSON is extracted.
LEMMA ExtractedKeeps ==
  ASSUME BatchIInv, NEW i \in Index, Extracted(i)
  PROVE  BatchIInv'
<1>1. /\ step = "extract" /\ UNCHANGED <<step, task, at, crawled>> /\ extracting' \subseteq Index
      /\ TasksTyped /\ Collected /\ Faithful(out) /\ crawled = << >> /\ at = 0
  BY DEF Extracted, BatchIInv, Progress
<1>2. PICK x \in Riches : out' = [out EXCEPT ![i].rich = @ + x]
  BY DEF Extracted
<1>3. x \in Nat /\ out \in Results
  BY <1>1, BatchAssumption DEF Faithful
<1>4. \A j \in Index : out[j] \in Payload
  BY <1>3 DEF Results
<1>5. [out[i] EXCEPT !.rich = @ + x] \in Payload
      /\ [out[i] EXCEPT !.rich = @ + x].url = out[i].url /\ [out[i] EXCEPT !.rich = @ + x].error = out[i].error
  BY <1>3, <1>4 DEF Payload
<1>6. out' = [out EXCEPT ![i] = [out[i] EXCEPT !.rich = @ + x]]
  BY <1>2, <1>3 DEF Results
<1>7. out' \in Results /\ \A j \in Index : out'[j] = IF j = i THEN [out[i] EXCEPT !.rich = @ + x] ELSE out[j]
  BY <1>3, <1>5, <1>6 DEF Results
<1>8. Faithful(out)' /\ Collected' /\ TasksTyped'
  BY <1>1, <1>5, <1>7 DEF Faithful, Collected, TasksTyped
<1> QED
  BY <1>1, <1>8 DEF BatchIInv, Progress

\* Results are as many as the URLs.
LEMMA ResultsAreAsMany ==
  ASSUME NEW results \in Results
  PROVE  Len(results) = Len(UrlSize)
<1>1. results \in [1 .. Len(UrlSize) -> Payload]
  BY Positions DEF Results
<1>2. results \in Seq(Payload) /\ DOMAIN results = 1 .. Len(UrlSize)
  BY <1>1, Positions, SeqDef
<1> QED
  BY <1>2, LenProperties, Positions

\* One more result is replaced, or one more URL forgotten.
LEMMA OneMore ==
  ASSUME NEW r \in Results, NEW m \in Index
  PROVE  /\ [Cut(r, m) EXCEPT ![m] = Stripped(@)] = Cut(r, m - 1)
         /\ [Forgotten(r, m) EXCEPT ![m].url = 0] = Forgotten(r, m - 1)
<1>1. /\ \A i \in Index : i \in Nat /\ i > 0 /\ i <= Len(UrlSize) /\ (i > m - 1 <=> i > m \/ i = m)
      /\ m \in Int /\ ~(m > m)
  BY Positions
<1>2. [Cut(r, m) EXCEPT ![m] = Stripped(@)] = Cut(r, m - 1)
  <2> DEFINE turned == [Cut(r, m) EXCEPT ![m] = Stripped(@)]
  <2>1. turned = [i \in Index |-> IF i = m THEN Stripped(Cut(r, m)[m]) ELSE Cut(r, m)[i]]
    BY DEF Cut
  <2>2. Cut(r, m)[m] = r[m] /\ \A i \in Index : i # m => Cut(r, m)[i] = Cut(r, m - 1)[i]
    BY <1>1 DEF Cut
  <2>3. Cut(r, m - 1)[m] = Stripped(r[m]) /\ Cut(r, m - 1) = [i \in Index |-> Cut(r, m - 1)[i]]
    BY <1>1 DEF Cut
  <2> DEFINE whole == Cut(r, m)
             less == Cut(r, m - 1)
  <2> HIDE DEF turned, whole, less
  <2>4. \A i \in Index : turned[i] = less[i]
    BY <2>1, <2>2, <2>3 DEF whole, less
  <2>5. DOMAIN turned = Index /\ turned = [i \in Index |-> turned[i]] /\ less = [i \in Index |-> less[i]]
    BY <2>1, <2>3 DEF less
  <2> QED
    BY <2>4, <2>5 DEF turned, less
<1>3. [Forgotten(r, m) EXCEPT ![m].url = 0] = Forgotten(r, m - 1)
  <2> DEFINE turned == [Forgotten(r, m) EXCEPT ![m].url = 0]
  <2>1. turned = [i \in Index |-> IF i = m THEN [Forgotten(r, m)[m] EXCEPT !.url = 0] ELSE Forgotten(r, m)[i]]
    BY DEF Forgotten
  <2>2. Forgotten(r, m)[m] = Stripped(r[m]) /\ \A i \in Index : i # m => Forgotten(r, m)[i] = Forgotten(r, m - 1)[i]
    BY <1>1 DEF Forgotten
  <2>3. /\ Forgotten(r, m - 1)[m] = [Stripped(r[m]) EXCEPT !.url = 0]
        /\ Forgotten(r, m - 1) = [i \in Index |-> Forgotten(r, m - 1)[i]]
    BY <1>1 DEF Forgotten
  <2> DEFINE whole == Forgotten(r, m)
             less == Forgotten(r, m - 1)
  <2> HIDE DEF turned, whole, less
  <2>4. \A i \in Index : turned[i] = less[i]
    BY <2>1, <2>2, <2>3 DEF whole, less
  <2>5. DOMAIN turned = Index /\ turned = [i \in Index |-> turned[i]] /\ less = [i \in Index |-> less[i]]
    BY <2>1, <2>3 DEF less
  <2> QED
    BY <2>4, <2>5 DEF turned, less
<1> QED
  BY <1>2, <1>3

\* Where the loops begin.
LEMMA Ends ==
  ASSUME NEW r \in Results
  PROVE  Cut(r, 0) = Forgotten(r, Len(UrlSize)) /\ Cut(r, Len(UrlSize)) = r
<1>1. \A i \in Index : i > 0 /\ ~(i > Len(UrlSize))
  BY Positions
<1>2. r = [i \in Index |-> r[i]]
  BY DEF Results
<1> QED
  BY <1>1, <1>2 DEF Cut, Forgotten

\* A text that is too long is cut, and its share of the wire with it.
LEMMA CappedIsPayload ==
  ASSUME NEW r \in Payload
  PROVE  Capped(r) \in Payload /\ Capped(r).url = r.url /\ Capped(r).error = r.error
<1>1. r.text \in Nat /\ r.wire \in Nat /\ r.rich \in Nat /\ TextCap \in Nat \ {0} /\ Mark \in Nat
  BY BatchAssumption DEF Payload
<1>2. CASE r.text <= TextCap
  BY <1>2 DEF Capped
<1>3. CASE r.text > TextCap
  <2> DEFINE share == r.wire \div r.text
  <2>1. share \in Nat
    BY <1>1, <1>3
  <2>2. share * TextCap \in Nat /\ r.rich + Mark \in Nat
    <3> HIDE DEF share
    <3> QED
      BY <1>1, <2>1
  <2>3. Capped(r) = [r EXCEPT !.text = TextCap, !.wire = share * TextCap, !.rich = r.rich + Mark]
    BY <1>1, <1>3 DEF Capped
  <2> HIDE DEF share
  <2> QED
    BY <1>1, <2>2, <2>3 DEF Payload
<1> QED
  BY <1>1, <1>2, <1>3

LEMMA CapTextsKeeps ==
  ASSUME BatchIInv, CapTexts
  PROVE  BatchIInv'
<1> DEFINE capped == [i \in DOMAIN out |-> Capped(out[i])]
<1>1. /\ step = "extract" /\ UNCHANGED <<task, extracting>> /\ out' = capped /\ crawled' = capped
      /\ \/ Fits(capped) /\ step' = "done" /\ UNCHANGED at
         \/ ~Fits(capped) /\ step' = "strip" /\ at' = Len(capped)
  BY DEF CapTexts
<1>2. TasksTyped /\ Collected /\ Faithful(out) /\ at = 0 /\ extracting \subseteq Index
  BY <1>1 DEF BatchIInv, Progress
<1>3. DOMAIN out = Index /\ \A i \in Index : out[i] \in Payload
  BY <1>2 DEF Faithful, Results
<1>4. capped \in Results /\ \A i \in Index : capped[i].url = out[i].url /\ capped[i].error = out[i].error
  <2>1. \A i \in Index : capped[i] = Capped(out[i])
    BY <1>3
  <2>2. \A i \in Index : Capped(out[i]) \in Payload /\ Capped(out[i]).url = out[i].url /\ Capped(out[i]).error = out[i].error
    BY <1>3, CappedIsPayload
  <2>3. capped = [i \in Index |-> capped[i]]
    BY <1>3
  <2> HIDE DEF capped
  <2> QED
    BY <2>1, <2>2, <2>3 DEF Results
<1>5. Len(capped) = Len(UrlSize)
  <2>1. capped \in Seq(Payload) /\ DOMAIN capped = 1 .. Len(UrlSize)
    <3> HIDE DEF capped
    <3>1. capped \in [1 .. Len(UrlSize) -> Payload]
      BY <1>4, Positions DEF Results
    <3> QED
      BY <3>1, Positions, SeqDef
  <2> HIDE DEF capped
  <2> QED
    BY <2>1, LenProperties, Positions
<1> HIDE DEF capped
<1>6. Faithful(crawled)' /\ Collected' /\ TasksTyped'
  BY <1>1, <1>2, <1>4 DEF Faithful, Collected, TasksTyped
<1>7. Cut(capped, Len(UrlSize)) = capped /\ Len(UrlSize) \in 1 .. Len(UrlSize) /\ Len(UrlSize) \in 0 .. Len(UrlSize)
  BY <1>4, Positions, Ends
<1>8. CASE step' = "done"
  <2>1. Fits(out') /\ out' = Cut(crawled', Len(UrlSize)) /\ at' \in 0 .. Len(UrlSize)
    BY <1>1, <1>2, <1>7, <1>8, Positions
  <2>2. \E m \in 0 .. Len(UrlSize) : out' = Cut(crawled', m) /\ (m < Len(UrlSize) => ~Fits(Cut(crawled', m + 1)))
    BY <1>7, <2>1, Positions
  <2> QED
    BY <1>1, <1>2, <1>6, <1>8, <2>1, <2>2 DEF BatchIInv, Progress
<1>9. CASE step' = "strip" /\ ~Fits(capped)
  <2>1. at' = Len(UrlSize) /\ out' = Cut(crawled', at') /\ ~Fits(Cut(crawled', at'))
    BY <1>1, <1>5, <1>7, <1>9
  <2> QED
    BY <1>1, <1>2, <1>6, <1>7, <1>9, <2>1, Positions DEF BatchIInv, Progress
<1> QED
  BY <1>1, <1>8, <1>9

\* The loops work on results that are kept as they were r.
LEMMA LoopsKeep ==
  ASSUME BatchIInv, Strip \/ Forget
  PROVE  BatchIInv'
<1>1. /\ step \in {"strip", "forget"} /\ crawled' = crawled /\ UNCHANGED <<task, extracting>>
      /\ TasksTyped /\ Collected /\ Faithful(crawled) /\ at \in 0 .. Len(UrlSize) /\ extracting \subseteq Index
  BY DEF Strip, Forget, Turn, BatchIInv, Progress
<1>2. at \in Index /\ crawled \in Results /\ at \in Nat /\ at - 1 \in 0 .. Len(UrlSize) /\ Len(UrlSize) \in Nat
      /\ (at > 1 => at - 1 \in 1 .. Len(UrlSize)) /\ (~(at > 1) => at = 1)
      /\ Len(UrlSize) >= 1 /\ at - 1 + 1 = at
  <2>1. at >= 1
    BY <1>1 DEF BatchIInv, Progress
  <2> QED
    BY <1>1, <2>1, Positions DEF Faithful
<1>3. Faithful(crawled)' /\ Collected' /\ TasksTyped' /\ extracting' \subseteq Index
  BY <1>1, <1>2 DEF Faithful, Collected, TasksTyped
<1>4. CASE Strip
  <2>1. step = "strip" /\ out = Cut(crawled, at) /\ ~Fits(Cut(crawled, at)) /\ Turn(Cut(crawled, at - 1), "forget")
    <3>1. step = "strip" /\ Turn([out EXCEPT ![at] = Stripped(@)], "forget")
      BY <1>4 DEF Strip, Victim
    <3>2. out = Cut(crawled, at) /\ ~Fits(Cut(crawled, at))
      BY <3>1 DEF BatchIInv, Progress
    <3>3. [Cut(crawled, at) EXCEPT ![at] = Stripped(@)] = Cut(crawled, at - 1)
      BY <1>2, OneMore
    <3> QED
      BY <3>1, <3>2, <3>3
  <2>2. Len(out) = Len(UrlSize)
    BY <1>2, <2>1, CutsAreResults, ResultsAreAsMany
  <2>3. CASE Fits(Cut(crawled, at - 1)) /\ step' = "done" /\ out' = Cut(crawled, at - 1) /\ at' = at
    <3>1. Fits(out') /\ \E m \in 0 .. Len(UrlSize) :
            out' = Cut(crawled', m) /\ (m < Len(UrlSize) => ~Fits(Cut(crawled', m + 1)))
      BY <1>1, <1>2, <2>1, <2>3
    <3> QED
      BY <1>1, <1>3, <2>3, <3>1 DEF BatchIInv, Progress
  <2>4. CASE ~Fits(Cut(crawled, at - 1)) /\ at > 1 /\ at' = at - 1 /\ step' = "strip" /\ out' = Cut(crawled, at - 1)
    <3>1. at' \in 0 .. Len(UrlSize) /\ at' >= 1 /\ out' = Cut(crawled', at') /\ ~Fits(Cut(crawled', at'))
      BY <1>1, <1>2, <2>4
    <3> QED
      BY <1>3, <2>4, <3>1 DEF BatchIInv, Progress
  <2>5. CASE at = 1 /\ step' = "forget" /\ at' = Len(out) /\ out' = Cut(crawled, at - 1)
    <3>1. at - 1 = 0 /\ Cut(crawled, 0) = Forgotten(crawled, Len(UrlSize))
      BY <1>2, <2>5, Ends
    <3>2. at' = Len(UrlSize) /\ out' = Forgotten(crawled', at') /\ ~Fits(Cut(crawled', 1))
      BY <1>1, <2>1, <2>2, <2>5, <3>1
    <3>3. at' \in 0 .. Len(UrlSize) /\ at' >= 1
      BY <1>2, <3>2
    <3> QED
      BY <1>3, <2>5, <3>2, <3>3 DEF BatchIInv, Progress
  <2> QED
    BY <1>2, <2>1, <2>3, <2>4, <2>5 DEF Turn
<1>5. CASE Forget
  <2>1. /\ step = "forget" /\ ~Fits(Cut(crawled, 1)) /\ Turn(Forgotten(crawled, at - 1), "done")
        /\ Len(out) = Len(UrlSize)
    <3>1. step = "forget" /\ Turn([out EXCEPT ![at].url = 0], "done")
      BY <1>5 DEF Forget
    <3>2. out = Forgotten(crawled, at) /\ ~Fits(Cut(crawled, 1))
      BY <3>1 DEF BatchIInv, Progress
    <3>3. [Forgotten(crawled, at) EXCEPT ![at].url = 0] = Forgotten(crawled, at - 1)
      BY <1>2, OneMore
    <3>4. Forgotten(crawled, at) \in Results
      BY <1>2, CutsAreResults
    <3> QED
      BY <3>1, <3>2, <3>3, <3>4, ResultsAreAsMany
  <2>2. at = 1 => Fits(Forgotten(crawled, at - 1))
    <3>1. Fits(Forgotten(crawled, 0))
      BY <1>2, NoticesFit
    <3>2. at = 1 => at - 1 = 0
      OBVIOUS
    <3> QED
      BY <3>1, <3>2
  <2>3. CASE Fits(Forgotten(crawled, at - 1)) /\ step' = "done" /\ out' = Forgotten(crawled, at - 1) /\ at' = at
    <3>1. Fits(out') /\ \E m \in 0 .. Len(UrlSize) : out' = Forgotten(crawled', m) /\ ~Fits(Cut(crawled', 1))
      BY <1>1, <1>2, <2>1, <2>3
    <3> QED
      BY <1>1, <1>3, <2>3, <3>1 DEF BatchIInv, Progress
  <2>4. CASE at > 1 /\ at' = at - 1 /\ step' = "forget" /\ out' = Forgotten(crawled, at - 1)
    <3>1. at' \in 0 .. Len(UrlSize) /\ at' >= 1 /\ out' = Forgotten(crawled', at') /\ ~Fits(Cut(crawled', 1))
      BY <1>1, <1>2, <2>1, <2>4
    <3> QED
      BY <1>3, <2>4, <3>1 DEF BatchIInv, Progress
  <2> QED
    BY <1>2, <2>1, <2>2, <2>3, <2>4 DEF Turn
<1> QED
  BY <1>4, <1>5

LEMMA BatchStep == BatchIInv /\ [BatchNext]_batchVars => BatchIInv'
<1> SUFFICES ASSUME BatchIInv, [BatchNext]_batchVars
             PROVE  BatchIInv'
  OBVIOUS
<1>1. CASE UNCHANGED batchVars
  BY <1>1 DEF batchVars, BatchIInv, TasksTyped, Progress, Collected, Faithful
<1> QED
  BY <1>1, CrawlKeeps, CollectKeeps, ExtractedKeeps, CapTextsKeeps, LoopsKeep DEF BatchNext

\* A result keeps its URL, or loses it, and keeps its error, or is replaced.
LEMMA AnswerShape ==
  ASSUME TasksTyped, Collected, Faithful(crawled), NEW m \in 0 .. Len(UrlSize),
         out \in {Cut(crawled, m), Forgotten(crawled, m)}
  PROVE  /\ out \in Results /\ DOMAIN out = Index /\ Len(out) = Len(UrlSize)
         /\ \A i \in Index : out[i].url \in {0, UrlSize[i]} /\ out[i].error \in {task[i].error, "budget"}
         /\ out = Cut(crawled, m) => Replaced = {i \in Index : i > m}
         /\ out = Forgotten(crawled, m) => Replaced = Index
         /\ \A i \in Index \ Replaced : out[i] = crawled[i]
<1>1. out \in Results
  BY CutsAreResults DEF Faithful
<1>2. DOMAIN out = Index /\ Len(out) = Len(UrlSize)
  BY <1>1, ResultsAreAsMany DEF Results
<1>3. ASSUME NEW i \in Index
      PROVE  /\ crawled[i].url = UrlSize[i] /\ crawled[i].error = task[i].error
             /\ crawled[i].error \in {"none", "failed"}
             /\ Stripped(crawled[i]).url = UrlSize[i] /\ Stripped(crawled[i]).error = "budget"
             /\ [Stripped(crawled[i]) EXCEPT !.url = 0].url = 0
             /\ [Stripped(crawled[i]) EXCEPT !.url = 0].error = "budget"
  BY DEF Faithful, Collected, Results, Payload, Stripped
<1>4. ASSUME out = Forgotten(crawled, m)
      PROVE  \A i \in Index : out[i].url \in {0, UrlSize[i]} /\ out[i].error = "budget"
  <2>1. \A i \in Index : out[i] \in {Stripped(crawled[i]), [Stripped(crawled[i]) EXCEPT !.url = 0]}
    BY <1>4 DEF Forgotten
  <2> QED
    BY <1>3, <2>1
<1>5. ASSUME out = Cut(crawled, m)
      PROVE  \A i \in Index :
               /\ out[i].url = UrlSize[i] /\ out[i].error \in {task[i].error, "budget"}
               /\ (out[i].error = "budget" <=> i > m)
               /\ (i > m \/ out[i] = crawled[i])
  <2>1. \A i \in Index : out[i] = IF i > m THEN Stripped(crawled[i]) ELSE crawled[i]
    BY <1>5 DEF Cut
  <2> QED
    BY <1>3, <2>1
<1>6. out = Forgotten(crawled, m) => Replaced = Index
  BY <1>2, <1>4 DEF Replaced
<1>7. out = Cut(crawled, m) => Replaced = {i \in Index : i > m}
  BY <1>2, <1>5 DEF Replaced
<1>8. \A i \in Index : out[i].url \in {0, UrlSize[i]} /\ out[i].error \in {task[i].error, "budget"}
  BY <1>4, <1>5
<1>9. \A i \in Index \ Replaced : out[i] = crawled[i]
  <2>1. CASE out = Forgotten(crawled, m)
    BY <1>6, <2>1
  <2>2. CASE out = Cut(crawled, m)
    BY <1>5, <1>7, <2>2
  <2> QED
    BY <2>1, <2>2
<1> HIDE DEF Replaced
<1> QED
  BY <1>1, <1>2, <1>6, <1>7, <1>8, <1>9

\* The first replaced result is the one behind the cut.
LEMMA FirstOf ==
  ASSUME NEW m \in 0 .. Len(UrlSize) - 1
  PROVE  Min({i \in Index : i > m}) = m + 1
BY Positions DEF Min

\* The answer fits, and no more of its tail is replaced than has to be.
LEMMA BatchImplies == BatchIInv => TailReplaced
<1> SUFFICES ASSUME BatchIInv PROVE TailReplaced
  OBVIOUS
<1>1. TasksTyped /\ extracting \subseteq Index /\ Progress /\ Len(UrlSize) \in Nat \ {0} /\ Index = 1 .. Len(UrlSize)
  BY Positions DEF BatchIInv
<1>2. \A r \in Results : Range(r) \subseteq Payload
  BY DEF Results, Range
<1>3. Range(<< >>) = {}
  BY DEF Range
<1>4. /\ out = << >> \/ out \in Results
      /\ crawled = << >> \/ crawled \in Results
  <2>1. \A m \in Int : crawled \in Results => Cut(crawled, m) \in Results /\ Forgotten(crawled, m) \in Results
    BY CutsAreResults
  <2>2. at \in Int /\ 0 .. Len(UrlSize) \subseteq Int
    BY <1>1 DEF Progress
  <2> QED
    BY <1>1, <2>1, <2>2 DEF Progress, Faithful
<1>5. BatchTypeOK
  <2>1. Range(task) \cup Range(out) \cup Range(crawled) \subseteq Payload
    BY <1>1, <1>2, <1>3, <1>4 DEF TasksTyped
  <2>2. /\ step \in {"crawl", "extract", "strip", "forget", "done", "aborted"}
        /\ at \in 0 .. Len(UrlSize)
    BY <1>1 DEF Progress
  <2> QED
    BY <1>1, <2>1, <2>2 DEF BatchTypeOK, Payload
<1>6. ASSUME step = "done"
      PROVE  /\ Fits(out) /\ Len(out) = Len(UrlSize)
             /\ \A i \in Index :
                  IF task[i].error = "failed" THEN out[i].error \in {"failed", "budget"}
                                              ELSE out[i].error \in {"none", "budget"}
             /\ \A i \in Index : out[i].url \in {0, UrlSize[i]}
             /\ \A i \in DOMAIN out \ Replaced : out[i] = crawled[i]
             /\ \A i \in Replaced, j \in DOMAIN out : i < j => j \in Replaced
             /\ Replaced # {} =>
                  ~Fits([i \in DOMAIN out |-> IF i > Min(Replaced) THEN Stripped(crawled[i]) ELSE crawled[i]])
  <2>1. Fits(out) /\ Collected /\ Faithful(crawled)
    BY <1>1, <1>6 DEF Progress
  <2>2. PICK m \in 0 .. Len(UrlSize) :
          \/ out = Cut(crawled, m) /\ (m < Len(UrlSize) => ~Fits(Cut(crawled, m + 1)))
          \/ out = Forgotten(crawled, m) /\ ~Fits(Cut(crawled, 1))
    BY <1>1, <1>6 DEF Progress
  <2>3. /\ DOMAIN out = Index /\ Len(out) = Len(UrlSize)
        /\ \A i \in Index : out[i].url \in {0, UrlSize[i]} /\ out[i].error \in {task[i].error, "budget"}
        /\ out = Cut(crawled, m) => Replaced = {i \in Index : i > m}
        /\ out = Forgotten(crawled, m) => Replaced = Index
        /\ \A i \in Index \ Replaced : out[i] = crawled[i]
    BY <1>1, <2>1, <2>2, AnswerShape
  <2>4. \A i \in Replaced, j \in DOMAIN out : i < j => j \in Replaced
    <3>1. CASE Replaced = Index
      BY <2>3, <3>1
    <3>2. CASE Replaced = {i \in Index : i > m}
      BY <1>1, <2>3, <3>2
    <3> QED
      BY <2>2, <2>3, <3>1, <3>2
  <2>5. \A n \in Int : Cut(crawled, n) = [i \in DOMAIN out |-> IF i > n THEN Stripped(crawled[i]) ELSE crawled[i]]
    BY <2>3 DEF Cut
  <2>6. Replaced # {} => Min(Replaced) \in Int /\ ~Fits(Cut(crawled, Min(Replaced)))
    <3>1. CASE out = Forgotten(crawled, m) /\ ~Fits(Cut(crawled, 1))
      <4>1. Replaced = {i \in Index : i > 0} /\ 0 \in 0 .. Len(UrlSize) - 1
        BY <1>1, <2>3, <3>1
      <4>2. Min(Replaced) = 1
        BY <4>1, FirstOf
      <4> QED
        BY <3>1, <4>2
    <3>2. CASE out = Cut(crawled, m) /\ (m < Len(UrlSize) => ~Fits(Cut(crawled, m + 1))) /\ Replaced # {}
      <4>1. Replaced = {i \in Index : i > m} /\ m \in 0 .. Len(UrlSize) - 1
        BY <1>1, <2>3, <3>2
      <4>2. Min(Replaced) = m + 1 /\ m < Len(UrlSize)
        BY <1>1, <4>1, FirstOf
      <4> QED
        BY <3>2, <4>1, <4>2
    <3> QED
      BY <2>2, <3>1, <3>2
  <2>7. \A i \in Index : task[i].error \in {"none", "failed"}
    BY <2>1 DEF Collected
  <2>8. Replaced # {} =>
          ~Fits([i \in DOMAIN out |-> IF i > Min(Replaced) THEN Stripped(crawled[i]) ELSE crawled[i]])
    BY <2>5, <2>6
  <2> QED
    BY <2>1, <2>3, <2>4, <2>7, <2>8
<1> QED
  BY <1>5, <1>6 DEF TailReplaced

\* Whatever the sizes are and however the crawls end, the answer that leaves is
\* the results with the shortest tail replaced that makes it fit.
THEOREM AnswersFit == BatchSpec => []TailReplaced
BY BatchStart, BatchStep, BatchImplies, PTL DEF BatchSpec

(***************************************************************************)
(* A site map                                                              *)
(***************************************************************************)

Stage == {"loading", "kept", "failed"}
Gets == Seq([url : Url, stage : Stage, got : Nat])

\* What the loops over documents work on.
Lists == [queue : Seq(Url), found : Seq(Url), crowded : BOOLEAN]

LEMMA SiteFacts ==
  /\ {Robots, Home, Default} \subseteq Url
  /\ {PageLimit, MaxSitemaps, Concurrency, MaxBytes, MaxDocument, MaxChunk} \subseteq Nat \ {0}
  /\ \A u \in Url : /\ Site[u].bytes \in Nat /\ Site[u].inflated \in Nat
                    /\ Site[u].index \in BOOLEAN /\ Site[u].locs \in Seq(Url)
BY SiteAssumption DEF Document
-----------------------------------------------------------------------------
(* The loops over documents *)

\* One more <loc> keeps the lists typed.
LEMMA ReadLocTyped ==
  ASSUME NEW acc \in Lists, NEW index \in BOOLEAN, NEW u \in Url
  PROVE  ReadLoc(acc, index, u) \in Lists
<1>1. /\ acc.queue \in Seq(Url) /\ acc.found \in Seq(Url) /\ acc.crowded \in BOOLEAN
      /\ Append(acc.queue, u) \in Seq(Url) /\ Added(acc.found, u) \in Seq(Url)
  BY AppendProperties DEF Lists, Added
<1>2. /\ [acc EXCEPT !.queue = Append(@, u)] \in Lists
      /\ [acc EXCEPT !.crowded = TRUE] \in Lists
      /\ [acc EXCEPT !.found = Added(@, u)] \in Lists
  BY <1>1 DEF Lists
<1>3. Len(acc.found) \in Nat /\ PageLimit \in Nat
  BY <1>1, SiteFacts, LenProperties
<1>4. CASE Len(acc.found) >= PageLimit
  BY <1>3, <1>4 DEF ReadLoc
<1>5. CASE ~(Len(acc.found) >= PageLimit) /\ (index \/ u \in XmlPath)
  BY <1>2, <1>3, <1>5 DEF ReadLoc
<1>6. CASE ~(Len(acc.found) >= PageLimit) /\ ~(index \/ u \in XmlPath)
  BY <1>2, <1>3, <1>6 DEF ReadLoc
<1> QED
  BY <1>4, <1>5, <1>6

(* The loops over documents, step by step *)

\* The lists after each location of a document.
ReadDocumentBy(acc, u, k) ==
  /\ k \in [0 .. Len(Site[u].locs) -> Lists]
  /\ k[0] = acc
  /\ \A i \in 1 .. Len(Site[u].locs) : k[i] = ReadLoc(k[i - 1], Site[u].index, Site[u].locs[i])

\* ReadDocument, a fold over the locations, takes these steps one by one.
LEMMA ReadDocumentRuns ==
  ASSUME NEW acc \in Lists, NEW u \in Url, u \in Arrived
  PROVE  \E k : ReadDocumentBy(acc, u, k) /\ k[Len(Site[u].locs)] = ReadDocument(acc, u)
<1> DEFINE locs == Site[u].locs
           n == Len(locs)
           A == Lists
           next(a, s) == IF s = {} THEN acc ELSE ReadLoc(a[s \ {Max(s)}], Site[u].index, locs[Max(s)])
           solves(a) == a = [s \in SUBSET DOMAIN locs |-> next(a, s)]
           g == CHOOSE a : solves(a)
           F == [q \in A \X (1 .. n) |-> ReadLoc(q[1], Site[u].index, locs[q[2]])]
<1>1. ReadDocument(acc, u) = g[DOMAIN locs]
  BY DEF ReadDocument, FoldLeft, MapThenFoldSet
<1>2. n \in Nat /\ DOMAIN locs = 1 .. n /\ acc \in A /\ Site[u].index \in BOOLEAN /\ \A i \in 1 .. n : locs[i] \in Url
  BY SiteFacts, LenProperties, ElementOfSeq
<1> HIDE DEF n, locs
<1>3. \A a \in A, i \in 1 .. n : ReadLoc(a, Site[u].index, locs[i]) \in A
  BY <1>2, ReadLocTyped
<1> HIDE DEF A
<1>4. /\ F \in [A \X (1 .. n) -> A]
      /\ \A a \in A, i \in 1 .. n : F[<<a, i>>] = ReadLoc(a, Site[u].index, locs[i])
  BY <1>3
<1> HIDE DEF F
<1>5. PICK h : FoldsWith(A, n, F, acc, h)
  BY <1>2, <1>4, FoldExists
<1>6. \A s \in SUBSET (1 .. n) : s # {} => Max(s) \in 1 .. n
  BY <1>2, GreatestOf
<1>7. solves(h)
  <2>1. \A s \in SUBSET (1 .. n) : h[s] = next(h, s)
    BY <1>4, <1>5, <1>6 DEF FoldsWith
  <2>2. h = [s \in SUBSET (1 .. n) |-> h[s]]
    BY <1>5 DEF FoldsWith
  <2> HIDE DEF next
  <2> QED
    BY <1>2, <2>1, <2>2
<1>8. solves(g)
  <2> HIDE DEF solves
  <2> QED
    BY <1>7
<1>9. \A s \in SUBSET (1 .. n) : g[s] = next(g, s)
  <2> HIDE DEF next, g
  <2> QED
    BY <1>2, <1>8
<1> HIDE DEF g
<1>10. FoldsBy(A, n, F, acc, g)
  <2>1. g[{}] = acc
    BY <1>9
  <2>2. ASSUME NEW s \in SUBSET (1 .. n), s # {}, g[s \ {Max(s)}] \in A
        PROVE  g[s] = F[<<g[s \ {Max(s)}], Max(s)>>]
    <3>1. g[s] = ReadLoc(g[s \ {Max(s)}], Site[u].index, locs[Max(s)])
      BY <1>9, <2>2
    <3> QED
      BY <1>4, <1>6, <2>2, <3>1
  <2> QED
    BY <2>1, <2>2 DEF FoldsBy
<1>11. PICK k : RunsWith(A, n, F, acc, g[1 .. n], k)
  BY <1>2, <1>4, <1>10, FoldRun
<1>12. \A i \in 1 .. n : k[i] = ReadLoc(k[i - 1], Site[u].index, locs[i])
  <2>1. \A i \in 1 .. n : i - 1 \in 0 .. n
    BY <1>2
  <2> QED
    BY <1>4, <1>11, <2>1 DEF RunsWith
<1> QED
  BY <1>1, <1>2, <1>11, <1>12 DEF RunsWith, ReadDocumentBy, A, n, locs

LEMMA ReadDocumentTyped ==
  ASSUME NEW acc \in Lists, NEW u \in Url
  PROVE  ReadDocument(acc, u) \in Lists
<1>1. CASE u \in Arrived
  <2>1. PICK k : ReadDocumentBy(acc, u, k) /\ k[Len(Site[u].locs)] = ReadDocument(acc, u)
    BY <1>1, ReadDocumentRuns
  <2>2. Len(Site[u].locs) \in 0 .. Len(Site[u].locs)
    BY SiteFacts, LenProperties
  <2> QED
    BY <2>1, <2>2 DEF ReadDocumentBy
<1>2. CASE u \notin Arrived
  BY <1>2 DEF ReadDocument
<1> QED
  BY <1>1, <1>2

\* The lists after each document of a batch.
ReadBatchBy(acc, k) ==
  /\ k \in [0 .. Len(batch) -> Lists]
  /\ k[0] = acc
  /\ \A i \in 1 .. Len(batch) : k[i] = ReadDocument(k[i - 1], batch[i])

\* So does the loop over a batch.
LEMMA ReadBatchRuns ==
  ASSUME NEW start \in Lists, batch \in Seq(Url)
  PROVE  \E k : ReadBatchBy(start, k) /\ k[Len(batch)] = FoldLeft(ReadDocument, start, InOrder(batch))
<1> DEFINE locs == batch
           n == Len(locs)
           A == Lists
           next(a, s) == IF s = {} THEN start ELSE ReadDocument(a[s \ {Max(s)}], locs[Max(s)])
           solves(a) == a = [s \in SUBSET DOMAIN locs |-> next(a, s)]
           g == CHOOSE a : solves(a)
           F == [q \in A \X (1 .. n) |-> ReadDocument(q[1], locs[q[2]])]
<1>1. FoldLeft(ReadDocument, start, InOrder(batch)) = g[DOMAIN locs]
  BY DEF InOrder, FoldLeft, MapThenFoldSet
<1>2. n \in Nat /\ DOMAIN locs = 1 .. n /\ start \in A /\ \A i \in 1 .. n : locs[i] \in Url
  BY SiteFacts, LenProperties, ElementOfSeq
<1> HIDE DEF n, locs
<1>3. \A a \in A, i \in 1 .. n : ReadDocument(a, locs[i]) \in A
  BY <1>2, ReadDocumentTyped
<1> HIDE DEF A
<1>4. /\ F \in [A \X (1 .. n) -> A]
      /\ \A a \in A, i \in 1 .. n : F[<<a, i>>] = ReadDocument(a, locs[i])
  BY <1>3
<1> HIDE DEF F
<1>5. PICK h : FoldsWith(A, n, F, start, h)
  BY <1>2, <1>4, FoldExists
<1>6. \A s \in SUBSET (1 .. n) : s # {} => Max(s) \in 1 .. n
  BY <1>2, GreatestOf
<1>7. solves(h)
  <2>1. \A s \in SUBSET (1 .. n) : h[s] = next(h, s)
    BY <1>4, <1>5, <1>6 DEF FoldsWith
  <2>2. h = [s \in SUBSET (1 .. n) |-> h[s]]
    BY <1>5 DEF FoldsWith
  <2> HIDE DEF next
  <2> QED
    BY <1>2, <2>1, <2>2
<1>8. solves(g)
  <2> HIDE DEF solves
  <2> QED
    BY <1>7
<1>9. \A s \in SUBSET (1 .. n) : g[s] = next(g, s)
  <2> HIDE DEF next, g
  <2> QED
    BY <1>2, <1>8
<1> HIDE DEF g
<1>10. FoldsBy(A, n, F, start, g)
  <2>1. g[{}] = start
    BY <1>9
  <2>2. ASSUME NEW s \in SUBSET (1 .. n), s # {}, g[s \ {Max(s)}] \in A
        PROVE  g[s] = F[<<g[s \ {Max(s)}], Max(s)>>]
    <3>1. g[s] = ReadDocument(g[s \ {Max(s)}], locs[Max(s)])
      BY <1>9, <2>2
    <3> QED
      BY <1>4, <1>6, <2>2, <3>1
  <2> QED
    BY <2>1, <2>2 DEF FoldsBy
<1>11. PICK k : RunsWith(A, n, F, start, g[1 .. n], k)
  BY <1>2, <1>4, <1>10, FoldRun
<1>12. \A i \in 1 .. n : k[i] = ReadDocument(k[i - 1], locs[i])
  <2>1. \A i \in 1 .. n : i - 1 \in 0 .. n
    BY <1>2
  <2> QED
    BY <1>4, <1>11, <2>1 DEF RunsWith
<1> QED
  BY <1>1, <1>2, <1>11, <1>12 DEF RunsWith, ReadBatchBy, A, n, locs

LEMMA ReadBatchTyped ==
  ASSUME NEW start \in Lists, batch \in Seq(Url)
  PROVE  FoldLeft(ReadDocument, start, InOrder(batch)) \in Lists
<1>1. PICK k : ReadBatchBy(start, k) /\ k[Len(batch)] = FoldLeft(ReadDocument, start, InOrder(batch))
  BY ReadBatchRuns
<1>2. Len(batch) \in 0 .. Len(batch)
  BY LenProperties
<1> QED
  BY <1>1, <1>2 DEF ReadBatchBy

\* One link of the home page.
AddedUpTo(list, u) == IF Len(list) >= PageLimit THEN list ELSE Added(list, u)

LEMMA AddedTyped ==
  ASSUME NEW list \in Seq(Url), NEW u \in Url
  PROVE  AddedUpTo(list, u) \in Seq(Url)
BY AppendProperties DEF AddedUpTo, Added

\* The list after each link of the home page.
ReadHomeBy(list, k) ==
  /\ k \in [0 .. Len(Site[Home].locs) -> Seq(Url)]
  /\ k[0] = list
  /\ \A i \in 1 .. Len(Site[Home].locs) : k[i] = AddedUpTo(k[i - 1], Site[Home].locs[i])

WithHome(list) == FoldLeft(LAMBDA f, u : IF Len(f) >= PageLimit THEN f ELSE Added(f, u), list, Site[Home].locs)

\* So does the loop over its links.
LEMMA ReadHomeRuns ==
  ASSUME NEW list \in Seq(Url)
  PROVE  \E k : ReadHomeBy(list, k) /\ k[Len(Site[Home].locs)] = WithHome(list)
<1> DEFINE locs == Site[Home].locs
           n == Len(locs)
           A == Seq(Url)
           next(a, s) == IF s = {} THEN list ELSE AddedUpTo(a[s \ {Max(s)}], locs[Max(s)])
           solves(a) == a = [s \in SUBSET DOMAIN locs |-> next(a, s)]
           g == CHOOSE a : solves(a)
           F == [q \in A \X (1 .. n) |-> AddedUpTo(q[1], locs[q[2]])]
<1>1. WithHome(list) = g[DOMAIN locs]
  BY DEF WithHome, AddedUpTo, FoldLeft, MapThenFoldSet
<1>2. n \in Nat /\ DOMAIN locs = 1 .. n /\ list \in A /\ \A i \in 1 .. n : locs[i] \in Url
  BY SiteFacts, LenProperties, ElementOfSeq
<1> HIDE DEF n, locs
<1>3. \A a \in A, i \in 1 .. n : AddedUpTo(a, locs[i]) \in A
  BY <1>2, AddedTyped
<1> HIDE DEF A
<1>4. /\ F \in [A \X (1 .. n) -> A]
      /\ \A a \in A, i \in 1 .. n : F[<<a, i>>] = AddedUpTo(a, locs[i])
  BY <1>3
<1> HIDE DEF F
<1>5. PICK h : FoldsWith(A, n, F, list, h)
  BY <1>2, <1>4, FoldExists
<1>6. \A s \in SUBSET (1 .. n) : s # {} => Max(s) \in 1 .. n
  BY <1>2, GreatestOf
<1>7. solves(h)
  <2>1. \A s \in SUBSET (1 .. n) : h[s] = next(h, s)
    BY <1>4, <1>5, <1>6 DEF FoldsWith
  <2>2. h = [s \in SUBSET (1 .. n) |-> h[s]]
    BY <1>5 DEF FoldsWith
  <2> HIDE DEF next
  <2> QED
    BY <1>2, <2>1, <2>2
<1>8. solves(g)
  <2> HIDE DEF solves
  <2> QED
    BY <1>7
<1>9. \A s \in SUBSET (1 .. n) : g[s] = next(g, s)
  <2> HIDE DEF next, g
  <2> QED
    BY <1>2, <1>8
<1> HIDE DEF g
<1>10. FoldsBy(A, n, F, list, g)
  <2>1. g[{}] = list
    BY <1>9
  <2>2. ASSUME NEW s \in SUBSET (1 .. n), s # {}, g[s \ {Max(s)}] \in A
        PROVE  g[s] = F[<<g[s \ {Max(s)}], Max(s)>>]
    <3>1. g[s] = AddedUpTo(g[s \ {Max(s)}], locs[Max(s)])
      BY <1>9, <2>2
    <3> QED
      BY <1>4, <1>6, <2>2, <3>1
  <2> QED
    BY <2>1, <2>2 DEF FoldsBy
<1>11. PICK k : RunsWith(A, n, F, list, g[1 .. n], k)
  BY <1>2, <1>4, <1>10, FoldRun
<1>12. \A i \in 1 .. n : k[i] = AddedUpTo(k[i - 1], locs[i])
  <2>1. \A i \in 1 .. n : i - 1 \in 0 .. n
    BY <1>2
  <2> QED
    BY <1>4, <1>11, <2>1 DEF RunsWith
<1> QED
  BY <1>1, <1>2, <1>11, <1>12 DEF RunsWith, ReadHomeBy, A, n, locs

LEMMA ReadHomeTyped ==
  ASSUME found \in Seq(Url)
  PROVE  WithHome(found) \in Seq(Url)
<1>1. PICK k : ReadHomeBy(found, k) /\ k[Len(Site[Home].locs)] = WithHome(found)
  BY ReadHomeRuns
<1>2. Len(Site[Home].locs) \in 0 .. Len(Site[Home].locs)
  BY SiteFacts, LenProperties
<1> QED
  BY <1>1, <1>2 DEF ReadHomeBy
-----------------------------------------------------------------------------
(* The invariant *)

\* The sitemaps among what was fetched.
Maps == {i \in DOMAIN gets : gets[i].url \notin {Robots, Home}}

\* Every sitemap that was taken into a batch is seen, and counted.
SeenCounted ==
  /\ IsFiniteSet(seen) /\ Cardinality(seen) = fetched + Len(batch)
  /\ fetched + Len(batch) <= MaxSitemaps /\ Len(batch) <= Concurrency

\* A sitemap is fetched once, and only if it was seen.
FetchedOnce ==
  /\ \A i \in Maps : gets[i].url \in OnSite \cap seen
  /\ \A i, j \in Maps : gets[i].url = gets[j].url => i = j

\* The batch holds other sitemaps than those that were fetched before.
BatchIsNew ==
  /\ Range(batch) \subseteq OnSite \cap seen /\ IsInjective(batch)
  /\ phase = "fill" => \A i \in Maps : gets[i].url \notin Range(batch)
  /\ phase \notin {"fill", "batch", "late"} => batch = << >>

\* What loads was started last.
Width == CASE phase \in {"robots", "home"} -> 1
           [] phase = "batch" -> Len(batch)
           [] OTHER -> 0

LoadsLast == \A i \in Loading : i > Len(gets) - Width

MapIInv ==
  /\ HeldWithinBudget /\ SeenCounted /\ FetchedOnce /\ BatchIsNew /\ LoadsLast
  /\ phase = "idle" => gets = << >>

LEMMA GetsTyped ==
  ASSUME MapTypeOK
  PROVE  /\ gets \in Gets /\ Len(gets) \in Nat /\ DOMAIN gets = 1 .. Len(gets)
         /\ \A i \in DOMAIN gets :
              /\ gets[i] = [url |-> gets[i].url, stage |-> gets[i].stage, got |-> gets[i].got]
              /\ gets[i].url \in Url /\ gets[i].stage \in Stage /\ gets[i].got \in Nat
         /\ Held \in Nat /\ IsFiniteSet(DOMAIN gets) /\ MaxBytes \in Nat /\ remaining \in Nat
<1>1. gets \in Gets /\ Len(gets) \in Nat /\ DOMAIN gets = 1 .. Len(gets)
  BY LenProperties DEF MapTypeOK, Gets, Stage
<1>2. \A i \in DOMAIN gets : gets[i] \in [url : Url, stage : Stage, got : Nat]
  BY <1>1, ElementOfSeq DEF Gets
<1>3. IsFiniteSet(DOMAIN gets)
  BY <1>1, FS_Interval
<1>4. Held \in Nat
  <2> DEFINE f == [i \in DOMAIN gets |-> gets[i].got]
  <2>1. \A i \in DOMAIN gets : f[i] \in Nat
    BY <1>2
  <2> HIDE DEF f
  <2>2. SumFunctionOnSet(f, DOMAIN gets) \in Nat
    BY <1>3, <2>1, SumBounds
  <2> QED
    BY <2>2 DEF Held, f
<1> QED
  BY <1>1, <1>2, <1>3, <1>4, SiteFacts DEF MapTypeOK

\* The promise, from the invariant: the sitemaps are as many as the URLs seen.
LEMMA MapImplies == MapIInv => MapBounded
<1> SUFFICES ASSUME MapIInv
             PROVE  MapBounded
  OBVIOUS
<1>1. MapTypeOK
  BY DEF MapIInv, HeldWithinBudget
<1>2. Cardinality(Maps) <= MaxSitemaps
  <2> DEFINE f == [i \in Maps |-> gets[i].url]
  <2>1. f \in Injection(Maps, seen)
    BY DEF MapIInv, FetchedOnce, Injection, IsInjective
  <2>2. Cardinality(Maps) <= Cardinality(seen) /\ IsFiniteSet(Maps) /\ Cardinality(seen) <= MaxSitemaps
        /\ Cardinality(seen) \in Nat
    BY <2>1, FS_Injection, FS_CardinalityType DEF MapIInv, SeenCounted
  <2> QED
    BY <2>2, FS_CardinalityType, SiteFacts
<1>3. Cardinality(Loading) <= Concurrency
  <2> DEFINE window == Len(gets) - Width + 1 .. Len(gets)
  <2>0. Concurrency \in Nat \ {0} /\ Len(gets) \in Nat /\ Len(batch) \in Nat /\ Len(batch) <= Concurrency
    BY <1>1, GetsTyped, SiteFacts, LenProperties DEF MapTypeOK, MapIInv, SeenCounted
  <2>1. Width \in Nat /\ Width <= Concurrency
    BY <2>0 DEF Width
  <2>2. Loading \in SUBSET window
    <3> SUFFICES ASSUME NEW i \in Loading
                 PROVE  i \in window
      OBVIOUS
    <3>1. i \in 1 .. Len(gets) /\ i > Len(gets) - Width
      BY <1>1, GetsTyped DEF MapIInv, LoadsLast, Loading
    <3> QED
      BY <2>0, <2>1, <3>1
  <2>3. IsFiniteSet(window) /\ Cardinality(window) = Width
    <3>1. Len(gets) - Width + 1 \in Int /\ Len(gets) \in Int
      BY <2>0, <2>1
    <3>2. /\ IsFiniteSet(window)
          /\ Cardinality(window) = IF Len(gets) - Width + 1 > Len(gets) THEN 0
                                   ELSE Len(gets) - (Len(gets) - Width + 1) + 1
      BY <3>1, FS_Interval
    <3> HIDE DEF window
    <3> QED
      BY <2>0, <2>1, <3>2
  <2> HIDE DEF window
  <2>4. Cardinality(Loading) <= Cardinality(window) /\ Cardinality(Loading) \in Nat
    BY <2>2, <2>3, FS_Subset, FS_CardinalityType
  <2> QED
    BY <2>0, <2>1, <2>3, <2>4
<1>4. SitemapsBounded
  BY <1>2, <1>3 DEF MapIInv, FetchedOnce, SitemapsBounded, Maps
<1> QED
  BY <1>4 DEF MapIInv, MapBounded

LEMMA MapStart == MapInit => MapIInv
<1> SUFFICES ASSUME MapInit
             PROVE  MapIInv
  OBVIOUS
<1>1. gets = << >> /\ DOMAIN gets = {} /\ batch = << >> /\ Len(batch) = 0 /\ Range(batch) = {}
  BY EmptySeq DEF MapInit, Range
<1>2. MapTypeOK
  <2>1. \A S : << >> \in Seq(S)
    BY EmptySeq
  <2>2. remaining \in 0 .. MaxBytes /\ fetched \in Nat
    BY SiteFacts DEF MapInit
  <2>3. crowded \in BOOLEAN
    BY DEF MapInit
  <2> QED
    BY <2>1, <2>2, <2>3 DEF MapInit, MapTypeOK
<1>3. Held = 0
  BY <1>1, SumEmpty DEF Held
<1>4. HeldWithinBudget
  BY <1>2, <1>3, SiteFacts DEF HeldWithinBudget, MapInit
<1>5. SeenCounted
  BY <1>1, FS_EmptySet, SiteFacts DEF SeenCounted, MapInit
<1>6. Maps = {} /\ Loading = {}
  BY <1>1 DEF Maps, Loading
<1> QED
  BY <1>1, <1>4, <1>5, <1>6 DEF MapIInv, FetchedOnce, BatchIsNew, LoadsLast, MapInit, IsInjective
-----------------------------------------------------------------------------
(* Documents arrive *)

\* One call of _get moves: what it holds and what remains of the budget do not
\* become more.
LEMMA GetMoves ==
  ASSUME MapIInv, NEW i \in Loading, NEW stage \in Stage, NEW got \in Nat,
         Becomes(i, stage, got), remaining' \in 0 .. MaxBytes,
         got + remaining' <= gets[i].got + remaining,
         UNCHANGED <<phase, toParse, seen, batch, fetched, found, crowded>>
  PROVE  MapIInv'
<1>0. MapTypeOK /\ i \in DOMAIN gets
  BY DEF MapIInv, HeldWithinBudget, Loading
<1> DEFINE moved == [url |-> gets[i].url, stage |-> stage, got |-> got]
<1>1. gets' = [gets EXCEPT ![i] = moved] /\ moved \in [url : Url, stage : Stage, got : Nat]
  <2>1. gets[i] = [url |-> gets[i].url, stage |-> gets[i].stage, got |-> gets[i].got] /\ gets[i].url \in Url
    BY <1>0, GetsTyped
  <2>2. gets' = [gets EXCEPT ![i] = [[@ EXCEPT !.stage = stage] EXCEPT !.got = got]]
    BY <1>0, GetsTyped DEF Becomes
  <2>3. [[gets[i] EXCEPT !.stage = stage] EXCEPT !.got = got] = moved
    <3>1. PICK a, b, c : gets[i] = [url |-> a, stage |-> b, got |-> c]
      BY <2>1
    <3>2. gets[i].url = a
      BY <3>1
    <3>3. [gets[i] EXCEPT !.stage = stage] = [url |-> a, stage |-> stage, got |-> c]
      BY <3>1
    <3>4. [[url |-> a, stage |-> stage, got |-> c] EXCEPT !.got = got] = [url |-> a, stage |-> stage, got |-> got]
      OBVIOUS
    <3>5. moved = [url |-> a, stage |-> stage, got |-> got]
      BY <3>2 DEF moved
    <3> QED
      BY <3>3, <3>4, <3>5
  <2> QED
    BY <2>1, <2>2, <2>3
<1> HIDE DEF moved
<1>2. gets' \in Gets /\ Len(gets') = Len(gets) /\ DOMAIN gets' = DOMAIN gets
      /\ gets'[i] = moved /\ \A j \in DOMAIN gets : j # i => gets'[j] = gets[j]
  BY <1>0, <1>1, GetsTyped, ExceptSeq DEF Gets
<1>3. moved.url = gets[i].url /\ moved.got = got /\ moved.stage = stage
  BY DEF moved
<1>4. MapTypeOK'
  BY <1>0, <1>2 DEF MapTypeOK, Gets, Stage
<1>5. Held' = Held + (got - gets[i].got)
  <2> DEFINE f == [j \in DOMAIN gets |-> gets[j].got]
             g == [j \in DOMAIN gets |-> gets'[j].got]
  <2>1. \A j \in DOMAIN gets : f[j] \in Int /\ g[j] \in Int
    BY <1>0, <1>2, <1>3, GetsTyped
  <2>2. \A j \in DOMAIN gets \ {i} : f[j] = g[j]
    BY <1>2
  <2>3. f[i] = gets[i].got /\ g[i] = got
    BY <1>0, <1>2, <1>3
  <2>4. Held = SumFunctionOnSet(f, DOMAIN gets) /\ Held' = SumFunctionOnSet(g, DOMAIN gets)
    BY <1>2 DEF Held
  <2> DEFINE D == DOMAIN gets
  <2>5. IsFiniteSet(D) /\ i \in D
    BY <1>0, GetsTyped
  <2> HIDE DEF f, g, D
  <2>6. \A j \in D : f[j] \in Int /\ g[j] \in Int
    BY <2>1 DEF D
  <2>7. \A j \in D \ {i} : f[j] = g[j]
    BY <2>2 DEF D
  <2>8. SumFunctionOnSet(g, D) = SumFunctionOnSet(f, D) + (g[i] - f[i])
    BY <2>5, <2>6, <2>7, SumChange
  <2> QED
    BY <2>3, <2>4, <2>8 DEF D
<1>6. HeldWithinBudget'
  <2>1. Held + remaining <= MaxBytes /\ Held \in Nat /\ gets[i].got \in Nat /\ remaining \in Nat /\ MaxBytes \in Nat
    BY <1>0, GetsTyped DEF MapIInv, HeldWithinBudget
  <2> QED
    BY <1>4, <1>5, <2>1 DEF HeldWithinBudget
<1>7. \A j \in DOMAIN gets : gets'[j].url = gets[j].url
  BY <1>2, <1>3
<1>8. Maps' = Maps /\ Loading' \subseteq Loading /\ Width' = Width
  <2>1. Maps' = Maps
    BY <1>2, <1>7 DEF Maps
  <2>2. Loading' \subseteq Loading
    BY <1>2, <1>3 DEF Loading
  <2>3. Width' = Width
    BY DEF Width
  <2> QED
    BY <2>1, <2>2, <2>3
<1>9. FetchedOnce' /\ BatchIsNew' /\ SeenCounted' /\ LoadsLast'
  <2>1. \A j \in Maps : gets'[j].url = gets[j].url
    BY <1>7 DEF Maps
  <2>2. FetchedOnce'
    BY <1>8, <2>1 DEF FetchedOnce, MapIInv
  <2>3. BatchIsNew'
    BY <1>8, <2>1 DEF BatchIsNew, MapIInv
  <2>4. SeenCounted' /\ LoadsLast'
    BY <1>2, <1>8 DEF SeenCounted, LoadsLast, MapIInv
  <2> QED
    BY <2>2, <2>3, <2>4
<1>10. phase' # "idle"
  BY <1>0, EmptySeq DEF MapIInv
<1> QED
  BY <1>6, <1>9, <1>10 DEF MapIInv

LEMMA DocumentsKeep ==
  ASSUME MapIInv, NEW i \in DOMAIN gets, Chunk(i) \/ Arrives(i) \/ NotServed(i)
  PROVE  MapIInv'
<1>0. /\ i \in Loading /\ UNCHANGED <<phase, toParse, seen, batch, fetched, found, crowded>>
      /\ gets[i].got \in Nat /\ remaining \in 0 .. MaxBytes /\ MaxBytes \in Nat
      /\ {"loading", "kept", "failed"} \subseteq Stage
      /\ Site[gets[i].url].bytes \in Nat /\ Site[gets[i].url].inflated \in Nat
  <2>1. MapTypeOK
    BY DEF MapIInv, HeldWithinBudget
  <2> QED
    BY <2>1, GetsTyped, SiteFacts DEF Chunk, Arrives, NotServed, Stage, MapTypeOK
<1>1. ASSUME Becomes(i, "failed", 0), remaining' \in 0 .. remaining
      PROVE  MapIInv'
  <2>1. remaining' \in 0 .. MaxBytes /\ 0 + remaining' <= gets[i].got + remaining
    BY <1>0, <1>1
  <2> QED
    BY <1>0, <1>1, <2>1, GetMoves
<1>2. ASSUME NEW n \in Nat, NEW stage \in Stage, Charge(i, n, stage)
      PROVE  MapIInv'
  <2>1. CASE n > remaining
    <3>1. Becomes(i, "failed", 0) /\ remaining' = 0 /\ 0 \in 0 .. remaining
      BY <1>0, <1>2, <2>1 DEF Charge
    <3> QED
      BY <1>1, <3>1
  <2>2. CASE ~(n > remaining)
    <3>1. Becomes(i, stage, gets[i].got + n) /\ remaining' = remaining - n
      BY <1>2, <2>2 DEF Charge
    <3>2. remaining' \in 0 .. MaxBytes /\ gets[i].got + n + remaining' <= gets[i].got + remaining
          /\ gets[i].got + n \in Nat
      BY <1>0, <2>2, <3>1
    <3> QED
      BY <1>0, <3>1, <3>2, GetMoves
  <2> QED
    BY <2>1, <2>2
<1>3. CASE Chunk(i)
  <2>1. PICK n \in 1 .. MaxChunk :
          IF gets[i].got + n > MaxDocument
          THEN Becomes(i, "failed", 0) /\ UNCHANGED remaining
          ELSE Charge(i, n, "loading")
    BY <1>3 DEF Chunk
  <2>2. n \in Nat /\ remaining \in 0 .. remaining
    BY <1>0, SiteFacts
  <2> QED
    BY <1>0, <1>1, <1>2, <2>1, <2>2
<1>4. CASE Arrives(i)
  <2> DEFINE d == Site[gets[i].url]
  <2>0. gets[i].got = d.bytes
    BY <1>4 DEF Arrives
  <2>1. CASE d.inflated > MaxDocument
    <3>1. Becomes(i, "failed", 0) /\ UNCHANGED remaining
      BY <1>0, <1>4, <2>1, SiteFacts DEF Arrives
    <3> QED
      BY <1>0, <1>1, <3>1
  <2>2. CASE ~(d.inflated > MaxDocument) /\ d.inflated \in d.bytes + 1 .. MaxDocument
    <3>1. Charge(i, d.inflated - d.bytes, "kept")
      BY <1>4, <2>2 DEF Arrives, Inflate
    <3>2. d.inflated - d.bytes \in Nat
      <4>1. d.bytes \in Nat /\ d.inflated \in Nat
        BY <1>0
      <4> HIDE DEF d
      <4> QED
        BY <2>2, <4>1
    <3> QED
      BY <1>0, <1>2, <3>1, <3>2
  <2>3. CASE ~(d.inflated > MaxDocument) /\ d.inflated \notin d.bytes + 1 .. MaxDocument
    <3>1. Becomes(i, "kept", d.bytes) /\ UNCHANGED remaining
      BY <1>4, <2>3 DEF Arrives
    <3>2. d.bytes + remaining' <= gets[i].got + remaining /\ remaining' \in 0 .. MaxBytes
      BY <1>0, <2>0, <3>1
    <3> QED
      BY <1>0, <3>1, <3>2, GetMoves
  <2> QED
    BY <2>1, <2>2, <2>3
<1>5. CASE NotServed(i)
  BY <1>0, <1>1, <1>5 DEF NotServed
<1> QED
  BY <1>3, <1>4, <1>5
-----------------------------------------------------------------------------
(* The call itself *)

\* Outside the awaits nothing loads.
LEMMA NothingLoads ==
  ASSUME MapIInv, phase \notin {"robots", "batch", "home"}
  PROVE  Loading = {}
<1>1. Width = 0 /\ Len(gets) \in Nat /\ DOMAIN gets = 1 .. Len(gets)
  BY GetsTyped DEF Width, MapIInv, HeldWithinBudget
<1> QED
  BY <1>1 DEF MapIInv, LoadsLast, Loading

\* A step that fetches nothing, taken while nothing loads.
LEMMA GetsStay ==
  ASSUME MapIInv, MapTypeOK', UNCHANGED <<gets, remaining>>, Loading = {}, phase' # "idle",
         seen \subseteq seen', SeenCounted', BatchIsNew'
  PROVE  MapIInv'
<1>1. Held' = Held /\ Maps' = Maps /\ Loading' = {}
  BY DEF Held, Maps, Loading
<1>2. HeldWithinBudget'
  BY <1>1 DEF HeldWithinBudget, MapIInv
<1>3. FetchedOnce' /\ LoadsLast'
  BY <1>1 DEF FetchedOnce, LoadsLast, MapIInv
<1> QED
  BY <1>2, <1>3 DEF MapIInv

\* map_site is called: robots.txt is fetched first.
LEMMA MapCalledKeeps ==
  ASSUME MapIInv, MapCalled
  PROVE  MapIInv'
<1>0. MapTypeOK /\ gets = << >> /\ batch = << >> /\ phase' = "robots" /\ gets' = <<Get(Robots)>>
      /\ UNCHANGED <<toParse, seen, batch, fetched, found, remaining, crowded>>
  BY DEF MapCalled, MapIInv, HeldWithinBudget, BatchIsNew
<1>1. Get(Robots) \in [url : Url, stage : Stage, got : Nat] /\ Get(Robots).url = Robots /\ Get(Robots).got = 0
  BY SiteFacts DEF Get, Stage
<1>2. gets' \in Gets /\ Len(gets') = 1 /\ DOMAIN gets' = {1} /\ gets'[1] = Get(Robots)
  BY <1>0, <1>1 DEF Gets
<1>3. MapTypeOK'
  BY <1>0, <1>2 DEF MapTypeOK, Gets, Stage
<1>4. Maps' = {} /\ Loading' \subseteq {1} /\ Width' = 1
  BY <1>0, <1>1, <1>2 DEF Maps, Loading, Width
<1>5. Held' = 0
  <2> DEFINE f == [i \in {1} |-> gets'[i].got]
  <2>1. \A i \in {1} : f[i] = 0 /\ f[i] \in Nat
    BY <1>1, <1>2
  <2>2. Held' = SumFunctionOnSet(f, {1})
    BY <1>2 DEF Held
  <2> HIDE DEF f
  <2> QED
    BY <2>1, <2>2, SumBounds, FS_Singleton
<1>6. HeldWithinBudget'
  BY <1>0, <1>3, <1>5 DEF HeldWithinBudget, MapTypeOK
<1>7. FetchedOnce' /\ LoadsLast'
  BY <1>2, <1>4 DEF FetchedOnce, LoadsLast
<1>8. SeenCounted' /\ BatchIsNew'
  BY <1>0, <1>4 DEF SeenCounted, BatchIsNew, MapIInv
<1> QED
  BY <1>0, <1>6, <1>7, <1>8 DEF MapIInv

\* One candidate is taken from the queue, and skipped if it was seen before.
LEMMA FillOneKeeps ==
  ASSUME MapIInv, FillOne
  PROVE  MapIInv'
<1> DEFINE u == Head(toParse)
<1>0. /\ MapTypeOK /\ phase = "fill" /\ phase' = "fill" /\ toParse # << >> /\ toParse' = Tail(toParse)
      /\ Len(batch) < Concurrency /\ fetched + Len(batch) < MaxSitemaps
      /\ UNCHANGED <<phase, fetched, found, gets, remaining, crowded>>
  BY DEF FillOne, Filling, RoomInBatch, Rest, MapIInv, HeldWithinBudget
<1>1. u \in Url /\ Tail(toParse) \in Seq(Url)
  BY <1>0, HeadTailProperties DEF MapTypeOK
<1>2. Loading = {} /\ Maps' = Maps
  BY <1>0, NothingLoads DEF Maps
<1>3. CASE u \in OnSite \ seen /\ seen' = seen \cup {u} /\ batch' = Append(batch, u)
  <2>1. /\ batch' \in Seq(Url) /\ Len(batch') = Len(batch) + 1 /\ Range(batch') = Range(batch) \cup {u}
        /\ (u \notin Range(batch) => IsInjective(batch'))
    BY <1>0, <1>1, <1>3, AppendProperties, AppendRange DEF MapTypeOK, MapIInv, BatchIsNew
  <2>2. u \notin Range(batch) /\ \A i \in Maps : gets[i].url # u
    BY <1>3 DEF MapIInv, BatchIsNew, FetchedOnce
  <2>3. BatchIsNew'
    BY <1>0, <1>2, <1>3, <2>1, <2>2 DEF BatchIsNew, MapIInv
  <2>4. SeenCounted'
    <3>1. IsFiniteSet(seen') /\ Cardinality(seen') = Cardinality(seen) + 1
      BY <1>3, FS_AddElement DEF MapIInv, SeenCounted
    <3>2. Len(batch) \in Nat /\ fetched \in Nat /\ {MaxSitemaps, Concurrency} \subseteq Nat
      BY <1>0, SiteFacts, LenProperties DEF MapTypeOK
    <3> QED
      BY <1>0, <2>1, <3>1, <3>2 DEF MapIInv, SeenCounted
  <2>5. MapTypeOK'
    BY <1>0, <1>1, <1>3, <2>1 DEF MapTypeOK
  <2> QED
    BY <1>0, <1>2, <1>3, <2>3, <2>4, <2>5, GetsStay
<1>4. CASE UNCHANGED <<seen, batch>>
  <2>1. MapTypeOK' /\ SeenCounted' /\ BatchIsNew'
    BY <1>0, <1>1, <1>2, <1>4 DEF MapTypeOK, SeenCounted, BatchIsNew, MapIInv
  <2> QED
    BY <1>0, <1>2, <1>4, <2>1, GetsStay
<1> QED
  BY <1>3, <1>4 DEF FillOne

\* The batch is fetched.
LEMMA BatchLoads ==
  ASSUME MapIInv, StartBatch
  PROVE  LET n == Len(gets)
             b == Len(batch)
         IN /\ gets' \in Gets /\ Len(gets') = n + b /\ DOMAIN gets' = 1 .. n + b
            /\ \A i \in 1 .. n : gets'[i] = gets[i]
            /\ \A i \in 1 .. n + b : i > n => gets'[i] = Get(batch[i - n]) /\ i - n \in 1 .. b
<1> DEFINE news == [i \in DOMAIN batch |-> Get(batch[i])]
           n == Len(gets)
           b == Len(batch)
<1>0. /\ MapTypeOK /\ phase = "fill" /\ phase' = "batch" /\ gets' = gets \o news
      /\ UNCHANGED <<toParse, seen, batch, fetched, found, remaining, crowded>>
  BY DEF StartBatch, MapIInv, HeldWithinBudget
<1>1. /\ n \in Nat /\ b \in Nat /\ DOMAIN gets = 1 .. n /\ DOMAIN batch = 1 .. b
      /\ \A i \in 1 .. b : batch[i] \in Url
  BY <1>0, GetsTyped, LenProperties, ElementOfSeq DEF MapTypeOK
<1>2. news \in Gets /\ Len(news) = b
  <2>1. \A i \in 1 .. b : Get(batch[i]) \in [url : Url, stage : Stage, got : Nat]
    BY <1>1 DEF Get, Stage
  <2> DEFINE S == [url : Url, stage : Stage, got : Nat]
  <2>2. news \in [1 .. b -> S]
    BY <1>1, <2>1
  <2>3. news \in Gets /\ DOMAIN news = 1 .. b
    <3> HIDE DEF news, b, S
    <3>1. news \in Seq(S) /\ DOMAIN news = 1 .. b
      BY <1>1, <2>2, SeqDef
    <3> QED
      BY <3>1 DEF Gets, S
  <2> HIDE DEF news, b
  <2> QED
    BY <1>1, <2>3, LenProperties DEF Gets
<1>3. \A i \in 1 .. b : news[i] = Get(batch[i])
  BY <1>1
<1> HIDE DEF news
<1>4. /\ gets' \in Gets /\ Len(gets') = n + b /\ DOMAIN gets' = 1 .. n + b
      /\ \A i \in 1 .. n : gets'[i] = gets[i]
      /\ \A i \in 1 .. n + b : i > n => gets'[i] = news[i - n] /\ i - n \in 1 .. b
  <2> DEFINE S == [url : Url, stage : Stage, got : Nat]
  <2>1. gets \in Seq(S) /\ news \in Seq(S)
    BY <1>0, <1>2, GetsTyped DEF Gets
  <2>2. /\ gets' \in Gets /\ Len(gets') = n + b
        /\ \A i \in 1 .. n + b : gets'[i] = IF i <= n THEN gets[i] ELSE news[i - n]
    <3> HIDE DEF S
    <3>1. /\ gets \o news \in Seq(S) /\ Len(gets \o news) = Len(gets) + Len(news)
          /\ \A i \in 1 .. Len(gets) + Len(news) :
               (gets \o news)[i] = IF i <= Len(gets) THEN gets[i] ELSE news[i - Len(gets)]
      BY <2>1, ConcatProperties
    <3> QED
      BY <1>0, <1>2, <3>1 DEF Gets, S
  <2>3. DOMAIN gets' = 1 .. n + b
    BY <2>2, LenProperties DEF Gets
  <2> HIDE DEF n, b
  <2> QED
    BY <1>1, <2>2, <2>3
<1> QED
  BY <1>3, <1>4

LEMMA StartBatchKeeps ==
  ASSUME MapIInv, StartBatch
  PROVE  MapIInv'
<1> DEFINE n == Len(gets)
           b == Len(batch)
<1>0. /\ MapTypeOK /\ phase = "fill" /\ phase' = "batch"
      /\ UNCHANGED <<toParse, seen, batch, fetched, found, remaining, crowded>>
  BY DEF StartBatch, MapIInv, HeldWithinBudget
<1>1. /\ n \in Nat /\ b \in Nat /\ DOMAIN gets = 1 .. n /\ DOMAIN batch = 1 .. b
      /\ \A i \in 1 .. b : batch[i] \in Url
  BY <1>0, GetsTyped, LenProperties, ElementOfSeq DEF MapTypeOK
<1> DEFINE news == [i \in 1 .. b |-> Get(batch[i])]
<1>3. \A i \in 1 .. b : news[i].url = batch[i] /\ news[i].stage = "loading" /\ news[i].got = 0
  BY DEF Get
<1>4. /\ gets' \in Gets /\ Len(gets') = n + b /\ DOMAIN gets' = 1 .. n + b
      /\ \A i \in 1 .. n : gets'[i] = gets[i]
      /\ \A i \in 1 .. n + b : i > n => gets'[i] = news[i - n] /\ i - n \in 1 .. b
  BY BatchLoads
<1> HIDE DEF news
<1>5. MapTypeOK'
  BY <1>0, <1>4 DEF MapTypeOK, Gets, Stage
<1>6. Held' = Held
  <2> DEFINE f == [i \in 1 .. n |-> gets[i].got]
             g == [i \in 1 .. n + b |-> gets'[i].got]
  <2>1. /\ 1 .. n \in SUBSET (1 .. n + b) /\ IsFiniteSet(1 .. n + b) /\ IsFiniteSet(1 .. n)
        /\ \A i \in (1 .. n + b) \ (1 .. n) : i > n
    <3> HIDE DEF n, b
    <3>1. n + b \in Int /\ n \in Int /\ n <= n + b
      BY <1>1
    <3>2. \A i \in 1 .. n : i \in 1 .. n + b
      BY <1>1
    <3> QED
      BY <1>1, <3>1, <3>2, FS_Interval
  <2>2. \A i \in (1 .. n + b) \ (1 .. n) : g[i] = 0
    BY <1>3, <1>4, <2>1
  <2>3. \A i \in 1 .. n : g[i] = f[i] /\ f[i] \in Nat
    BY <1>0, <1>1, <1>4, GetsTyped
  <2>4. Held = SumFunctionOnSet(f, 1 .. n) /\ Held' = SumFunctionOnSet(g, 1 .. n + b)
    BY <1>1, <1>4 DEF Held
  <2> HIDE DEF f, g, n, b
  <2>5. \A i \in 1 .. n + b : g[i] \in Int
    BY <2>2, <2>3
  <2>6. SumFunctionOnSet(g, 1 .. n + b) = SumFunctionOnSet(g, 1 .. n)
    BY <2>1, <2>2, <2>5, SumExtend
  <2>7. SumFunctionOnSet(g, 1 .. n) = SumFunctionOnSet(f, 1 .. n)
    <3>1. \A i \in 1 .. n : g[i] = f[i]
      BY <2>3
    <3> QED
      BY <2>1, <3>1, SumSame
  <2> QED
    BY <2>4, <2>6, <2>7
<1>7. HeldWithinBudget'
  BY <1>0, <1>5, <1>6 DEF HeldWithinBudget, MapIInv
<1>8. ASSUME NEW i \in Maps'
      PROVE  \/ i \in Maps /\ gets'[i].url = gets[i].url /\ i <= n
             \/ i > n /\ i - n \in 1 .. b /\ gets'[i].url = batch[i - n] /\ batch[i - n] \in Range(batch)
  <2>1. i \in 1 .. n + b /\ gets'[i].url \notin {Robots, Home}
    BY <1>4 DEF Maps
  <2>2. CASE i <= n
    <3>1. i \in 1 .. n
      BY <1>1, <2>1, <2>2
    <3> QED
      BY <1>1, <1>4, <2>1, <2>2, <3>1 DEF Maps
  <2>3. CASE i > n
    <3>1. i - n \in 1 .. b /\ gets'[i].url = batch[i - n]
      BY <1>3, <1>4, <2>1, <2>3
    <3> QED
      BY <1>1, <2>3, <3>1 DEF Range
  <2> QED
    BY <1>1, <2>1, <2>2, <2>3
<1>9. FetchedOnce'
  <2>1. \A i \in Maps' : gets'[i].url \in OnSite \cap seen
    BY <1>8 DEF MapIInv, FetchedOnce, BatchIsNew
  <2>2. ASSUME NEW i \in Maps', NEW j \in Maps', gets'[i].url = gets'[j].url
        PROVE  i = j
    <3>1. \A x \in Maps, y \in 1 .. b : gets[x].url # batch[y]
      BY <1>0, <1>1 DEF MapIInv, BatchIsNew, Range
    <3>2. \A x, y \in 1 .. b : batch[x] = batch[y] => x = y
      BY <1>1 DEF MapIInv, BatchIsNew, IsInjective
    <3>3. \A x, y \in Maps : gets[x].url = gets[y].url => x = y
      BY DEF MapIInv, FetchedOnce
    <3>4. n \in Nat /\ b \in Nat /\ i \in 1 .. n + b /\ j \in 1 .. n + b
      BY <1>1, <1>4 DEF Maps
    <3> HIDE DEF n, b
    <3>5. CASE i <= n /\ j <= n
      <4>1. i \in Maps /\ gets'[i].url = gets[i].url /\ j \in Maps /\ gets'[j].url = gets[j].url
        BY <1>8, <3>4, <3>5
      <4> QED
        BY <2>2, <3>3, <4>1
    <3>6. CASE i > n /\ j > n
      <4>1. i - n \in 1 .. b /\ gets'[i].url = batch[i - n] /\ j - n \in 1 .. b /\ gets'[j].url = batch[j - n]
        BY <1>8, <3>4, <3>6
      <4>2. i - n = j - n
        BY <2>2, <3>2, <4>1
      <4> QED
        BY <3>4, <4>2
    <3>7. CASE i <= n /\ j > n
      <4>1. i \in Maps /\ gets'[i].url = gets[i].url /\ j - n \in 1 .. b /\ gets'[j].url = batch[j - n]
        BY <1>8, <3>4, <3>7
      <4> QED
        BY <2>2, <3>1, <4>1
    <3>8. CASE i > n /\ j <= n
      <4>1. j \in Maps /\ gets'[j].url = gets[j].url /\ i - n \in 1 .. b /\ gets'[i].url = batch[i - n]
        BY <1>8, <3>4, <3>8
      <4> QED
        BY <2>2, <3>1, <4>1
    <3> QED
      BY <3>4, <3>5, <3>6, <3>7, <3>8
  <2> QED
    BY <1>0, <2>1, <2>2 DEF FetchedOnce
<1>10. LoadsLast'
  <2>1. Width' = b /\ Loading = {}
    BY <1>0, NothingLoads DEF Width
  <2>2. \A i \in Loading' : i \in 1 .. n + b /\ ~(i <= n)
    BY <1>1, <1>4, <2>1 DEF Loading
  <2>3. Len(gets') - Width' = n
    BY <1>1, <1>4, <2>1
  <2> QED
    BY <1>1, <2>2, <2>3 DEF LoadsLast
<1>11. SeenCounted' /\ BatchIsNew'
  BY <1>0 DEF SeenCounted, BatchIsNew, MapIInv
<1> QED
  BY <1>0, <1>7, <1>9, <1>10, <1>11 DEF MapIInv

\* What is fetched was read, and the next batch begins.
LEMMA ReadKeeps ==
  ASSUME MapIInv, ReadRobots \/ ReadBatch \/ ReadHome
  PROVE  MapIInv'
<1>0. /\ MapTypeOK /\ Loading = {} /\ phase' # "idle" /\ UNCHANGED <<gets, remaining, seen>>
      /\ Maps' = Maps
  BY DEF ReadRobots, ReadBatch, ReadHome, Answered, MapIInv, HeldWithinBudget, Maps
<1>1. CASE ReadRobots
  <2>1. /\ batch = << >> /\ batch' = << >> /\ UNCHANGED <<fetched, found, crowded>>
        /\ toParse' \in {Site[Robots].locs, <<Default>>} /\ phase' = "fill"
    BY <1>1 DEF ReadRobots, MapIInv, BatchIsNew
  <2>2. Site[Robots].locs \in Seq(Url) /\ <<Default>> \in Seq(Url)
    BY SiteFacts
  <2>3. MapTypeOK'
    BY <1>0, <2>1, <2>2 DEF MapTypeOK
  <2>4. Range(<< >>) = {}
    BY DEF Range
  <2>5. SeenCounted' /\ BatchIsNew'
    BY <1>0, <2>1, <2>4 DEF SeenCounted, BatchIsNew, MapIInv
  <2> QED
    BY <1>0, <2>3, <2>5, GetsStay
<1>2. CASE ReadBatch
  <2> DEFINE start == [queue |-> toParse, found |-> found, crowded |-> crowded]
             acc == FoldLeft(ReadDocument, start, InOrder(batch))
  <2>1. acc \in Lists
    <3>1. start \in Lists /\ batch \in Seq(Url)
      BY <1>0 DEF MapTypeOK, Lists
    <3> HIDE DEF start
    <3> QED
      BY <3>1, ReadBatchTyped
  <2>2. /\ toParse' = acc.queue /\ found' = acc.found /\ crowded' = acc.crowded
        /\ fetched' = fetched + Len(batch) /\ batch' = << >> /\ phase' \in {"fill", "full"}
    BY <1>2 DEF ReadBatch
  <2> HIDE DEF acc
  <2>3. acc.queue \in Seq(Url) /\ acc.found \in Seq(Url) /\ acc.crowded \in BOOLEAN
    BY <2>1 DEF Lists
  <2>4. Len(batch) \in Nat /\ << >> \in Seq(Url) /\ Len(<< >>) = 0 /\ Range(<< >>) = {} /\ IsInjective(<< >>)
    BY <1>0, LenProperties, EmptySeq DEF MapTypeOK, Range, IsInjective
  <2>5. MapTypeOK'
    BY <1>0, <2>2, <2>3, <2>4 DEF MapTypeOK
  <2>6. SeenCounted'
    BY <1>0, <2>2, <2>4, SiteFacts DEF SeenCounted, MapIInv, MapTypeOK
  <2>7. BatchIsNew'
    BY <2>2, <2>4 DEF BatchIsNew
  <2> QED
    BY <1>0, <2>5, <2>6, <2>7, GetsStay
<1>3. CASE ReadHome
  <2> DEFINE homeward == FoldLeft(LAMBDA f, u : IF Len(f) >= PageLimit THEN f ELSE Added(f, u), found, Site[Home].locs)
  <2>1. homeward \in Seq(Url) /\ found \in Seq(Url)
    BY <1>0, ReadHomeTyped DEF MapTypeOK, WithHome
  <2>2. /\ batch = << >> /\ batch' = << >> /\ UNCHANGED <<toParse, fetched, crowded>>
        /\ found' \in {found, homeward} /\ phase' = "done"
    BY <1>3 DEF ReadHome, MapIInv, BatchIsNew
  <2> HIDE DEF homeward
  <2>3. MapTypeOK'
    BY <1>0, <2>1, <2>2 DEF MapTypeOK
  <2>4. Range(<< >>) = {}
    BY DEF Range
  <2>5. SeenCounted' /\ BatchIsNew'
    BY <1>0, <2>2, <2>4 DEF SeenCounted, BatchIsNew, MapIInv
  <2> QED
    BY <1>0, <2>3, <2>5, GetsStay
<1> QED
  BY <1>1, <1>2, <1>3

\* Between the awaits the call only goes on, or ends.
LEMMA GoesOn ==
  ASSUME MapIInv, MapRefused \/ NothingToFetch \/ Full
  PROVE  MapIInv'
<1>0. /\ MapTypeOK /\ phase' \in {"full", "done"} /\ batch = << >>
      /\ UNCHANGED <<toParse, seen, batch, fetched, found, gets, remaining, crowded>>
  BY DEF MapRefused, NothingToFetch, Full, MapIInv, HeldWithinBudget, BatchIsNew
<1>1. Loading = {}
  BY NothingLoads DEF MapRefused, NothingToFetch, Full
<1>2. MapTypeOK' /\ SeenCounted' /\ BatchIsNew'
  BY <1>0 DEF MapTypeOK, SeenCounted, BatchIsNew, MapIInv
<1> QED
  BY <1>0, <1>1, <1>2, GetsStay

\* The home page is fetched.
LEMMA HomeLoads ==
  ASSUME MapIInv, StartHome
  PROVE  /\ gets' \in Gets /\ Len(gets') = Len(gets) + 1 /\ DOMAIN gets' = 1 .. Len(gets) + 1
         /\ gets'[Len(gets) + 1] = Get(Home) /\ \A i \in 1 .. Len(gets) : gets'[i] = gets[i]
<1> DEFINE n == Len(gets)
<1>0. /\ MapTypeOK /\ phase = "full" /\ phase' = "home" /\ batch = << >> /\ gets' = Append(gets, Get(Home))
      /\ UNCHANGED <<toParse, seen, batch, fetched, found, remaining, crowded>>
  BY DEF StartHome, MapIInv, HeldWithinBudget, BatchIsNew
<1>1. Get(Home) \in [url : Url, stage : Stage, got : Nat] /\ Get(Home).url = Home /\ Get(Home).got = 0
  BY SiteFacts DEF Get, Stage
<1>2. n \in Nat /\ DOMAIN gets = 1 .. n /\ gets \in Gets /\ Loading = {}
  BY <1>0, GetsTyped, NothingLoads
<1>3. /\ gets' \in Gets /\ Len(gets') = n + 1 /\ DOMAIN gets' = 1 .. n + 1
      /\ gets'[n + 1] = Get(Home) /\ \A i \in 1 .. n : gets'[i] = gets[i]
  <2> DEFINE S == [url : Url, stage : Stage, got : Nat]
  <2>1. gets \in Seq(S) /\ Get(Home) \in S
    BY <1>1, <1>2 DEF Gets
  <2> HIDE DEF S
  <2>2. /\ gets' \in Seq(S) /\ Len(gets') = n + 1
        /\ gets'[n + 1] = Get(Home) /\ \A i \in 1 .. n : gets'[i] = gets[i]
    BY <1>0, <2>1, AppendProperties
  <2>3. DOMAIN gets' = 1 .. n + 1
    BY <2>2, LenProperties
  <2> QED
    BY <2>2, <2>3 DEF Gets, S
<1> QED
  BY <1>3

LEMMA StartHomeKeeps ==
  ASSUME MapIInv, StartHome
  PROVE  MapIInv'
<1> DEFINE n == Len(gets)
<1>0. /\ MapTypeOK /\ phase = "full" /\ phase' = "home" /\ batch = << >> /\ gets' = Append(gets, Get(Home))
      /\ UNCHANGED <<toParse, seen, batch, fetched, found, remaining, crowded>>
  BY DEF StartHome, MapIInv, HeldWithinBudget, BatchIsNew
<1>1. Get(Home) \in [url : Url, stage : Stage, got : Nat] /\ Get(Home).url = Home /\ Get(Home).got = 0
  BY SiteFacts DEF Get, Stage
<1>2. n \in Nat /\ DOMAIN gets = 1 .. n /\ gets \in Gets /\ Loading = {}
  BY <1>0, GetsTyped, NothingLoads
<1>3. /\ gets' \in Gets /\ Len(gets') = n + 1 /\ DOMAIN gets' = 1 .. n + 1
      /\ gets'[n + 1] = Get(Home) /\ \A i \in 1 .. n : gets'[i] = gets[i]
  BY HomeLoads
<1>4. MapTypeOK'
  BY <1>0, <1>3 DEF MapTypeOK, Gets, Stage
<1> HIDE DEF n
<1>5. /\ 1 .. n \in SUBSET (1 .. n + 1) /\ IsFiniteSet(1 .. n + 1) /\ IsFiniteSet(1 .. n)
      /\ \A i \in 1 .. n + 1 : i \in 1 .. n \/ i = n + 1
  <2>1. /\ \A i \in 1 .. n : i \in 1 .. n + 1
        /\ \A i \in 1 .. n + 1 : i \in 1 .. n \/ i = n + 1
        /\ n + 1 \in Int /\ n \in Int
    BY <1>2
  <2> QED
    BY <2>1, FS_Interval
<1>6. Held' = Held
  <2> DEFINE f == [i \in 1 .. n |-> gets[i].got]
             g == [i \in 1 .. n + 1 |-> gets'[i].got]
  <2>1. \A i \in (1 .. n + 1) \ (1 .. n) : g[i] = 0
    BY <1>1, <1>3, <1>5
  <2>2. \A i \in 1 .. n : g[i] = f[i] /\ f[i] \in Nat
    BY <1>0, <1>2, <1>3, <1>5, GetsTyped
  <2>3. Held = SumFunctionOnSet(f, 1 .. n) /\ Held' = SumFunctionOnSet(g, 1 .. n + 1)
    BY <1>2, <1>3 DEF Held
  <2> HIDE DEF f, g
  <2>4. \A i \in 1 .. n + 1 : g[i] \in Int
    BY <2>1, <2>2
  <2>5. SumFunctionOnSet(g, 1 .. n + 1) = SumFunctionOnSet(g, 1 .. n)
    BY <1>5, <2>1, <2>4, SumExtend
  <2>6. SumFunctionOnSet(g, 1 .. n) = SumFunctionOnSet(f, 1 .. n)
    <3>1. \A i \in 1 .. n : g[i] = f[i]
      BY <2>2
    <3> QED
      BY <1>5, <3>1, SumSame
  <2> QED
    BY <2>3, <2>5, <2>6
<1>7. HeldWithinBudget'
  BY <1>0, <1>4, <1>6 DEF HeldWithinBudget, MapIInv
<1>8. Maps' = Maps /\ \A i \in Maps : gets'[i] = gets[i]
  <2>1. n + 1 \notin Maps'
    BY <1>1, <1>3 DEF Maps
  <2>2. \A i \in 1 .. n : i \in 1 .. n + 1 /\ (i \in Maps' <=> i \in Maps)
    BY <1>2, <1>3, <1>5 DEF Maps
  <2>3. Maps \subseteq 1 .. n /\ Maps' \subseteq 1 .. n + 1
    BY <1>2, <1>3 DEF Maps
  <2> QED
    BY <1>3, <1>5, <2>1, <2>2, <2>3
<1>9. FetchedOnce' /\ SeenCounted' /\ BatchIsNew'
  <2>1. \A i \in Maps : gets'[i].url = gets[i].url
    BY <1>8
  <2>2. FetchedOnce
    BY DEF MapIInv
  <2>3. FetchedOnce'
    <3>1. \A i \in Maps' : gets'[i].url \in OnSite \cap seen'
      BY <1>0, <1>8, <2>1, <2>2 DEF FetchedOnce
    <3>2. \A i, j \in Maps' : gets'[i].url = gets'[j].url => i = j
      BY <1>8, <2>1, <2>2 DEF FetchedOnce
    <3> QED
      BY <3>1, <3>2 DEF FetchedOnce
  <2>4. SeenCounted'
    BY <1>0 DEF SeenCounted, MapIInv
  <2>5. BatchIsNew'
    BY <1>0 DEF BatchIsNew, MapIInv
  <2> QED
    BY <2>3, <2>4, <2>5
<1>10. LoadsLast'
  <2>1. Width' = 1
    BY <1>0 DEF Width
  <2>2. \A i \in Loading' : i = n + 1
    BY <1>2, <1>3, <1>5 DEF Loading
  <2> QED
    BY <1>2, <1>3, <2>1, <2>2 DEF LoadsLast
<1> QED
  BY <1>0, <1>7, <1>9, <1>10 DEF MapIInv

\* The deadline cancels what loads, and what it held is given back.
LEMMA DeadlineKeeps ==
  ASSUME MapIInv, Deadline
  PROVE  MapIInv'
<1> DEFINE cut == [i \in DOMAIN gets |-> IF i \in Loading THEN [gets[i] EXCEPT !.stage = "failed", !.got = 0] ELSE gets[i]]
<1>0. /\ MapTypeOK /\ phase' = "late" /\ found' = << >> /\ gets' = cut
      /\ UNCHANGED <<toParse, seen, batch, fetched, remaining, crowded>>
  BY DEF Deadline, MapIInv, HeldWithinBudget
<1>1. Len(gets) \in Nat /\ DOMAIN gets = 1 .. Len(gets) /\ << >> \in Seq(Url)
  BY <1>0, GetsTyped, EmptySeq
<1>2. ASSUME NEW i \in DOMAIN gets
      PROVE  /\ cut[i] \in [url : Url, stage : Stage, got : Nat] /\ cut[i].url = gets[i].url
             /\ cut[i].stage # "loading" /\ cut[i].got <= gets[i].got
             /\ cut[i].got \in Nat /\ gets[i].got \in Nat
  <2>1. gets[i] \in [url : Url, stage : Stage, got : Nat]
    BY <1>0, GetsTyped, ElementOfSeq DEF Gets
  <2>2. PICK a \in Url, b \in Stage, c \in Nat : gets[i] = [url |-> a, stage |-> b, got |-> c]
    BY <2>1
  <2>3. gets[i].url = a /\ gets[i].stage = b /\ gets[i].got = c
    BY <2>2
  <2>4. "failed" \in Stage /\ 0 \in Nat /\ 0 <= c /\ c <= c
    BY <2>2 DEF Stage
  <2>5. CASE i \in Loading
    <3>1. cut[i] = [gets[i] EXCEPT !.stage = "failed", !.got = 0]
      BY <2>5
    <3> HIDE DEF cut
    <3>2. cut[i] = [url |-> a, stage |-> "failed", got |-> 0]
      <4>1. [[url |-> a, stage |-> b, got |-> c] EXCEPT !.stage = "failed", !.got = 0]
              = [url |-> a, stage |-> "failed", got |-> 0]
        <5> DEFINE x == [[url |-> a, stage |-> b, got |-> c] EXCEPT !.stage = "failed"]
        <5>1. x = [url |-> a, stage |-> "failed", got |-> c]
          OBVIOUS
        <5>2. [x EXCEPT !.got = 0] = [url |-> a, stage |-> "failed", got |-> 0]
          <6> HIDE DEF x
          <6>1. [[url |-> a, stage |-> "failed", got |-> c] EXCEPT !.got = 0] = [url |-> a, stage |-> "failed", got |-> 0]
            OBVIOUS
          <6> QED
            BY <5>1, <6>1
        <5> QED
          BY <5>2
      <4> QED
        BY <2>2, <3>1, <4>1
    <3>3. cut[i].url = a /\ cut[i].stage = "failed" /\ cut[i].got = 0
      BY <3>2
    <3>4. cut[i] \in [url : Url, stage : Stage, got : Nat]
      BY <2>4, <3>2
    <3> QED
      BY <2>2, <2>3, <2>4, <3>3, <3>4
  <2>6. CASE i \notin Loading
    <3>1. cut[i] = gets[i]
      BY <2>6
    <3> HIDE DEF cut
    <3>2. b # "loading"
      BY <2>3, <2>6 DEF Loading
    <3> QED
      BY <2>1, <2>3, <2>4, <3>1, <3>2
  <2> QED
    BY <2>5, <2>6
<1>3. gets' \in Gets /\ Len(gets') = Len(gets) /\ DOMAIN gets' = DOMAIN gets
  <2> DEFINE S == [url : Url, stage : Stage, got : Nat]
  <2>1. cut \in [1 .. Len(gets) -> S]
    BY <1>1, <1>2
  <2> HIDE DEF cut, S
  <2>2. gets' \in Seq(S) /\ DOMAIN gets' = 1 .. Len(gets)
    BY <1>0, <1>1, <2>1, SeqDef
  <2>3. Len(gets') = Len(gets)
    BY <1>1, <2>2, LenProperties
  <2> QED
    BY <1>1, <2>2, <2>3 DEF Gets, S
<1>4. \A i \in DOMAIN gets : /\ gets'[i].url = gets[i].url /\ gets'[i].stage # "loading"
                             /\ gets'[i].got <= gets[i].got /\ gets'[i].got \in Nat /\ gets[i].got \in Nat
  BY <1>0, <1>2
<1> HIDE DEF cut
<1>5. MapTypeOK'
  BY <1>0, <1>1, <1>3 DEF MapTypeOK, Gets, Stage
<1>6. Held' <= Held
  <2> DEFINE f == [i \in DOMAIN gets |-> gets[i].got]
             g == [i \in DOMAIN gets |-> gets'[i].got]
  <2>1. Held = SumFunctionOnSet(f, DOMAIN gets) /\ Held' = SumFunctionOnSet(g, DOMAIN gets)
    BY <1>3 DEF Held
  <2>2. \A i \in DOMAIN gets : g[i] \in Int /\ f[i] \in Int /\ g[i] <= f[i]
    BY <1>4
  <2>3. IsFiniteSet(DOMAIN gets)
    BY <1>0, GetsTyped
  <2> HIDE DEF f, g
  <2> QED
    BY <2>1, <2>2, <2>3, SumMonotone
<1>7. HeldWithinBudget'
  <2>1. Held \in Nat /\ Held' \in Nat /\ remaining \in Nat /\ MaxBytes \in Nat /\ Held + remaining <= MaxBytes
    <3>1. Held' \in Nat
      <4> DEFINE g == [i \in DOMAIN gets |-> gets'[i].got]
      <4>1. Held' = SumFunctionOnSet(g, DOMAIN gets)
        BY <1>3 DEF Held
      <4>2. \A i \in DOMAIN gets : g[i] \in Nat
        BY <1>4
      <4>3. IsFiniteSet(DOMAIN gets)
        BY <1>0, GetsTyped
      <4> HIDE DEF g
      <4> QED
        BY <4>1, <4>2, <4>3, SumBounds
    <3> QED
      BY <1>0, <3>1, GetsTyped DEF MapIInv, HeldWithinBudget
  <2>2. Held' + remaining <= MaxBytes
    <3>1. \A x, y, r, m \in Nat : x <= y /\ y + r <= m => x + r <= m
      OBVIOUS
    <3> QED
      BY <1>6, <2>1, <3>1
  <2> QED
    BY <1>0, <1>5, <2>2 DEF HeldWithinBudget
<1>8. Maps' = Maps /\ Loading' = {}
  BY <1>3, <1>4 DEF Maps, Loading
<1>9. FetchedOnce' /\ LoadsLast' /\ SeenCounted' /\ BatchIsNew'
  <2>1. FetchedOnce'
    BY <1>0, <1>4, <1>8 DEF FetchedOnce, MapIInv, Maps
  <2>2. LoadsLast'
    BY <1>8 DEF LoadsLast
  <2>3. SeenCounted' /\ BatchIsNew'
    BY <1>0 DEF SeenCounted, BatchIsNew, MapIInv
  <2> QED
    BY <2>1, <2>2, <2>3
<1> QED
  BY <1>0, <1>7, <1>9 DEF MapIInv

LEMMA MapStep == MapIInv /\ [MapNext]_mapVars => MapIInv'
<1> SUFFICES ASSUME MapIInv, [MapNext]_mapVars
             PROVE  MapIInv'
  OBVIOUS
<1>1. CASE UNCHANGED mapVars
  <2>1. Held' = Held /\ Maps' = Maps /\ Loading' = Loading /\ Width' = Width
    BY <1>1 DEF mapVars, Held, Maps, Loading, Width
  <2> QED
    BY <1>1, <2>1 DEF mapVars, MapIInv, HeldWithinBudget, MapTypeOK, SeenCounted, FetchedOnce, BatchIsNew, LoadsLast
<1>2. CASE Owner
  BY <1>2, ReadKeeps, FillOneKeeps, StartBatchKeeps, GoesOn, StartHomeKeeps DEF Owner
<1> QED
  BY <1>1, <1>2, MapCalledKeeps, GoesOn, DeadlineKeeps, DocumentsKeep DEF MapNext

\* Whatever a site answers, a call holds no more than its budget, and fetches no
\* sitemap twice, none off the site, and no more of them than it may.
THEOREM MapsAreBounded == MapSpec => []MapBounded
BY MapStart, MapStep, MapImplies, PTL DEF MapSpec

(***************************************************************************)
(* The order in which the list grows                                       *)
(***************************************************************************)

(* A list that goes on *)

\* k[i] is the list after the first i mentions.
ExtendedBy(list, mentions, members, k) ==
  /\ k \in [0 .. Len(mentions) -> Seq(Url)]
  /\ k[0] = list
  /\ \A i \in 1 .. Len(mentions) : k[i] = Noted(k[i - 1], mentions[i], members)

LEMMA NotedTyped ==
  ASSUME NEW list \in Seq(Url), NEW u \in Url, NEW members
  PROVE  /\ Noted(list, u, members) \in Seq(Url)
         /\ Len(list) \in Nat /\ Len(Noted(list, u, members)) \in {Len(list), Len(list) + 1}
         /\ \A i \in 1 .. Len(list) : Noted(list, u, members)[i] = list[i]
         /\ IsInjective(list) => IsInjective(Noted(list, u, members))
<1>1. Append(list, u) \in Seq(Url) /\ Len(Append(list, u)) = Len(list) + 1 /\ Len(list) \in Nat
      /\ \A i \in 1 .. Len(list) : Append(list, u)[i] = list[i]
  BY AppendProperties, LenProperties
<1>2. IsInjective(list) /\ u \notin Range(list) => IsInjective(Append(list, u))
  BY AppendRange
<1>3. CASE u \in members \ Range(list)
  BY <1>1, <1>2, <1>3 DEF Noted
<1>4. CASE u \notin members \ Range(list)
  BY <1>1, <1>4 DEF Noted
<1> QED
  BY <1>3, <1>4

\* Extended, a fold, takes these steps one by one.
LEMMA ExtendedRuns ==
  ASSUME NEW list \in Seq(Url), NEW mentions \in Seq(Url), NEW members
  PROVE  \E k : /\ ExtendedBy(list, mentions, members, k)
                /\ Extended(list, mentions, members) = k[Len(mentions)]
<1> DEFINE n == Len(mentions)
           A == Seq(Url)
           next(a, s) == IF s = {} THEN list ELSE Noted(a[s \ {Max(s)}], mentions[Max(s)], members)
           solves(a) == a = [s \in SUBSET DOMAIN mentions |-> next(a, s)]
           g == CHOOSE a : solves(a)
           F == [q \in A \X (1 .. n) |-> Noted(q[1], mentions[q[2]], members)]
<1>1. Extended(list, mentions, members) = g[DOMAIN mentions]
  BY DEF Extended, FoldLeft, MapThenFoldSet
<1>2. n \in Nat /\ DOMAIN mentions = 1 .. n /\ list \in A /\ \A i \in 1 .. n : mentions[i] \in Url
  BY LenProperties, ElementOfSeq
<1> HIDE DEF n
<1>3. \A a \in A, i \in 1 .. n : Noted(a, mentions[i], members) \in A
  BY <1>2, NotedTyped
<1> HIDE DEF A
<1>4. /\ F \in [A \X (1 .. n) -> A]
      /\ \A a \in A, i \in 1 .. n : F[<<a, i>>] = Noted(a, mentions[i], members)
  BY <1>3
<1> HIDE DEF F
<1>5. PICK h : FoldsWith(A, n, F, list, h)
  BY <1>2, <1>4, FoldExists
<1>6. \A s \in SUBSET (1 .. n) : s # {} => Max(s) \in 1 .. n
  BY <1>2, GreatestOf
<1>7. solves(h)
  <2>1. \A s \in SUBSET (1 .. n) : h[s] = next(h, s)
    BY <1>4, <1>5, <1>6 DEF FoldsWith
  <2>2. h = [s \in SUBSET (1 .. n) |-> h[s]]
    BY <1>5 DEF FoldsWith
  <2> HIDE DEF next
  <2> QED
    BY <1>2, <2>1, <2>2
<1>8. solves(g)
  <2> HIDE DEF solves
  <2> QED
    BY <1>7
<1>9. \A s \in SUBSET (1 .. n) : g[s] = next(g, s)
  <2> HIDE DEF next, g
  <2> QED
    BY <1>2, <1>8
<1> HIDE DEF g
<1>10. FoldsBy(A, n, F, list, g)
  <2>1. g[{}] = list
    BY <1>9
  <2>2. ASSUME NEW s \in SUBSET (1 .. n), s # {}, g[s \ {Max(s)}] \in A
        PROVE  g[s] = F[<<g[s \ {Max(s)}], Max(s)>>]
    <3>1. g[s] = Noted(g[s \ {Max(s)}], mentions[Max(s)], members)
      BY <1>9, <2>2
    <3> QED
      BY <1>4, <1>6, <2>2, <3>1
  <2> QED
    BY <2>1, <2>2 DEF FoldsBy
<1>11. PICK k : RunsWith(A, n, F, list, g[1 .. n], k)
  BY <1>2, <1>4, <1>10, FoldRun
<1>12. \A i \in 1 .. n : k[i] = Noted(k[i - 1], mentions[i], members)
  <2>1. \A i \in 1 .. n : i - 1 \in 0 .. n
    BY <1>2
  <2> QED
    BY <1>4, <1>11, <2>1 DEF RunsWith
<1> QED
  BY <1>1, <1>2, <1>11, <1>12 DEF RunsWith, ExtendedBy, A, n

\* There is one such run only.
LEMMA ExtendedIs ==
  ASSUME NEW list \in Seq(Url), NEW mentions \in Seq(Url), NEW members, NEW k,
         ExtendedBy(list, mentions, members, k)
  PROVE  k[Len(mentions)] = Extended(list, mentions, members)
<1>1. PICK h : ExtendedBy(list, mentions, members, h) /\ Extended(list, mentions, members) = h[Len(mentions)]
  BY ExtendedRuns
<1> DEFINE n == Len(mentions)
           P == {i \in Nat : i <= n => k[i] = h[i]}
<1>2. n \in Nat
  BY LenProperties
<1>3. 0 \in P
  BY <1>1 DEF ExtendedBy
<1>4. ASSUME NEW i \in Nat, i \in P
      PROVE  i + 1 \in P
  <2>1. CASE i + 1 <= n
    <3>1. k[i] = h[i] /\ i + 1 \in 1 .. n /\ (i + 1) - 1 = i
      BY <1>2, <1>4, <2>1
    <3>2. k[i + 1] = h[i + 1]
      BY <1>1, <3>1 DEF ExtendedBy
    <3> QED
      BY <3>2
  <2>2. CASE ~(i + 1 <= n)
    BY <1>2, <2>2
  <2> QED
    BY <2>1, <2>2
<1>5. Nat \subseteq P
  <2> HIDE DEF P
  <2> QED
    BY <1>3, <1>4, NatSetInduction
<1>6. k[n] = h[n]
  BY <1>2, <1>5
<1> QED
  BY <1>1, <1>6

\* What goes on keeps its beginning, and mentions nothing twice.
LEMMA ExtendedKeeps ==
  ASSUME NEW list \in Seq(Url), NEW mentions \in Seq(Url), NEW members
  PROVE  LET e == Extended(list, mentions, members)
         IN /\ e \in Seq(Url) /\ Len(list) \in Nat /\ Len(e) \in Nat /\ Len(list) <= Len(e)
            /\ \A i \in 1 .. Len(list) : e[i] = list[i]
            /\ IsInjective(list) => IsInjective(e)
<1>1. PICK k : ExtendedBy(list, mentions, members, k) /\ Extended(list, mentions, members) = k[Len(mentions)]
  BY ExtendedRuns
<1> DEFINE n == Len(mentions)
           Keeps(e) == /\ e \in Seq(Url) /\ Len(list) <= Len(e)
                       /\ \A i \in 1 .. Len(list) : e[i] = list[i]
                       /\ IsInjective(list) => IsInjective(e)
           P == {i \in Nat : i <= n => Keeps(k[i])}
<1>2. n \in Nat /\ Len(list) \in Nat /\ \A i \in 1 .. n : mentions[i] \in Url
  BY LenProperties, ElementOfSeq
<1>3. 0 \in P
  BY <1>1, <1>2 DEF ExtendedBy
<1>4. ASSUME NEW i \in Nat, i \in P
      PROVE  i + 1 \in P
  <2>1. CASE i + 1 <= n
    <3>1. Keeps(k[i]) /\ i + 1 \in 1 .. n /\ (i + 1) - 1 = i
      BY <1>2, <1>4, <2>1
    <3>2. k[i + 1] = Noted(k[i], mentions[i + 1], members) /\ mentions[i + 1] \in Url
      BY <1>1, <1>2, <3>1 DEF ExtendedBy
    <3> DEFINE e == k[i]
               f == k[i + 1]
    <3>3. /\ e \in Seq(Url) /\ Len(list) <= Len(e)
          /\ \A j \in 1 .. Len(list) : e[j] = list[j]
          /\ IsInjective(list) => IsInjective(e)
      BY <3>1
    <3>4. /\ f \in Seq(Url) /\ Len(e) \in Nat /\ Len(f) \in {Len(e), Len(e) + 1}
          /\ \A j \in 1 .. Len(e) : f[j] = e[j]
          /\ IsInjective(e) => IsInjective(f)
      BY <3>2, <3>3, NotedTyped
    <3> HIDE DEF e, f
    <3>5. Keeps(f)
      BY <1>2, <3>3, <3>4
    <3> HIDE DEF Keeps
    <3> QED
      BY <3>5 DEF f
  <2>2. CASE ~(i + 1 <= n)
    BY <1>2, <2>2
  <2> QED
    BY <2>1, <2>2
<1>5. Nat \subseteq P
  <2> HIDE DEF P
  <2> QED
    BY <1>3, <1>4, NatSetInduction
<1>6. Keeps(k[n])
  BY <1>2, <1>5
<1>7. Len(k[n]) \in Nat
  BY <1>6, LenProperties
<1> QED
  BY <1>1, <1>2, <1>6, <1>7

\* No mention, one more at the end, and the first one.
LEMMA ExtendedEmpty ==
  ASSUME NEW list \in Seq(Url), NEW members
  PROVE  Extended(list, << >>, members) = list
<1> DEFINE none == << >>
<1>1. none \in Seq(Url) /\ Len(none) = 0
  BY EmptySeq
<1>2. PICK k : ExtendedBy(list, none, members, k) /\ Extended(list, none, members) = k[Len(none)]
  <2> HIDE DEF none
  <2> QED
    BY <1>1, ExtendedRuns
<1> HIDE DEF none
<1>3. Extended(list, none, members) = list
  BY <1>1, <1>2 DEF ExtendedBy
<1> QED
  BY <1>3 DEF none

LEMMA ExtendedAppend ==
  ASSUME NEW list \in Seq(Url), NEW mentions \in Seq(Url), NEW u \in Url, NEW members
  PROVE  Extended(list, Append(mentions, u), members) = Noted(Extended(list, mentions, members), u, members)
<1>1. PICK k : ExtendedBy(list, mentions, members, k) /\ Extended(list, mentions, members) = k[Len(mentions)]
  BY ExtendedRuns
<1> DEFINE n == Len(mentions)
           longer == Append(mentions, u)
           h == [i \in 0 .. n + 1 |-> IF i = n + 1 THEN Noted(k[n], u, members) ELSE k[i]]
<1>2. /\ n \in Nat /\ longer \in Seq(Url) /\ Len(longer) = n + 1 /\ longer[n + 1] = u
      /\ \A i \in 1 .. n : longer[i] = mentions[i]
  BY LenProperties, AppendProperties
<1>3. \A i \in 0 .. n : k[i] \in Seq(Url)
  BY <1>1 DEF ExtendedBy
<1>4. Noted(k[n], u, members) \in Seq(Url)
  BY <1>2, <1>3, NotedTyped
<1>5. h \in [0 .. n + 1 -> Seq(Url)]
  BY <1>2, <1>3, <1>4
<1>6. h[0] = list /\ h[n + 1] = Noted(k[n], u, members) /\ \A i \in 0 .. n : h[i] = k[i]
  BY <1>1, <1>2 DEF ExtendedBy
<1>7. \A i \in 1 .. n : k[i] = Noted(k[i - 1], mentions[i], members)
  BY <1>1 DEF ExtendedBy
<1> HIDE DEF h, n, longer
<1>8. ASSUME NEW i \in 1 .. n + 1
      PROVE  h[i] = Noted(h[i - 1], longer[i], members)
  <2>1. CASE i \in 1 .. n
    <3>1. i \in 0 .. n /\ i - 1 \in 0 .. n
      BY <1>2, <2>1
    <3> QED
      BY <1>2, <1>6, <1>7, <2>1, <3>1
  <2>2. CASE i = n + 1
    <3>1. i - 1 = n /\ n \in 0 .. n
      BY <1>2, <2>2
    <3> QED
      BY <1>2, <1>6, <2>2, <3>1
  <2> QED
    BY <1>2, <2>1, <2>2
<1>9. ExtendedBy(list, longer, members, h)
  BY <1>2, <1>5, <1>6, <1>8 DEF ExtendedBy
<1>10. h[Len(longer)] = Extended(list, longer, members)
  BY <1>2, <1>9, ExtendedIs
<1> QED
  BY <1>1, <1>2, <1>6, <1>10 DEF n, longer

LEMMA ExtendedHead ==
  ASSUME NEW list \in Seq(Url), NEW mentions \in Seq(Url), mentions # << >>, NEW members
  PROVE  Extended(list, mentions, members)
           = Extended(Noted(list, Head(mentions), members), Tail(mentions), members)
<1>1. PICK k : ExtendedBy(list, mentions, members, k) /\ Extended(list, mentions, members) = k[Len(mentions)]
  BY ExtendedRuns
<1> DEFINE n == Len(mentions)
           rest == Tail(mentions)
           h == [i \in 0 .. n - 1 |-> k[i + 1]]
<1>2. /\ n \in Nat \ {0} /\ rest \in Seq(Url) /\ Len(rest) = n - 1 /\ Head(mentions) = mentions[1]
      /\ Head(mentions) \in Url
      /\ \A i \in 1 .. n - 1 : rest[i] = mentions[i + 1]
  BY LenProperties, HeadTailProperties, EmptySeq
<1>3. \A i \in 0 .. n : k[i] \in Seq(Url)
  BY <1>1 DEF ExtendedBy
<1>4. k[0] = list /\ \A i \in 1 .. n : k[i] = Noted(k[i - 1], mentions[i], members)
  BY <1>1 DEF ExtendedBy
<1> HIDE DEF n, rest
<1>5. h \in [0 .. n - 1 -> Seq(Url)]
  BY <1>2, <1>3
<1>6. h[0] = Noted(list, Head(mentions), members)
  BY <1>2, <1>4
<1>7. \A i \in 0 .. n - 1 : h[i] = k[i + 1]
  OBVIOUS
<1> HIDE DEF h
<1>8. ASSUME NEW i \in 1 .. n - 1
      PROVE  h[i] = Noted(h[i - 1], rest[i], members)
  <2>1. i \in 0 .. n - 1 /\ i - 1 \in 0 .. n - 1 /\ i + 1 \in 1 .. n /\ (i + 1) - 1 = i /\ (i - 1) + 1 = i
    BY <1>2
  <2>2. h[i] = k[i + 1] /\ h[i - 1] = k[i] /\ k[i + 1] = Noted(k[i], mentions[i + 1], members)
    BY <1>4, <1>7, <2>1
  <2> QED
    BY <1>2, <2>2
<1>9. Noted(list, Head(mentions), members) \in Seq(Url)
  BY <1>2, NotedTyped
<1>10. ExtendedBy(Noted(list, Head(mentions), members), rest, members, h)
  BY <1>2, <1>5, <1>6, <1>8 DEF ExtendedBy
<1>11. h[Len(rest)] = Extended(Noted(list, Head(mentions), members), rest, members)
  BY <1>2, <1>9, <1>10, ExtendedIs
<1>12. h[n - 1] = k[n]
  BY <1>2, <1>7
<1> QED
  BY <1>1, <1>2, <1>11, <1>12 DEF n, rest
-----------------------------------------------------------------------------
(* The first of a list *)

LEMMA LimitedTyped ==
  ASSUME NEW list \in Seq(Url)
  PROVE  /\ Limited(list) \in Seq(Url) /\ Len(Limited(list)) \in Nat /\ Len(Limited(list)) <= PageLimit
         /\ Len(list) <= PageLimit => Limited(list) = list
         /\ Len(list) > PageLimit => /\ Len(Limited(list)) = PageLimit
                                     /\ \A i \in 1 .. PageLimit : Limited(list)[i] = list[i]
<1>1. PageLimit \in Nat \ {0} /\ Len(list) \in Nat
  BY SiteFacts, LenProperties
<1>2. ASSUME Len(list) > PageLimit
      PROVE  /\ SubSeq(list, 1, PageLimit) \in Seq(Url)
             /\ Len(SubSeq(list, 1, PageLimit)) = PageLimit
             /\ \A i \in 1 .. PageLimit : SubSeq(list, 1, PageLimit)[i] = list[i]
  BY <1>1, <1>2, SubSeqProperties
<1>3. CASE Len(list) > PageLimit
  BY <1>1, <1>2, <1>3 DEF Limited
<1>4. CASE ~(Len(list) > PageLimit)
  BY <1>1, <1>4 DEF Limited
<1> QED
  BY <1>3, <1>4

\* What follows the first does not matter.
LEMMA LimitedNoted ==
  ASSUME NEW list \in Seq(Url), NEW u \in Url, NEW members
  PROVE  Limited(Noted(list, u, members))
           = IF Len(Limited(list)) >= PageLimit THEN Limited(list) ELSE Noted(list, u, members)
<1> DEFINE more == Noted(list, u, members)
<1>1. PageLimit \in Nat \ {0} /\ Len(list) \in Nat
  BY SiteFacts, LenProperties
<1>2. /\ more \in Seq(Url) /\ Len(more) \in {Len(list), Len(list) + 1}
      /\ \A i \in 1 .. Len(list) : more[i] = list[i]
  BY NotedTyped
<1>3. Len(more) = Len(list) => more = list
  <2>1. Len(Append(list, u)) = Len(list) + 1
    BY AppendProperties
  <2> QED
    BY <1>1, <2>1 DEF Noted
<1> HIDE DEF more
<1>4. CASE Len(list) >= PageLimit
  <2> DEFINE a == Limited(list)
             b == Limited(more)
  <2>1. /\ a \in Seq(Url) /\ Len(a) = PageLimit
        /\ \A i \in 1 .. PageLimit : a[i] = list[i]
    BY <1>1, <1>4, LimitedTyped
  <2>2. /\ b \in Seq(Url) /\ Len(b) = PageLimit
        /\ \A i \in 1 .. PageLimit : b[i] = more[i]
    BY <1>1, <1>2, <1>4, LimitedTyped
  <2>3. \A i \in 1 .. PageLimit : a[i] = b[i]
    BY <1>1, <1>2, <1>4, <2>1, <2>2
  <2> HIDE DEF a, b
  <2>4. a = b
    BY <2>1, <2>2, <2>3, SeqEqual
  <2> QED
    BY <1>1, <2>1, <2>4 DEF a, b, more
<1>5. CASE Len(list) < PageLimit
  <2>1. Limited(list) = list /\ Limited(more) = more
    BY <1>1, <1>2, <1>5, LimitedTyped
  <2> QED
    BY <1>1, <1>5, <2>1 DEF more
<1> QED
  BY <1>1, <1>4, <1>5
-----------------------------------------------------------------------------
(* The traversal *)

Knowledge == [maps : Seq(Url), found : Seq(Url)]

\* One more sitemap.
Learnt(known, n, arrived) ==
  LET u == known.maps[n]
  IN IF n \in DOMAIN known.maps /\ u \in arrived
     THEN [maps |-> Extended(known.maps, Site[u].locs, MapsIn(u)),
           found |-> Extended(known.found, Site[u].locs, PagesIn(u))]
     ELSE known

LEMMA LearntTyped ==
  ASSUME NEW known \in Knowledge, NEW n \in Nat, NEW arrived
  PROVE  /\ Learnt(known, n, arrived) \in Knowledge
         /\ IsInjective(known.maps) => IsInjective(Learnt(known, n, arrived).maps)
<1> DEFINE u == known.maps[n]
<1>1. known.maps \in Seq(Url) /\ known.found \in Seq(Url)
  BY DEF Knowledge
<1>2. CASE n \in DOMAIN known.maps /\ u \in arrived
  <2>1. u \in Url
    BY <1>1, <1>2, ElementOfSeq
  <2>2. Site[u].locs \in Seq(Url)
    BY <2>1, SiteFacts
  <2> DEFINE m == Extended(known.maps, Site[u].locs, MapsIn(u))
             f == Extended(known.found, Site[u].locs, PagesIn(u))
  <2>3. m \in Seq(Url) /\ f \in Seq(Url) /\ (IsInjective(known.maps) => IsInjective(m))
    BY <1>1, <2>2, ExtendedKeeps
  <2>4. Learnt(known, n, arrived) = [maps |-> m, found |-> f]
    BY <1>2 DEF Learnt
  <2> HIDE DEF m, f
  <2> QED
    BY <2>3, <2>4 DEF Knowledge
<1>3. CASE ~(n \in DOMAIN known.maps /\ u \in arrived)
  <2>1. Learnt(known, n, arrived) = known
    BY <1>3 DEF Learnt
  <2> QED
    BY <2>1
<1> QED
  BY <1>2, <1>3

\* The traversal goes one sitemap at a time.
LEMMA TraversalSteps ==
  ASSUME NEW start \in Seq(Url), NEW arrived
  PROVE  LET t == Traversal(start, arrived)
         IN /\ t \in [0 .. MaxSitemaps -> Knowledge]
            /\ t[0] = [maps |-> Extended(<< >>, start, OnSite), found |-> << >>]
            /\ \A n \in 1 .. MaxSitemaps : t[n] = Learnt(t[n - 1], n, arrived)
<1> DEFINE D == 0 .. MaxSitemaps
           base == [maps |-> Extended(<< >>, start, OnSite), found |-> << >>]
           built(t, n) == IF n = 0 THEN base ELSE Learnt(t[n - 1], n, arrived)
           F == [t \in [D -> Knowledge] |-> [n \in D |-> built(t, n)]]
           mu == [n \in D |-> n]
           solves(t) == t = [n \in D |-> built(t, n)]
<1>1. MaxSitemaps \in Nat \ {0}
  BY SiteFacts
<1>2. base \in Knowledge /\ Knowledge # {}
  <2>1. << >> \in Seq(Url)
    BY EmptySeq
  <2>2. Extended(<< >>, start, OnSite) \in Seq(Url)
    BY <2>1, ExtendedKeeps
  <2> DEFINE m == Extended(<< >>, start, OnSite)
  <2>3. base \in Knowledge
    <3>1. base = [maps |-> m, found |-> << >>] /\ m \in Seq(Url)
      BY <2>2
    <3> HIDE DEF m, base
    <3> QED
      BY <2>1, <3>1 DEF Knowledge
  <2> QED
    BY <2>3
<1>3. \A n \in D : n # 0 => n - 1 \in D /\ n \in Nat
  BY <1>1
<1>4. ASSUME NEW t \in [D -> Knowledge], NEW n \in D
      PROVE  built(t, n) \in Knowledge
  <2>1. CASE n = 0
    BY <1>2, <2>1
  <2>2. CASE n # 0
    <3>1. t[n - 1] \in Knowledge /\ n \in Nat
      BY <1>3, <2>2
    <3> QED
      BY <2>2, <3>1, LearntTyped
  <2> QED
    BY <2>1, <2>2
<1>5. AsksBelow(D, Knowledge, F, mu)
  <2>1. F \in [[D -> Knowledge] -> [D -> Knowledge]]
    <3> HIDE DEF built, D
    <3> QED
      BY <1>4
  <2>2. mu \in [D -> Nat]
    BY <1>1
  <2>3. ASSUME NEW f \in [D -> Knowledge], NEW g \in [D -> Knowledge], NEW n \in D,
               \A m \in D : mu[m] < mu[n] => f[m] = g[m]
        PROVE  F[f][n] = F[g][n]
    <3>1. n # 0 => f[n - 1] = g[n - 1]
      <4> SUFFICES ASSUME n # 0
                   PROVE  f[n - 1] = g[n - 1]
        OBVIOUS
      <4>1. n - 1 \in D /\ mu[n - 1] = n - 1 /\ mu[n] = n
        BY <1>3
      <4>2. n - 1 < n
        BY <1>3
      <4> QED
        BY <2>3, <4>1, <4>2
    <3>2. built(f, n) = built(g, n)
      BY <3>1
    <3>3. F[f][n] = built(f, n) /\ F[g][n] = built(g, n)
      <4> HIDE DEF built, D
      <4> QED
        OBVIOUS
    <3> QED
      BY <3>2, <3>3
  <2> HIDE DEF F, mu, D
  <2> QED
    BY <2>1, <2>2, <2>3 DEF AsksBelow
<1>6. PICK h : Solution(D, Knowledge, F, h)
  <2>1. \A n \in D : mu[n] < MaxSitemaps + 1
    BY <1>1
  <2>2. MaxSitemaps + 1 \in Nat
    BY <1>1
  <2> HIDE DEF F, mu, D
  <2>3. \E h : Solution(D, Knowledge, F, h)
    BY <1>2, <1>5, <2>1, <2>2, RecursionExists
  <2> QED
    BY <2>3
<1>7. solves(h) /\ h \in [D -> Knowledge]
  <2>1. h \in [D -> Knowledge] /\ F[h] = h
    BY <1>6 DEF Solution
  <2> HIDE DEF built, D
  <2>2. F[h] = [n \in D |-> built(h, n)]
    BY <2>1
  <2> QED
    BY <2>1, <2>2
<1> DEFINE t == CHOOSE x : solves(x)
<1>8. Traversal(start, arrived) = t
  BY DEF Traversal, Learnt
<1>9. solves(t)
  <2> HIDE DEF solves
  <2> QED
    BY <1>7
<1>10. \A n \in D : t[n] = built(t, n)
  <2> HIDE DEF t, built, D
  <2> QED
    BY <1>9
<1>11. t[0] = base /\ \A n \in 1 .. MaxSitemaps : t[n] = Learnt(t[n - 1], n, arrived)
  <2> HIDE DEF t, base
  <2>1. 0 \in D /\ \A n \in 1 .. MaxSitemaps : n \in D /\ n # 0
    BY <1>1
  <2> QED
    BY <1>10, <2>1
<1>12. t \in [D -> Knowledge]
  <2> DEFINE P == {n \in Nat : n <= MaxSitemaps => t[n] \in Knowledge}
  <2> HIDE DEF t, base
  <2>1. 0 \in P
    BY <1>2, <1>11
  <2>2. ASSUME NEW n \in Nat, n \in P
        PROVE  n + 1 \in P
    <3>1. CASE n + 1 <= MaxSitemaps
      <4>1. t[n] \in Knowledge /\ n + 1 \in 1 .. MaxSitemaps /\ (n + 1) - 1 = n /\ n + 1 \in Nat
        BY <1>1, <2>2, <3>1
      <4>2. t[n + 1] = Learnt(t[n], n + 1, arrived)
        BY <1>11, <4>1
      <4>3. t[n + 1] \in Knowledge
        BY <4>1, <4>2, LearntTyped
      <4> QED
        BY <4>1, <4>3
    <3>2. CASE ~(n + 1 <= MaxSitemaps)
      BY <1>1, <3>2
    <3> QED
      BY <3>1, <3>2
  <2>3. Nat \subseteq P
    <3> HIDE DEF P
    <3> QED
      BY <2>1, <2>2, NatSetInduction
  <2>4. \A n \in D : t[n] \in Knowledge
    BY <1>1, <2>3
  <2>5. t = [n \in D |-> built(t, n)]
    BY <1>9
  <2>6. t = [n \in D |-> t[n]]
    <3> HIDE DEF built, D
    <3> QED
      BY <1>10, <2>5
  <2> HIDE DEF D
  <2> QED
    BY <2>4, <2>6
<1> QED
  BY <1>8, <1>11, <1>12

\* No sitemap is mentioned twice.
LEMMA TraversalInjective ==
  ASSUME NEW start \in Seq(Url), NEW arrived, NEW n \in 0 .. MaxSitemaps
  PROVE  IsInjective(Traversal(start, arrived)[n].maps)
<1> DEFINE t == Traversal(start, arrived)
           P == {m \in Nat : m <= MaxSitemaps => IsInjective(t[m].maps)}
<1>1. MaxSitemaps \in Nat \ {0}
  BY SiteFacts
<1>2. /\ t \in [0 .. MaxSitemaps -> Knowledge]
      /\ t[0] = [maps |-> Extended(<< >>, start, OnSite), found |-> << >>]
      /\ \A m \in 1 .. MaxSitemaps : t[m] = Learnt(t[m - 1], m, arrived)
  BY TraversalSteps
<1> HIDE DEF t
<1>3. 0 \in P
  <2>1. << >> \in Seq(Url) /\ IsInjective(<< >>)
    BY EmptySeq DEF IsInjective
  <2>2. IsInjective(Extended(<< >>, start, OnSite))
    BY <2>1, ExtendedKeeps
  <2>3. t[0].maps = Extended(<< >>, start, OnSite)
    BY <1>2
  <2> QED
    BY <2>2, <2>3
<1>4. ASSUME NEW m \in Nat, m \in P
      PROVE  m + 1 \in P
  <2>1. CASE m + 1 <= MaxSitemaps
    <3>1. m \in 0 .. MaxSitemaps /\ m + 1 \in 1 .. MaxSitemaps /\ (m + 1) - 1 = m /\ m + 1 \in Nat
      BY <1>1, <2>1
    <3>2. t[m] \in Knowledge /\ IsInjective(t[m].maps)
      BY <1>1, <1>2, <1>4, <3>1
    <3>3. IsInjective(t[m + 1].maps)
      BY <1>2, <3>1, <3>2, LearntTyped
    <3> QED
      BY <3>1, <3>3
  <2>2. CASE ~(m + 1 <= MaxSitemaps)
    BY <1>1, <2>2
  <2> QED
    BY <2>1, <2>2
<1>5. Nat \subseteq P
  <2> HIDE DEF P
  <2> QED
    BY <1>3, <1>4, NatSetInduction
<1> QED
  BY <1>1, <1>5 DEF t

\* The traversal is over when those that follow do not arrive.
LEMMA TraversalSettles ==
  ASSUME NEW start \in Seq(Url), NEW arrived, NEW n \in 0 .. MaxSitemaps,
         n <= Len(Traversal(start, arrived)[n].maps),
         \A u \in arrived : \E i \in 1 .. n : Traversal(start, arrived)[n].maps[i] = u
  PROVE  Traversal(start, arrived)[MaxSitemaps] = Traversal(start, arrived)[n]
<1> DEFINE t == Traversal(start, arrived)
           P == {m \in Nat : n + m <= MaxSitemaps => t[n + m] = t[n]}
<1>1. MaxSitemaps \in Nat \ {0} /\ n \in Nat
  BY SiteFacts
<1>2. /\ t \in [0 .. MaxSitemaps -> Knowledge]
      /\ \A m \in 1 .. MaxSitemaps : t[m] = Learnt(t[m - 1], m, arrived)
  BY TraversalSteps
<1>3. IsInjective(t[n].maps) /\ t[n].maps \in Seq(Url)
  BY <1>2, TraversalInjective DEF Knowledge
<1>4. n <= Len(t[n].maps) /\ \A u \in arrived : \E i \in 1 .. n : t[n].maps[i] = u
  OBVIOUS
<1> HIDE DEF t
<1>5. 0 \in P
  BY <1>1
<1>6. ASSUME NEW m \in Nat, m \in P
      PROVE  m + 1 \in P
  <2>1. CASE n + (m + 1) <= MaxSitemaps
    <3>1. n + m \in 0 .. MaxSitemaps /\ n + (m + 1) \in 1 .. MaxSitemaps /\ (n + (m + 1)) - 1 = n + m /\ n + m <= MaxSitemaps
      BY <1>1, <2>1
    <3>2. t[n + m] = t[n]
      BY <1>6, <3>1
    <3> DEFINE maps == t[n].maps
               next == n + (m + 1)
    <3>3. ASSUME next \in DOMAIN maps
          PROVE  maps[next] \notin arrived
      <4>1. Len(maps) \in Nat /\ DOMAIN maps = 1 .. Len(maps) /\ n <= Len(maps)
        BY <1>3, <1>4, LenProperties
      <4>2. \A i \in 1 .. n : i \in DOMAIN maps /\ i # next
        BY <1>1, <4>1
      <4> HIDE DEF maps, next
      <4>3. \A i \in 1 .. n : maps[i] # maps[next]
        BY <1>3, <3>3, <4>2 DEF IsInjective, maps
      <4> QED
        BY <1>4, <4>3 DEF maps
    <3>4. Learnt(t[n], next, arrived) = t[n]
      BY <3>3 DEF Learnt
    <3>5. t[next] = t[n]
      BY <1>2, <3>1, <3>2, <3>4
    <3> QED
      BY <3>5
  <2>2. CASE ~(n + (m + 1) <= MaxSitemaps)
    BY <1>1, <2>2
  <2> QED
    BY <2>1, <2>2
<1>7. Nat \subseteq P
  <2> HIDE DEF P
  <2> QED
    BY <1>5, <1>6, NatSetInduction
<1>8. MaxSitemaps - n \in Nat /\ n + (MaxSitemaps - n) = MaxSitemaps
  BY <1>1
<1>9. t[n + (MaxSitemaps - n)] = t[n]
  BY <1>1, <1>7, <1>8
<1> QED
  BY <1>8, <1>9 DEF t
-----------------------------------------------------------------------------
(* Reading in the order of the traversal *)

\* The lists of a batch agree with what a traversal knows: taken are the sitemaps
\* it took, maps and pages what it knows.
Matches(acc, taken, maps, pages) ==
  /\ acc.found = Limited(pages)
  /\ Len(taken) <= Len(maps) /\ \A i \in 1 .. Len(taken) : maps[i] = taken[i]
  /\ Len(acc.found) < PageLimit => Extended(taken, acc.queue, OnSite) = maps

LEMMA ReadLocCrowds ==
  ASSUME NEW acc \in Lists, NEW index \in BOOLEAN, NEW v \in Url, acc.crowded
  PROVE  ReadLoc(acc, index, v).crowded
<1>1. Len(acc.found) \in Nat /\ PageLimit \in Nat /\ acc.crowded = TRUE
  BY SiteFacts, LenProperties DEF Lists
<1>2. /\ [acc EXCEPT !.queue = Append(@, v)].crowded
      /\ [acc EXCEPT !.crowded = TRUE].crowded
      /\ [acc EXCEPT !.found = Added(@, v)].crowded
  BY <1>1 DEF Lists
<1>3. CASE Len(acc.found) >= PageLimit
  BY <1>1, <1>3 DEF ReadLoc
<1>4. CASE ~(Len(acc.found) >= PageLimit) /\ (index \/ v \in XmlPath)
  BY <1>1, <1>2, <1>4 DEF ReadLoc
<1>5. CASE ~(Len(acc.found) >= PageLimit) /\ ~(index \/ v \in XmlPath)
  BY <1>1, <1>2, <1>5 DEF ReadLoc
<1> QED
  BY <1>3, <1>4, <1>5

\* A location that is none of the members changes nothing.
LEMMA NotNoted ==
  ASSUME NEW list, NEW v, NEW members, v \notin members
  PROVE  Noted(list, v, members) = list
BY DEF Noted

LEMMA ReadLocMatches ==
  ASSUME NEW acc \in Lists, NEW u \in Url, NEW v \in Url,
         NEW taken \in Seq(Url), NEW maps \in Seq(Url), NEW pages \in Seq(Url),
         Matches(acc, taken, maps, pages),
         ~ReadLoc(acc, Site[u].index, v).crowded
  PROVE  Matches(ReadLoc(acc, Site[u].index, v), taken, Noted(maps, v, MapsIn(u)), Noted(pages, v, PagesIn(u)))
<1> DEFINE after == ReadLoc(acc, Site[u].index, v)
           m == Noted(maps, v, MapsIn(u))
           p == Noted(pages, v, PagesIn(u))
<1>1. /\ PageLimit \in Nat \ {0} /\ Len(acc.found) \in Nat /\ Site[u].index \in BOOLEAN
      /\ acc.queue \in Seq(Url) /\ acc.found \in Seq(Url)
  BY SiteFacts, LenProperties DEF Lists
<1>2. /\ Len(taken) <= Len(m) /\ \A i \in 1 .. Len(taken) : m[i] = taken[i]
  <2>1. /\ Len(maps) \in Nat /\ Len(m) \in {Len(maps), Len(maps) + 1}
        /\ \A i \in 1 .. Len(maps) : m[i] = maps[i]
    BY NotedTyped
  <2>2. Len(taken) \in Nat /\ Len(taken) <= Len(maps) /\ \A i \in 1 .. Len(taken) : maps[i] = taken[i]
    BY LenProperties DEF Matches
  <2> HIDE DEF m
  <2> QED
    BY <2>1, <2>2
<1>3. Limited(p) = IF Len(Limited(pages)) >= PageLimit THEN Limited(pages) ELSE p
  BY LimitedNoted
<1>4. acc.found = Limited(pages)
  BY DEF Matches
<1>5. Len(acc.found) < PageLimit => acc.found = pages /\ Limited(p) = p
  <2>1. Len(pages) \in Nat /\ (Len(pages) > PageLimit => Len(Limited(pages)) = PageLimit)
        /\ (Len(pages) <= PageLimit => Limited(pages) = pages)
    BY LimitedTyped, LenProperties
  <2> QED
    BY <1>1, <1>3, <1>4, <2>1
<1>6. CASE Len(acc.found) >= PageLimit
  <2>1. after = acc
    BY <1>1, <1>6 DEF ReadLoc
  <2>2. Limited(p) = acc.found
    BY <1>3, <1>4, <1>6
  <2> HIDE DEF after, m, p
  <2> QED
    BY <1>1, <1>2, <1>6, <2>1, <2>2 DEF Matches, after, m, p
<1>7. CASE Len(acc.found) < PageLimit /\ (Site[u].index \/ v \in XmlPath)
  <2>1. after = [acc EXCEPT !.queue = Append(@, v)]
    <3>1. after \in {[acc EXCEPT !.queue = Append(@, v)], [acc EXCEPT !.crowded = TRUE]}
      BY <1>1, <1>7 DEF ReadLoc
    <3>2. [acc EXCEPT !.crowded = TRUE].crowded
      BY DEF Lists
    <3> QED
      BY <3>1, <3>2
  <2>2. after.queue = Append(acc.queue, v) /\ after.found = acc.found
    BY <2>1 DEF Lists
  <2>3. m = Noted(maps, v, OnSite)
    BY <1>7 DEF Noted, MapsIn
  <2>4. p = pages
    <3>1. v \notin PagesIn(u)
      BY <1>7 DEF PagesIn
    <3> QED
      BY <3>1, NotNoted
  <2>5. Extended(taken, acc.queue, OnSite) = maps
    BY <1>7 DEF Matches
  <2>6. Extended(taken, after.queue, OnSite) = m
    BY <1>1, <2>2, <2>3, <2>5, ExtendedAppend
  <2> HIDE DEF after, m, p
  <2> QED
    BY <1>2, <1>4, <2>2, <2>4, <2>6 DEF Matches, after, m, p
<1>8. CASE Len(acc.found) < PageLimit /\ ~(Site[u].index \/ v \in XmlPath)
  <2>1. after = [acc EXCEPT !.found = Added(@, v)]
    BY <1>1, <1>8 DEF ReadLoc
  <2>2. after.queue = acc.queue /\ after.found = Added(acc.found, v)
    BY <2>1 DEF Lists
  <2>3. m = maps
    <3>1. v \notin MapsIn(u)
      BY <1>8 DEF MapsIn
    <3> QED
      BY <3>1, NotNoted
  <2>4. PagesIn(u) = (OnSite \cap Wanted) \ XmlPath
    BY <1>8 DEF PagesIn
  <2>5. Added(pages, v) = p
    BY <1>8, <2>4 DEF Added, Noted
  <2>6. after.found = Limited(p)
    BY <1>5, <1>8, <2>2, <2>5
  <2>7. Extended(taken, acc.queue, OnSite) = maps
    BY <1>8 DEF Matches
  <2> HIDE DEF after, m, p
  <2> QED
    BY <1>2, <2>2, <2>3, <2>6, <2>7 DEF Matches, after, m, p
<1> QED
  BY <1>1, <1>6, <1>7, <1>8

\* A document is read location by location, in the fold of the code and in those
\* of the traversal.
LEMMA ReadDocumentCrowds ==
  ASSUME NEW acc \in Lists, NEW u \in Url, acc.crowded
  PROVE  ReadDocument(acc, u).crowded
<1> DEFINE locs == Site[u].locs
           n == Len(locs)
<1>1. /\ n \in Nat /\ Site[u].index \in BOOLEAN /\ \A i \in 1 .. n : locs[i] \in Url
  BY SiteFacts, LenProperties, ElementOfSeq
<1>2. CASE u \in Arrived
  <2>1. PICK k : ReadDocumentBy(acc, u, k) /\ k[n] = ReadDocument(acc, u)
    BY <1>2, ReadDocumentRuns
  <2>2. /\ k[0] = acc /\ \A i \in 0 .. n : k[i] \in Lists
        /\ \A i \in 1 .. n : k[i] = ReadLoc(k[i - 1], Site[u].index, locs[i])
    BY <2>1 DEF ReadDocumentBy
  <2> DEFINE P == {i \in Nat : i <= n => k[i].crowded}
  <2> HIDE DEF n, locs
  <2>3. 0 \in P
    BY <2>2
  <2>4. ASSUME NEW i \in Nat, i \in P
        PROVE  i + 1 \in P
    <3>1. CASE i + 1 <= n
      <4>1. i \in 0 .. n /\ i + 1 \in 1 .. n /\ (i + 1) - 1 = i /\ i <= n
        BY <1>1, <3>1
      <4>2. k[i].crowded /\ k[i] \in Lists /\ k[i + 1] = ReadLoc(k[i], Site[u].index, locs[i + 1]) /\ locs[i + 1] \in Url
        BY <1>1, <2>2, <2>4, <4>1
      <4>3. k[i + 1].crowded
        BY <1>1, <4>2, ReadLocCrowds
      <4> QED
        BY <4>3
    <3>2. CASE ~(i + 1 <= n)
      BY <1>1, <3>2
    <3> QED
      BY <3>1, <3>2
  <2>5. Nat \subseteq P
    <3> HIDE DEF P
    <3> QED
      BY <2>3, <2>4, NatSetInduction
  <2>6. k[n].crowded
    BY <1>1, <2>5
  <2> QED
    BY <2>1, <2>6
<1>3. CASE u \notin Arrived
  BY <1>3 DEF ReadDocument
<1> QED
  BY <1>2, <1>3

LEMMA ReadDocumentMatches ==
  ASSUME NEW acc \in Lists, NEW u \in Url, u \in Arrived,
         NEW taken \in Seq(Url), NEW maps \in Seq(Url), NEW pages \in Seq(Url),
         Matches(acc, taken, maps, pages),
         ~ReadDocument(acc, u).crowded
  PROVE  Matches(ReadDocument(acc, u), taken,
                 Extended(maps, Site[u].locs, MapsIn(u)), Extended(pages, Site[u].locs, PagesIn(u)))
<1> DEFINE locs == Site[u].locs
           n == Len(locs)
<1>1. /\ n \in Nat /\ Site[u].index \in BOOLEAN /\ locs \in Seq(Url) /\ \A i \in 1 .. n : locs[i] \in Url
  BY SiteFacts, LenProperties, ElementOfSeq
<1>2. PICK k : ReadDocumentBy(acc, u, k) /\ k[n] = ReadDocument(acc, u)
  BY ReadDocumentRuns
<1>3. PICK m : ExtendedBy(maps, locs, MapsIn(u), m) /\ Extended(maps, locs, MapsIn(u)) = m[n]
  BY <1>1, ExtendedRuns
<1>4. PICK p : ExtendedBy(pages, locs, PagesIn(u), p) /\ Extended(pages, locs, PagesIn(u)) = p[n]
  BY <1>1, ExtendedRuns
<1>5. /\ k[0] = acc /\ \A i \in 0 .. n : k[i] \in Lists
      /\ \A i \in 1 .. n : k[i] = ReadLoc(k[i - 1], Site[u].index, locs[i])
  BY <1>2 DEF ReadDocumentBy
<1>6. /\ m[0] = maps /\ \A i \in 0 .. n : m[i] \in Seq(Url)
      /\ \A i \in 1 .. n : m[i] = Noted(m[i - 1], locs[i], MapsIn(u))
  BY <1>3 DEF ExtendedBy
<1>7. /\ p[0] = pages /\ \A i \in 0 .. n : p[i] \in Seq(Url)
      /\ \A i \in 1 .. n : p[i] = Noted(p[i - 1], locs[i], PagesIn(u))
  BY <1>4 DEF ExtendedBy
<1> DEFINE P == {i \in Nat : i <= n => k[i].crowded \/ Matches(k[i], taken, m[i], p[i])}
<1> HIDE DEF n, locs
<1>8. 0 \in P
  BY <1>5, <1>6, <1>7
<1>9. ASSUME NEW i \in Nat, i \in P
      PROVE  i + 1 \in P
  <2>1. CASE i + 1 <= n
    <3>1. i \in 0 .. n /\ i + 1 \in 1 .. n /\ (i + 1) - 1 = i /\ i <= n
      BY <1>1, <2>1
    <3>2. /\ k[i] \in Lists /\ m[i] \in Seq(Url) /\ p[i] \in Seq(Url) /\ locs[i + 1] \in Url
          /\ k[i + 1] = ReadLoc(k[i], Site[u].index, locs[i + 1])
          /\ m[i + 1] = Noted(m[i], locs[i + 1], MapsIn(u))
          /\ p[i + 1] = Noted(p[i], locs[i + 1], PagesIn(u))
          /\ k[i].crowded \/ Matches(k[i], taken, m[i], p[i])
      BY <1>1, <1>5, <1>6, <1>7, <1>9, <3>1
    <3>3. k[i].crowded => k[i + 1].crowded
      BY <1>1, <3>2, ReadLocCrowds
    <3>4. Matches(k[i], taken, m[i], p[i]) /\ ~k[i + 1].crowded => Matches(k[i + 1], taken, m[i + 1], p[i + 1])
      BY <3>2, ReadLocMatches
    <3> QED
      BY <3>2, <3>3, <3>4
  <2>2. CASE ~(i + 1 <= n)
    BY <1>1, <2>2
  <2> QED
    BY <2>1, <2>2
<1>10. Nat \subseteq P
  <2> HIDE DEF P
  <2> QED
    BY <1>8, <1>9, NatSetInduction
<1>11. k[n].crowded \/ Matches(k[n], taken, m[n], p[n])
  BY <1>1, <1>10
<1> QED
  BY <1>2, <1>3, <1>4, <1>11 DEF locs

\* A batch is read document by document, as the traversal takes them.
LEMMA ReadBatchMatches ==
  ASSUME NEW acc \in Lists, batch \in Seq(Url), fetched \in Nat, fetched + Len(batch) <= MaxSitemaps,
         NEW taken \in Seq(Url), Len(taken) = fetched + Len(batch),
         \A i \in 1 .. Len(batch) : taken[fetched + i] = batch[i],
         NEW start \in Seq(Url), NEW arrived,
         \A i \in 1 .. Len(batch) : batch[i] \in Arrived <=> batch[i] \in arrived,
         Matches(acc, taken, Traversal(start, arrived)[fetched].maps, Traversal(start, arrived)[fetched].found),
         ~FoldLeft(ReadDocument, acc, InOrder(batch)).crowded
  PROVE  Matches(FoldLeft(ReadDocument, acc, InOrder(batch)), taken,
                 Traversal(start, arrived)[fetched + Len(batch)].maps,
                 Traversal(start, arrived)[fetched + Len(batch)].found)
<1> DEFINE n == Len(batch)
           t == Traversal(start, arrived)
           end == FoldLeft(ReadDocument, acc, InOrder(batch))
<1>1. /\ n \in Nat /\ fetched \in Nat /\ fetched + n <= MaxSitemaps /\ MaxSitemaps \in Nat
      /\ \A i \in 1 .. n : batch[i] \in Url
  BY SiteFacts, LenProperties, ElementOfSeq
<1>2. PICK k : ReadBatchBy(acc, k) /\ k[n] = end
  BY ReadBatchRuns
<1>3. /\ k[0] = acc /\ \A i \in 0 .. n : k[i] \in Lists
      /\ \A i \in 1 .. n : k[i] = ReadDocument(k[i - 1], batch[i])
  BY <1>2 DEF ReadBatchBy
<1>4. /\ t \in [0 .. MaxSitemaps -> Knowledge]
      /\ \A m \in 1 .. MaxSitemaps : t[m] = Learnt(t[m - 1], m, arrived)
  BY TraversalSteps
<1>5. Matches(acc, taken, t[fetched].maps, t[fetched].found) /\ ~end.crowded
  OBVIOUS
<1>6. Len(taken) = fetched + n /\ \A i \in 1 .. n : taken[fetched + i] = batch[i]
  OBVIOUS
<1>7. \A i \in 1 .. n : batch[i] \in Arrived <=> batch[i] \in arrived
  OBVIOUS
<1> DEFINE P == {i \in Nat : i <= n => k[i].crowded \/ Matches(k[i], taken, t[fetched + i].maps, t[fetched + i].found)}
<1> HIDE DEF n, t, end
<1>8. 0 \in P
  BY <1>1, <1>3, <1>5
<1>9. ASSUME NEW i \in Nat, i \in P
      PROVE  i + 1 \in P
  <2>1. CASE i + 1 <= n
    <3> DEFINE before == t[fetched + i]
               u == batch[i + 1]
               next == fetched + (i + 1)
    <3>1. i \in 0 .. n /\ i + 1 \in 1 .. n /\ (i + 1) - 1 = i /\ i <= n
          /\ fetched + i \in 0 .. MaxSitemaps /\ next \in 1 .. MaxSitemaps /\ next - 1 = fetched + i
          /\ next \in 1 .. fetched + n
      BY <1>1, <2>1
    <3>2. /\ k[i] \in Lists /\ k[i + 1] = ReadDocument(k[i], u) /\ u \in Url
          /\ k[i].crowded \/ Matches(k[i], taken, before.maps, before.found)
      BY <1>1, <1>3, <1>9, <3>1
    <3>3. before \in Knowledge /\ t[next] = Learnt(before, next, arrived) /\ taken[next] = u
          /\ (u \in Arrived <=> u \in arrived)
      BY <1>4, <1>6, <1>7, <3>1
    <3> HIDE DEF before, u, next
    <3>4. k[i].crowded => k[i + 1].crowded
      BY <3>2, ReadDocumentCrowds
    <3>5. ASSUME Matches(k[i], taken, before.maps, before.found), ~k[i + 1].crowded
          PROVE  Matches(k[i + 1], taken, t[next].maps, t[next].found)
      <4>1. before.maps \in Seq(Url) /\ before.found \in Seq(Url)
        BY <3>3 DEF Knowledge
      <4>2. next \in DOMAIN before.maps /\ before.maps[next] = u
        <5>1. Len(before.maps) \in Nat /\ DOMAIN before.maps = 1 .. Len(before.maps)
          BY <4>1, LenProperties
        <5>2. Len(taken) <= Len(before.maps) /\ \A j \in 1 .. Len(taken) : before.maps[j] = taken[j]
          BY <3>5 DEF Matches
        <5> QED
          BY <1>1, <1>6, <3>1, <3>3, <5>1, <5>2
      <4>3. CASE u \in arrived
        <5>1. t[next] = [maps |-> Extended(before.maps, Site[u].locs, MapsIn(u)),
                         found |-> Extended(before.found, Site[u].locs, PagesIn(u))]
          BY <3>3, <4>2, <4>3 DEF Learnt
        <5>2. Matches(ReadDocument(k[i], u), taken,
                      Extended(before.maps, Site[u].locs, MapsIn(u)),
                      Extended(before.found, Site[u].locs, PagesIn(u)))
          BY <3>2, <3>3, <3>5, <4>1, <4>3, ReadDocumentMatches
        <5> QED
          BY <3>2, <5>1, <5>2
      <4>4. CASE u \notin arrived
        <5>1. t[next] = before
          BY <3>3, <4>2, <4>4 DEF Learnt
        <5>2. k[i + 1] = k[i]
          BY <3>2, <3>3, <4>4 DEF ReadDocument
        <5> QED
          BY <3>5, <5>1, <5>2
      <4> QED
        BY <4>3, <4>4
    <3>6. k[i + 1].crowded \/ Matches(k[i + 1], taken, t[next].maps, t[next].found)
      BY <3>2, <3>4, <3>5
    <3> QED
      BY <3>6 DEF next
  <2>2. CASE ~(i + 1 <= n)
    BY <1>1, <2>2
  <2> QED
    BY <2>1, <2>2
<1>10. Nat \subseteq P
  <2> HIDE DEF P
  <2> QED
    BY <1>8, <1>9, NatSetInduction
<1>11. k[n].crowded \/ Matches(k[n], taken, t[fetched + n].maps, t[fetched + n].found)
  <2>1. n \in P
    <3> HIDE DEF P
    <3> QED
      BY <1>1, <1>10
  <2>2. n <= n
    BY <1>1
  <2> QED
    BY <2>1, <2>2
<1> QED
  BY <1>2, <1>5, <1>11 DEF n, t, end

\* The links of the home page end the list, up to its limit.
LEMMA HomeMatches ==
  ASSUME NEW list \in Seq(Url)
  PROVE  WithHome(Limited(list)) = Limited(Extended(list, Site[Home].locs, OnSite \cap Wanted))
<1> DEFINE locs == Site[Home].locs
           n == Len(locs)
           members == OnSite \cap Wanted
           front == Limited(list)
<1>1. n \in Nat /\ locs \in Seq(Url) /\ \A i \in 1 .. n : locs[i] \in Url
  BY SiteFacts, LenProperties, ElementOfSeq
<1>2. front \in Seq(Url)
  BY LimitedTyped
<1>3. PICK k : ReadHomeBy(front, k) /\ k[n] = WithHome(front)
  BY <1>2, ReadHomeRuns
<1>4. PICK e : ExtendedBy(list, locs, members, e) /\ Extended(list, locs, members) = e[n]
  BY <1>1, ExtendedRuns
<1>5. /\ k[0] = front
      /\ \A i \in 1 .. n : k[i] = AddedUpTo(k[i - 1], locs[i])
  BY <1>3 DEF ReadHomeBy
<1>6. /\ e[0] = list /\ \A i \in 0 .. n : e[i] \in Seq(Url)
      /\ \A i \in 1 .. n : e[i] = Noted(e[i - 1], locs[i], members)
  BY <1>4 DEF ExtendedBy
<1>7. ASSUME NEW s \in Seq(Url), NEW u \in Url
      PROVE  AddedUpTo(Limited(s), u) = Limited(Noted(s, u, members))
  <2>1. Limited(Noted(s, u, members)) = IF Len(Limited(s)) >= PageLimit THEN Limited(s) ELSE Noted(s, u, members)
    BY LimitedNoted
  <2>2. CASE Len(Limited(s)) >= PageLimit
    BY <2>1, <2>2 DEF AddedUpTo
  <2>3. CASE ~(Len(Limited(s)) >= PageLimit)
    <3>1. Limited(s) = s
      <4>1. Len(s) \in Nat /\ PageLimit \in Nat /\ (Len(s) > PageLimit => Len(Limited(s)) = PageLimit)
            /\ (Len(s) <= PageLimit => Limited(s) = s)
        BY LimitedTyped, LenProperties, SiteFacts
      <4> QED
        BY <2>3, <4>1
    <3>2. Added(s, u) = Noted(s, u, members)
      BY DEF Added, Noted
    <3> QED
      BY <2>1, <2>3, <3>1, <3>2 DEF AddedUpTo
  <2> QED
    BY <2>2, <2>3
<1> DEFINE P == {i \in Nat : i <= n => k[i] = Limited(e[i])}
<1> HIDE DEF n, locs, members
<1>8. 0 \in P
  BY <1>5, <1>6
<1>9. ASSUME NEW i \in Nat, i \in P
      PROVE  i + 1 \in P
  <2>1. CASE i + 1 <= n
    <3>1. i \in 0 .. n /\ i + 1 \in 1 .. n /\ (i + 1) - 1 = i /\ i <= n
      BY <1>1, <2>1
    <3>2. /\ k[i] = Limited(e[i]) /\ e[i] \in Seq(Url) /\ locs[i + 1] \in Url
          /\ k[i + 1] = AddedUpTo(k[i], locs[i + 1])
          /\ e[i + 1] = Noted(e[i], locs[i + 1], members)
      BY <1>1, <1>5, <1>6, <1>9, <3>1
    <3>3. k[i + 1] = Limited(e[i + 1])
      BY <1>7, <3>2
    <3> QED
      BY <3>3
  <2>2. CASE ~(i + 1 <= n)
    BY <1>1, <2>2
  <2> QED
    BY <2>1, <2>2
<1>10. Nat \subseteq P
  <2> HIDE DEF P
  <2> QED
    BY <1>8, <1>9, NatSetInduction
<1>11. k[n] = Limited(e[n])
  BY <1>1, <1>10
<1> QED
  BY <1>3, <1>4, <1>11 DEF locs, members
-----------------------------------------------------------------------------
(* The invariant of the order *)

\* The sitemaps that were taken, those of the batch that loads included.
Took ==
  [i \in 1 .. fetched + Len(batch) |-> IF i <= fetched THEN gets[i + 1].url ELSE batch[i - fetched]]

TakenOnce == IsInjective(Took) /\ seen = Range(Took)

\* The documents in a set are those that arrived, as far as they were read.
AgreesOn(arrived) ==
  \A i \in 2 .. fetched + 1 : gets[i].stage = "kept" <=> gets[i].url \in arrived

\* What the traversal knows after the sitemaps that were read.
Known(arrived) == Traversal(Start, arrived)[fetched]

\* The sitemaps were taken in the order of the traversal, and the list is its
\* list; while more are taken, the queue holds those that follow.
InOrderSoFar(arrived) ==
  LET known == Known(arrived)
  IN /\ Len(Took) <= Len(known.maps) /\ \A i \in 1 .. Len(Took) : known.maps[i] = Took[i]
     /\ found = IF phase = "done" THEN Limited(Extended(known.found, HomeLinks, OnSite \cap Wanted))
                ELSE Limited(known.found)
     /\ IF phase \in {"fill", "batch"}
        THEN Len(found) < PageLimit /\ Extended(Took, toParse, OnSite) = known.maps
        ELSE Len(found) < PageLimit => fetched = MaxSitemaps \/ fetched = Len(known.maps)

\* Calls of _get, by phase: robots.txt, the sitemaps, the home page.
GetsInOrder ==
  /\ phase \in {"idle", "robots"} => seen = {} /\ batch = << >> /\ fetched = 0 /\ found = << >>
  /\ phase = "robots" => Len(gets) = 1
  /\ phase \in {"fill", "full"} => Len(gets) = fetched + 1
  /\ phase = "batch" =>
       /\ Len(gets) = fetched + 1 + Len(batch)
       /\ \A i \in 1 .. Len(batch) : gets[fetched + 1 + i].url = batch[i]
  /\ phase = "home" => Len(gets) = fetched + 2
  /\ phase = "done" /\ gets # << >> => Len(gets) > fetched

Reading == phase \in {"fill", "batch", "full", "home"} \/ (phase = "done" /\ gets # << >>)

\* Nothing is claimed of one set of documents only: those that arrive later may
\* be any.
OrderIInv ==
  /\ GetsInOrder
  /\ Reading => TakenOnce
  /\ Reading /\ ~crowded => \A arrived \in SUBSET Url : AgreesOn(arrived) => InOrderSoFar(arrived)

LEMMA OrderTyped ==
  ASSUME MapIInv
  PROVE  /\ fetched \in Nat /\ fetched \in 0 .. MaxSitemaps /\ fetched + Len(batch) \in 0 .. MaxSitemaps
         /\ batch \in Seq(Url) /\ Len(batch) \in Nat /\ DOMAIN batch = 1 .. Len(batch)
         /\ \A i \in 1 .. Len(batch) : batch[i] \in Url
         /\ toParse \in Seq(Url) /\ found \in Seq(Url) /\ Len(found) \in Nat /\ crowded \in BOOLEAN
         /\ Len(gets) \in Nat /\ DOMAIN gets = 1 .. Len(gets)
         /\ \A i \in 1 .. Len(gets) : gets[i].url \in Url /\ gets[i].stage \in Stage
         /\ Start \in Seq(Url)
         /\ \A arrived : Known(arrived) \in Knowledge
<1>1. MapTypeOK
  BY DEF MapIInv, HeldWithinBudget
<1>2. /\ batch \in Seq(Url) /\ Len(batch) \in Nat /\ DOMAIN batch = 1 .. Len(batch)
      /\ \A i \in 1 .. Len(batch) : batch[i] \in Url
  BY <1>1, LenProperties, ElementOfSeq DEF MapTypeOK
<1>3. /\ fetched \in Nat /\ fetched \in 0 .. MaxSitemaps /\ fetched + Len(batch) \in 0 .. MaxSitemaps
  BY <1>1, <1>2, SiteFacts DEF MapTypeOK, MapIInv, SeenCounted
<1>4. toParse \in Seq(Url) /\ found \in Seq(Url) /\ Len(found) \in Nat /\ crowded \in BOOLEAN
  BY <1>1, LenProperties DEF MapTypeOK
<1>5. /\ Len(gets) \in Nat /\ DOMAIN gets = 1 .. Len(gets)
      /\ \A i \in 1 .. Len(gets) : gets[i].url \in Url /\ gets[i].stage \in Stage
  BY <1>1, GetsTyped
<1>6. Start \in Seq(Url)
  <2>1. Site[Robots].locs \in Seq(Url) /\ Default \in Url
    BY SiteFacts
  <2>2. <<Default>> \in Seq(Url)
    BY <2>1
  <2> QED
    BY <2>1, <2>2 DEF Start
<1>7. \A arrived : Known(arrived) \in Knowledge
  BY <1>3, <1>6, TraversalSteps DEF Known
<1> QED
  BY <1>2, <1>3, <1>4, <1>5, <1>6, <1>7

\* The same as a function of its parts.
TookOf(f, b, g) == [i \in 1 .. f + Len(b) |-> IF i <= f THEN g[i + 1].url ELSE b[i - f]]

LEMMA TookOfTyped ==
  ASSUME NEW f \in Nat, NEW b \in Seq(Url), NEW g, \A i \in 1 .. f : g[i + 1].url \in Url
  PROVE  LET took == TookOf(f, b, g)
         IN /\ took \in Seq(Url) /\ Len(took) = f + Len(b) /\ Len(b) \in Nat
            /\ \A i \in 1 .. f : took[i] = g[i + 1].url
            /\ \A i \in 1 .. Len(b) : took[f + i] = b[i]
<1> DEFINE n == f + Len(b)
           T(i) == IF i <= f THEN g[i + 1].url ELSE b[i - f]
           took == TookOf(f, b, g)
<1>1. /\ took = [i \in 1 .. n |-> T(i)] /\ n \in Nat /\ Len(b) \in Nat
      /\ \A i \in 1 .. Len(b) : b[i] \in Url
  BY LenProperties, ElementOfSeq DEF TookOf
<1> HIDE DEF took
<1>2. ASSUME NEW i \in 1 .. n
      PROVE  T(i) \in Url
  <2>1. CASE i <= f
    <3>1. i \in 1 .. f
      BY <1>1, <2>1
    <3> QED
      BY <2>1, <3>1
  <2>2. CASE ~(i <= f)
    <3>1. i - f \in 1 .. Len(b)
      BY <1>1, <2>2
    <3> QED
      BY <1>1, <2>2, <3>1
  <2> QED
    BY <2>1, <2>2
<1>3. took \in [1 .. n -> Url]
  <2> HIDE DEF T, n
  <2> QED
    BY <1>1, <1>2
<1>4. took \in Seq(Url) /\ Len(took) = n
  <2> HIDE DEF n
  <2>1. took \in Seq(Url)
    BY <1>1, <1>3, SeqDef
  <2>2. DOMAIN took = 1 .. n
    BY <1>3
  <2> QED
    BY <1>1, <2>1, <2>2, LenProperties
<1>5. ASSUME NEW i \in 1 .. f
      PROVE  took[i] = g[i + 1].url
  <2>1. i \in 1 .. n /\ i <= f
    BY <1>1
  <2> QED
    BY <1>1, <2>1
<1>6. ASSUME NEW i \in 1 .. Len(b)
      PROVE  took[f + i] = b[i]
  <2>1. f + i \in 1 .. n /\ ~(f + i <= f) /\ (f + i) - f = i
    BY <1>1
  <2>2. took[f + i] = T(f + i)
    <3> HIDE DEF T, n
    <3> QED
      BY <1>1, <2>1
  <2> QED
    BY <2>1, <2>2
<1> QED
  BY <1>1, <1>4, <1>5, <1>6 DEF took

LEMMA TookTyped ==
  ASSUME MapIInv, fetched < Len(gets)
  PROVE  /\ Took = TookOf(fetched, batch, gets)
         /\ Took \in Seq(Url) /\ Len(Took) = fetched + Len(batch)
         /\ \A i \in 1 .. fetched : Took[i] = gets[i + 1].url
         /\ \A i \in 1 .. Len(batch) : Took[fetched + i] = batch[i]
<1>1. fetched \in Nat /\ batch \in Seq(Url) /\ Len(gets) \in Nat /\ \A i \in 1 .. Len(gets) : gets[i].url \in Url
  BY OrderTyped
<1>2. \A i \in 1 .. fetched : gets[i + 1].url \in Url
  <2>1. \A i \in 1 .. fetched : i + 1 \in 1 .. Len(gets)
    BY <1>1
  <2> QED
    BY <1>1, <2>1
<1>3. Took = TookOf(fetched, batch, gets)
  BY DEF Took, TookOf
<1>4. LET took == TookOf(fetched, batch, gets)
      IN /\ took \in Seq(Url) /\ Len(took) = fetched + Len(batch)
         /\ \A i \in 1 .. fetched : took[i] = gets[i + 1].url
         /\ \A i \in 1 .. Len(batch) : took[fetched + i] = batch[i]
  BY <1>1, <1>2, TookOfTyped
<1> QED
  BY <1>3, <1>4

\* What was read stays: so does what the traversal knows of it.
LEMMA SameKnown ==
  ASSUME fetched \in Nat, fetched' = fetched,
         \A i \in 1 .. fetched + 1 : /\ gets'[i].url = gets[i].url
                                     /\ gets'[i].stage = "kept" <=> gets[i].stage = "kept"
  PROVE  /\ Start' = Start
         /\ \A arrived : /\ AgreesOn(arrived)' <=> AgreesOn(arrived)
                         /\ Known(arrived)' = Known(arrived)
         /\ batch' = batch => Took' = Took
<1>1. 1 \in 1 .. fetched + 1 /\ \A i \in 2 .. fetched + 1 : i \in 1 .. fetched + 1
  OBVIOUS
<1>2. Start' = Start
  BY <1>1 DEF Start, RobotsArrived
<1>3. ASSUME NEW arrived
      PROVE  (AgreesOn(arrived)' <=> AgreesOn(arrived)) /\ Known(arrived)' = Known(arrived)
  BY <1>1, <1>2 DEF AgreesOn, Known
<1>4. ASSUME batch' = batch
      PROVE  Took' = Took
  <2> DEFINE n == fetched + Len(batch)
             T(i) == IF i <= fetched THEN gets[i + 1].url ELSE batch[i - fetched]
             U(i) == IF i <= fetched THEN gets'[i + 1].url ELSE batch[i - fetched]
  <2>1. Took = [i \in 1 .. n |-> T(i)] /\ Took' = [i \in 1 .. n |-> U(i)]
    BY <1>4 DEF Took
  <2>2. ASSUME NEW i \in 1 .. n
        PROVE  T(i) = U(i)
    <3>1. CASE i <= fetched
      <4>1. i + 1 \in 1 .. fetched + 1
        BY <3>1
      <4> QED
        BY <3>1, <4>1
    <3>2. CASE ~(i <= fetched)
      BY <3>2
    <3> QED
      BY <3>1, <3>2
  <2> HIDE DEF n, T, U
  <2> QED
    BY <2>1, <2>2
<1> QED
  BY <1>2, <1>3, <1>4

LEMMA OrderStart == MapInit => OrderIInv
<1> SUFFICES ASSUME MapInit
             PROVE  OrderIInv
  OBVIOUS
<1>1. ~Reading /\ GetsInOrder
  BY DEF MapInit, Reading, GetsInOrder
<1> QED
  BY <1>1 DEF OrderIInv

\* A step that takes no sitemap and adds nothing keeps the order, whatever the
\* phase it ends in claims of what is left.
LEMMA OrderStays ==
  ASSUME MapIInv, OrderIInv, Reading, fetched < Len(gets),
         UNCHANGED <<toParse, seen, batch, fetched, found, crowded>>,
         \A i \in 1 .. fetched + 1 : /\ gets'[i].url = gets[i].url
                                     /\ gets'[i].stage = "kept" <=> gets[i].stage = "kept",
         phase # "done", phase' # "done", GetsInOrder',
         \/ phase' = phase
         \/ phase = "fill" /\ phase' = "batch"
         \/ phase = "full" /\ phase' = "home"
         \/ /\ phase = "fill" /\ phase' = "full" /\ batch = << >>
            /\ toParse = << >> \/ fetched = MaxSitemaps
  PROVE  OrderIInv'
<1>1. /\ fetched \in Nat /\ Took' = Took
      /\ \A arrived : /\ AgreesOn(arrived)' <=> AgreesOn(arrived)
                      /\ Known(arrived)' = Known(arrived)
  BY OrderTyped, SameKnown
<1>2. TakenOnce'
  BY <1>1 DEF OrderIInv, TakenOnce
<1>3. ASSUME ~crowded, NEW arrived \in SUBSET Url, AgreesOn(arrived)
      PROVE  InOrderSoFar(arrived)'
  <2> DEFINE known == Known(arrived)
  <2>1. InOrderSoFar(arrived)
    BY <1>3 DEF OrderIInv
  <2>2. /\ Len(Took) <= Len(known.maps) /\ \A i \in 1 .. Len(Took) : known.maps[i] = Took[i]
        /\ found = Limited(known.found)
        /\ IF phase \in {"fill", "batch"}
           THEN Len(found) < PageLimit /\ Extended(Took, toParse, OnSite) = known.maps
           ELSE Len(found) < PageLimit => fetched = MaxSitemaps \/ fetched = Len(known.maps)
    BY <2>1 DEF InOrderSoFar
  <2>3. Known(arrived)' = known
    BY <1>1
  <2> HIDE DEF known
  <2>4. IF phase' \in {"fill", "batch"}
        THEN Len(found) < PageLimit /\ Extended(Took, toParse, OnSite) = known.maps
        ELSE Len(found) < PageLimit => fetched = MaxSitemaps \/ fetched = Len(known.maps)
    <3>1. CASE phase' = phase
      BY <2>2, <3>1
    <3>2. CASE phase = "fill" /\ phase' = "batch"
      BY <2>2, <3>2
    <3>3. CASE phase = "full" /\ phase' = "home"
      BY <2>2, <3>3
    <3>4. CASE phase = "fill" /\ phase' = "full" /\ batch = << >> /\ toParse = << >>
      <4>1. Took \in Seq(Url) /\ Len(Took) = fetched + Len(batch) /\ Len(batch) = 0
        BY <3>4, TookTyped, EmptySeq
      <4>2. Extended(Took, toParse, OnSite) = Took
        BY <3>4, <4>1, ExtendedEmpty
      <4>3. Len(known.maps) = fetched
        BY <1>1, <2>2, <3>4, <4>1, <4>2
      <4> QED
        BY <3>4, <4>3
    <3>5. CASE phase = "fill" /\ phase' = "full" /\ fetched = MaxSitemaps
      BY <3>5
    <3> QED
      BY <3>1, <3>2, <3>3, <3>4, <3>5
  <2> QED
    BY <1>1, <2>2, <2>3, <2>4 DEF InOrderSoFar
<1> QED
  BY <1>1, <1>2, <1>3 DEF OrderIInv
-----------------------------------------------------------------------------
(* Documents arrive *)

\* One call of _get moves, one that loads.
LEMMA OneMoves ==
  ASSUME MapIInv, NEW i \in DOMAIN gets, Chunk(i) \/ Arrives(i) \/ NotServed(i)
  PROVE  /\ i \in Loading
         /\ UNCHANGED <<phase, toParse, seen, batch, fetched, found, crowded>>
         /\ Len(gets') = Len(gets)
         /\ \A j \in 1 .. Len(gets) : gets'[j].url = gets[j].url /\ (j # i => gets'[j] = gets[j])
<1>1. \E stage, got : Becomes(i, stage, got)
  BY DEF Chunk, Arrives, NotServed, Charge, Inflate
<1>2. PICK stage, got : gets' = [gets EXCEPT ![i].stage = stage, ![i].got = got]
  BY <1>1 DEF Becomes
<1>3. /\ Len(gets) \in Nat /\ DOMAIN gets = 1 .. Len(gets)
      /\ \A j \in 1 .. Len(gets) : gets[j] = [url |-> gets[j].url, stage |-> gets[j].stage, got |-> gets[j].got]
  BY GetsTyped DEF MapIInv, HeldWithinBudget
<1> DEFINE moved == [[gets[i] EXCEPT !.stage = stage] EXCEPT !.got = got]
<1>4. gets' = [gets EXCEPT ![i] = moved]
  BY <1>2, <1>3
<1>5. moved.url = gets[i].url
  <2>1. PICK a, b, c : gets[i] = [url |-> a, stage |-> b, got |-> c]
    BY <1>3
  <2>2. [gets[i] EXCEPT !.stage = stage] = [url |-> a, stage |-> stage, got |-> c]
    BY <2>1
  <2>3. [[url |-> a, stage |-> stage, got |-> c] EXCEPT !.got = got] = [url |-> a, stage |-> stage, got |-> got]
    OBVIOUS
  <2>4. moved = [url |-> a, stage |-> stage, got |-> got]
    BY <2>2, <2>3
  <2> QED
    BY <2>1, <2>4
<1>6. MapTypeOK'
  <2>1. MapIInv'
    BY DocumentsKeep
  <2> QED
    BY <2>1 DEF MapIInv, HeldWithinBudget
<1>7. gets' \in Seq([url : Url, stage : Stage, got : Nat])
  BY <1>6 DEF MapTypeOK, Stage
<1> HIDE DEF moved
<1>8. DOMAIN gets' = DOMAIN gets /\ \A j \in DOMAIN gets : gets'[j] = IF j = i THEN moved ELSE gets[j]
  BY <1>3, <1>4
<1>9. Len(gets') = Len(gets)
  <2>1. Len(gets') \in Nat /\ DOMAIN gets' = 1 .. Len(gets')
    BY <1>7, LenProperties
  <2> QED
    BY <1>3, <1>8, <2>1
<1>10. i \in Loading /\ UNCHANGED <<phase, toParse, seen, batch, fetched, found, crowded>>
  BY DEF Chunk, Arrives, NotServed
<1> QED
  BY <1>3, <1>5, <1>8, <1>9, <1>10

\* What loads was not read.
LEMMA LoadsBehind ==
  ASSUME MapIInv, OrderIInv, NEW i \in Loading
  PROVE  /\ phase \in {"robots", "batch", "home"} /\ i \in 1 .. Len(gets)
         /\ phase # "robots" => i > fetched + 1 /\ Len(gets) > fetched
<1>1. phase \in {"robots", "batch", "home"}
  BY NothingLoads
<1>2. i \in 1 .. Len(gets) /\ i > Len(gets) - Width /\ Len(gets) \in Nat /\ fetched \in Nat /\ Len(batch) \in Nat
  BY OrderTyped DEF Loading, MapIInv, LoadsLast
<1>3. CASE phase = "batch"
  BY <1>2, <1>3 DEF Width, OrderIInv, GetsInOrder
<1>4. CASE phase = "home"
  BY <1>2, <1>4 DEF Width, OrderIInv, GetsInOrder
<1> QED
  BY <1>1, <1>2, <1>3, <1>4

LEMMA DocumentsInOrder ==
  ASSUME MapIInv, OrderIInv, NEW i \in DOMAIN gets, Chunk(i) \/ Arrives(i) \/ NotServed(i)
  PROVE  OrderIInv'
<1>1. /\ i \in Loading
      /\ UNCHANGED <<phase, toParse, seen, batch, fetched, found, crowded>>
      /\ Len(gets') = Len(gets)
      /\ \A j \in 1 .. Len(gets) : gets'[j].url = gets[j].url /\ (j # i => gets'[j] = gets[j])
  BY OneMoves
<1>2. /\ phase \in {"robots", "batch", "home"} /\ i \in 1 .. Len(gets)
      /\ phase # "robots" => i > fetched + 1 /\ Len(gets) > fetched
  BY <1>1, LoadsBehind
<1>3. Len(gets) \in Nat /\ fetched \in Nat /\ Len(batch) \in Nat
  BY OrderTyped
<1>4. GetsInOrder'
  <2>1. phase = "batch" => \A j \in 1 .. Len(batch) : gets'[fetched + 1 + j].url = batch[j]
    <3> SUFFICES ASSUME phase = "batch", NEW j \in 1 .. Len(batch)
                 PROVE  gets'[fetched + 1 + j].url = batch[j]
      OBVIOUS
    <3>1. Len(gets) = fetched + 1 + Len(batch) /\ gets[fetched + 1 + j].url = batch[j]
      BY DEF OrderIInv, GetsInOrder
    <3>2. fetched + 1 + j \in 1 .. Len(gets)
      BY <1>3, <3>1
    <3> QED
      BY <1>1, <3>1, <3>2
  <2> QED
    BY <1>1, <1>2, <2>1 DEF OrderIInv, GetsInOrder
<1>5. CASE phase = "robots"
  BY <1>1, <1>4, <1>5 DEF OrderIInv, Reading
<1>6. CASE phase # "robots"
  <2>1. \A j \in 1 .. fetched + 1 : j \in 1 .. Len(gets) /\ j # i
    BY <1>2, <1>3, <1>6
  <2>2. Reading /\ phase # "done"
    BY <1>2, <1>6 DEF Reading
  <2> QED
    BY <1>1, <1>2, <1>4, <1>6, <2>1, <2>2, OrderStays
<1> QED
  BY <1>5, <1>6
-----------------------------------------------------------------------------
(* The call itself *)

LEMMA BeginsInOrder ==
  ASSUME MapIInv, OrderIInv, MapCalled \/ MapRefused \/ Deadline
  PROVE  OrderIInv'
<1>1. CASE MapCalled
  <2>1. Len(gets') = 1
    BY <1>1 DEF MapCalled
  <2> QED
    BY <1>1, <2>1 DEF MapCalled, OrderIInv, GetsInOrder, Reading
<1>2. CASE MapRefused
  <2>1. gets' = << >>
    BY <1>2 DEF MapRefused, MapIInv
  <2> QED
    BY <1>2, <2>1 DEF MapRefused, OrderIInv, GetsInOrder, Reading
<1>3. CASE Deadline
  BY <1>3 DEF Deadline, OrderIInv, GetsInOrder, Reading
<1> QED
  BY <1>1, <1>2, <1>3

\* The queue begins with what the traversal begins with.
LEMMA ReadRobotsInOrder ==
  ASSUME MapIInv, OrderIInv, ReadRobots
  PROVE  OrderIInv'
<1>1. /\ phase = "robots" /\ phase' = "fill" /\ toParse' = Start
      /\ UNCHANGED <<seen, batch, fetched, found, gets, remaining, crowded>>
  BY DEF ReadRobots, Start, RobotsArrived
<1>2. /\ seen = {} /\ batch = << >> /\ fetched = 0 /\ found = << >> /\ Len(gets) = 1
  BY <1>1 DEF OrderIInv, GetsInOrder
<1>3. GetsInOrder'
  BY <1>1, <1>2 DEF GetsInOrder
<1>4. Took' = << >> /\ << >> \in Seq(Url) /\ Len(<< >>) = 0 /\ Len(Took') = 0
  <2>1. Took = << >>
    <3>1. Took \in Seq(Url) /\ Len(Took) = 0
      BY <1>2, TookTyped, EmptySeq
    <3> QED
      BY <3>1, EmptySeq
  <2>2. Took' = Took
    BY <1>1 DEF Took
  <2> QED
    BY <2>1, <2>2, EmptySeq
<1>5. TakenOnce'
  BY <1>1, <1>2, <1>4 DEF TakenOnce, Range, IsInjective
<1>6. ASSUME NEW arrived
      PROVE  InOrderSoFar(arrived)'
  <2> DEFINE known == Traversal(Start, arrived)[0]
             m == Extended(<< >>, Start, OnSite)
  <2>1. Start' = Start /\ Start \in Seq(Url)
    BY <1>1, OrderTyped DEF Start, RobotsArrived
  <2>2. Known(arrived)' = known
    BY <1>1, <1>2, <2>1 DEF Known
  <2>3. known.maps = m /\ known.found = << >>
    <3>1. known = [maps |-> m, found |-> << >>]
      BY <2>1, TraversalSteps
    <3> QED
      BY <3>1
  <2>4. m \in Seq(Url) /\ Len(m) \in Nat
    BY <1>4, <2>1, ExtendedKeeps
  <2>5. Limited(<< >>) = << >> /\ 0 < PageLimit
    <3> DEFINE none == << >>
    <3>1. none \in Seq(Url) /\ Len(none) = 0 /\ PageLimit \in Nat \ {0}
      BY <1>4, SiteFacts
    <3> HIDE DEF none
    <3>2. Limited(none) = none
      BY <3>1 DEF Limited
    <3> QED
      BY <3>1, <3>2 DEF none
  <2> HIDE DEF known, m
  <2>6. Extended(Took', toParse', OnSite) = m
    BY <1>1, <1>4 DEF m
  <2>7. found' = << >> /\ Len(found') = 0
    BY <1>1, <1>2, <1>4
  <2>8. Len(Took') <= Len(m) /\ \A j \in 1 .. Len(Took') : m[j] = Took'[j]
    BY <1>4, <2>4
  <2> QED
    BY <1>1, <2>2, <2>3, <2>5, <2>6, <2>7, <2>8 DEF InOrderSoFar
<1> QED
  BY <1>3, <1>5, <1>6 DEF OrderIInv

\* The next of the queue is skipped, or it is the next of the traversal.
LEMMA FillOneInOrder ==
  ASSUME MapIInv, MapIInv', OrderIInv, FillOne
  PROVE  OrderIInv'
<1> DEFINE u == Head(toParse)
           n == fetched + Len(batch)
<1>1. /\ phase = "fill" /\ phase' = "fill" /\ toParse # << >> /\ toParse' = Tail(toParse)
      /\ UNCHANGED <<fetched, found, gets, remaining, crowded>>
      /\ IF u \in OnSite \ seen THEN seen' = seen \cup {u} /\ batch' = Append(batch, u) ELSE UNCHANGED <<seen, batch>>
  BY DEF FillOne, Filling, Rest
<1>2. Len(gets) = fetched + 1 /\ Reading /\ TakenOnce /\ fetched \in Nat /\ Len(batch) \in Nat
      /\ toParse \in Seq(Url) /\ u \in Url
  <2>1. toParse \in Seq(Url) /\ fetched \in Nat /\ Len(batch) \in Nat
    BY OrderTyped
  <2>2. u \in Url
    BY <1>1, <2>1, HeadTailProperties
  <2> QED
    BY <1>1, <2>1, <2>2 DEF OrderIInv, GetsInOrder, Reading
<1>3. GetsInOrder'
  BY <1>1, <1>2 DEF GetsInOrder
<1>4. /\ Took \in Seq(Url) /\ Len(Took) = n
      /\ \A i \in 1 .. fetched : Took[i] = gets[i + 1].url
      /\ \A i \in 1 .. Len(batch) : Took[fetched + i] = batch[i]
  <2>1. fetched < Len(gets)
    BY <1>2
  <2> QED
    BY <2>1, TookTyped
<1>5. Took' = Noted(Took, u, OnSite)
  <2>1. CASE u \in OnSite \ seen
    <3>1. Noted(Took, u, OnSite) = Append(Took, u)
      BY <1>2, <2>1 DEF Noted, TakenOnce
    <3>2. /\ Took' \in Seq(Url) /\ Len(Took') = fetched + Len(batch')
          /\ \A i \in 1 .. fetched : Took'[i] = gets[i + 1].url
          /\ \A i \in 1 .. Len(batch') : Took'[fetched + i] = batch'[i]
      <4>1. batch' \in Seq(Url)
        <5>1. batch \in Seq(Url) /\ batch' = Append(batch, u)
          BY <1>1, <2>1, OrderTyped
        <5> HIDE DEF u
        <5> QED
          BY <1>2, <5>1, AppendProperties
      <4>2. \A i \in 1 .. fetched : gets[i + 1].url \in Url
        <5>1. \A i \in 1 .. fetched : i + 1 \in 1 .. Len(gets)
          BY <1>2
        <5> QED
          BY <5>1, OrderTyped
      <4>3. Took' = TookOf(fetched, batch', gets)
        BY <1>1 DEF Took, TookOf
      <4>4. PICK b : b = batch'
        OBVIOUS
      <4>5. LET took == TookOf(fetched, b, gets)
            IN /\ took \in Seq(Url) /\ Len(took) = fetched + Len(b)
               /\ \A i \in 1 .. fetched : took[i] = gets[i + 1].url
               /\ \A i \in 1 .. Len(b) : took[fetched + i] = b[i]
        <5>1. b \in Seq(Url) /\ fetched \in Nat
          BY <1>2, <4>1, <4>4
        <5> QED
          BY <4>2, <5>1, TookOfTyped
      <4> QED
        BY <4>3, <4>4, <4>5
    <3>3. Len(batch') = Len(batch) + 1 /\ batch'[Len(batch) + 1] = u
          /\ \A i \in 1 .. Len(batch) : batch'[i] = batch[i]
      <4>1. batch \in Seq(Url) /\ batch' = Append(batch, u)
        BY <1>1, <2>1, OrderTyped
      <4> HIDE DEF u
      <4> QED
        BY <1>2, <4>1, AppendProperties
    <3>4. /\ Append(Took, u) \in Seq(Url) /\ Len(Append(Took, u)) = n + 1 /\ Append(Took, u)[n + 1] = u
          /\ \A i \in 1 .. n : Append(Took, u)[i] = Took[i]
      BY <1>2, <1>4, AppendProperties
    <3> DEFINE a == Append(Took, u)
    <3>5. ASSUME NEW i \in 1 .. n + 1
          PROVE  Took'[i] = a[i]
      <4>1. CASE i \in 1 .. fetched
        <5>1. i \in 1 .. n
          BY <1>2, <4>1
        <5> QED
          BY <1>4, <3>2, <3>4, <4>1, <5>1
      <4>2. CASE i \in fetched + 1 .. n
        <5>1. i - fetched \in 1 .. Len(batch) /\ i - fetched \in 1 .. Len(batch') /\ fetched + (i - fetched) = i /\ i \in 1 .. n
          BY <1>2, <3>3, <4>2
        <5>2. Took'[i] = batch[i - fetched] /\ Took[i] = batch[i - fetched]
          BY <1>4, <3>2, <3>3, <5>1
        <5> QED
          BY <3>4, <5>1, <5>2
      <4>3. CASE i = n + 1
        <5>1. Len(batch) + 1 \in 1 .. Len(batch') /\ fetched + (Len(batch) + 1) = i
          BY <1>2, <3>3, <4>3
        <5>2. Took'[i] = u
          BY <3>2, <3>3, <5>1
        <5> QED
          BY <3>4, <4>3, <5>2
      <4>4. i \in 1 .. fetched \/ i \in fetched + 1 .. n \/ i = n + 1
        <5>1. fetched \in Nat /\ n \in Nat /\ i \in 1 .. n + 1
          BY <1>2, <3>5
        <5> HIDE DEF n
        <5> QED
          BY <5>1
      <4> QED
        BY <4>1, <4>2, <4>3, <4>4
    <3>6. Len(Took') = n + 1 /\ n \in Nat
      BY <1>2, <3>2, <3>3
    <3> HIDE DEF a, n
    <3>7. Took' = a
      BY <3>2, <3>4, <3>5, <3>6, SeqEqual DEF a
    <3> QED
      BY <3>1, <3>7 DEF a
  <2>2. CASE u \notin OnSite \ seen
    <3>1. Took' = Took
      BY <1>1, <2>2 DEF Took
    <3>2. Noted(Took, u, OnSite) = Took
      BY <1>2, <2>2 DEF Noted, TakenOnce
    <3> QED
      BY <3>1, <3>2
  <2> QED
    BY <2>1, <2>2
<1> HIDE DEF u, n
<1>6. TakenOnce'
  <2>1. IsInjective(Took')
    BY <1>2, <1>4, <1>5, NotedTyped DEF TakenOnce
  <2>2. seen' = Range(Took')
    <3>1. CASE u \in OnSite \ seen
      <4>1. Took' = Append(Took, u)
        BY <1>2, <1>5, <3>1 DEF Noted, TakenOnce
      <4>2. Range(Took') = Range(Took) \cup {u}
        BY <1>2, <1>4, <4>1, AppendRange
      <4> QED
        BY <1>1, <1>2, <3>1, <4>2 DEF TakenOnce, u
    <3>2. CASE u \notin OnSite \ seen
      <4>1. Took' = Took
        BY <1>2, <1>5, <3>2 DEF Noted, TakenOnce
      <4> QED
        BY <1>1, <1>2, <3>2, <4>1 DEF TakenOnce, u
    <3> QED
      BY <3>1, <3>2
  <2> QED
    BY <2>1, <2>2 DEF TakenOnce
<1>7. ASSUME ~crowded, NEW arrived \in SUBSET Url, AgreesOn(arrived)'
      PROVE  InOrderSoFar(arrived)'
  <2> DEFINE known == Known(arrived)
  <2>1. AgreesOn(arrived) /\ Known(arrived)' = known
    BY <1>1, <1>7 DEF AgreesOn, Known, Start, RobotsArrived
  <2>2. InOrderSoFar(arrived)
    BY <1>2, <1>7, <2>1 DEF OrderIInv
  <2>3. /\ found = Limited(known.found) /\ Len(found) < PageLimit
        /\ Extended(Took, toParse, OnSite) = known.maps
    BY <1>1, <2>2 DEF InOrderSoFar
  <2> HIDE DEF known
  <2>4. Extended(Took', toParse', OnSite) = known.maps
    BY <1>1, <1>2, <1>4, <1>5, <2>3, ExtendedHead DEF u
  <2>5. Took' \in Seq(Url) /\ toParse' \in Seq(Url)
    BY <1>1, <1>2, <1>4, <1>5, NotedTyped, HeadTailProperties
  <2>6. Len(Took') <= Len(known.maps) /\ \A i \in 1 .. Len(Took') : known.maps[i] = Took'[i]
    BY <2>4, <2>5, ExtendedKeeps
  <2> QED
    BY <1>1, <2>1, <2>3, <2>4, <2>6 DEF InOrderSoFar
<1> QED
  BY <1>1, <1>3, <1>6, <1>7 DEF OrderIInv

\* The batch is fetched behind what was.
LEMMA StartBatchInOrder ==
  ASSUME MapIInv, OrderIInv, StartBatch
  PROVE  OrderIInv'
<1>1. /\ phase = "fill" /\ phase' = "batch"
      /\ UNCHANGED <<toParse, seen, batch, fetched, found, remaining, crowded>>
  BY DEF StartBatch
<1>2. Len(gets) = fetched + 1 /\ Reading /\ fetched \in Nat /\ Len(batch) \in Nat
  BY <1>1, OrderTyped DEF OrderIInv, GetsInOrder, Reading
<1>3. /\ Len(gets') = Len(gets) + Len(batch)
      /\ \A i \in 1 .. Len(gets) : gets'[i] = gets[i]
      /\ \A i \in 1 .. Len(gets) + Len(batch) : i > Len(gets) => gets'[i] = Get(batch[i - Len(gets)])
  BY BatchLoads
<1>4. ASSUME NEW i \in 1 .. Len(batch)
      PROVE  gets'[fetched + 1 + i].url = batch[i]
  <2> DEFINE j == fetched + 1 + i
  <2>1. j \in 1 .. Len(gets) + Len(batch) /\ j > Len(gets) /\ j - Len(gets) = i
    BY <1>2
  <2> HIDE DEF j
  <2>2. gets'[j] = Get(batch[i])
    BY <1>3, <2>1
  <2>3. Get(batch[i]).url = batch[i]
    BY DEF Get
  <2> QED
    BY <2>2, <2>3 DEF j
<1>5. GetsInOrder'
  BY <1>1, <1>2, <1>3, <1>4 DEF GetsInOrder
<1>6. \A i \in 1 .. fetched + 1 : gets'[i] = gets[i]
  BY <1>2, <1>3
<1> QED
  BY <1>1, <1>2, <1>5, <1>6, OrderStays

\* A batch is read as the traversal takes its sitemaps.
LEMMA ReadBatchInOrder ==
  ASSUME MapIInv, OrderIInv, ReadBatch
  PROVE  OrderIInv'
<1> DEFINE start == [queue |-> toParse, found |-> found, crowded |-> crowded]
           acc == FoldLeft(ReadDocument, start, InOrder(batch))
           n == fetched + Len(batch)
<1>1. /\ phase = "batch" /\ toParse' = acc.queue /\ found' = acc.found /\ crowded' = acc.crowded
      /\ fetched' = n /\ batch' = << >>
      /\ UNCHANGED <<seen, gets, remaining>>
      /\ phase' = IF acc.queue # << >> /\ Len(acc.found) < PageLimit /\ n < MaxSitemaps THEN "fill" ELSE "full"
  BY DEF ReadBatch
<1>2. /\ Len(gets) = n + 1 /\ \A i \in 1 .. Len(batch) : gets[fetched + 1 + i].url = batch[i]
      /\ Reading /\ TakenOnce
  <2>1. Len(gets) = fetched + 1 + Len(batch) /\ \A i \in 1 .. Len(batch) : gets[fetched + 1 + i].url = batch[i]
    BY <1>1 DEF OrderIInv, GetsInOrder
  <2>2. fetched + 1 + Len(batch) = n + 1
    BY OrderTyped
  <2> QED
    BY <1>1, <2>1, <2>2 DEF OrderIInv, Reading
<1>3. /\ fetched \in Nat /\ Len(batch) \in Nat /\ n \in 0 .. MaxSitemaps /\ n \in Nat /\ MaxSitemaps \in Nat /\ PageLimit \in Nat
      /\ batch \in Seq(Url) /\ DOMAIN gets = 1 .. Len(gets) /\ Start \in Seq(Url)
  BY OrderTyped, SiteFacts
<1>4. start \in Lists /\ acc \in Lists
  <2>1. start \in Lists
    BY OrderTyped DEF Lists
  <2> HIDE DEF start
  <2> QED
    BY <1>3, <2>1, ReadBatchTyped
<1>5. /\ acc.queue \in Seq(Url) /\ acc.found \in Seq(Url) /\ Len(acc.found) \in Nat
      /\ start.queue = toParse /\ start.found = found /\ start.crowded = crowded
  <2>1. start.queue = toParse /\ start.found = found /\ start.crowded = crowded
    OBVIOUS
  <2> HIDE DEF acc, start
  <2> QED
    BY <1>4, <2>1, LenProperties DEF Lists
<1> HIDE DEF acc, start
<1>6. /\ Took \in Seq(Url) /\ Len(Took) = n
      /\ \A i \in 1 .. fetched : Took[i] = gets[i + 1].url
      /\ \A i \in 1 .. Len(batch) : Took[fetched + i] = batch[i]
  <2>1. fetched < Len(gets)
    BY <1>2, <1>3
  <2> QED
    BY <2>1, TookTyped
<1>7. Took' = Took
  <2> DEFINE none == << >>
  <2>1. none \in Seq(Url) /\ Len(none) = 0
    BY EmptySeq
  <2>2. Took' = TookOf(n, none, gets)
    BY <1>1 DEF Took, TookOf
  <2>3. \A i \in 1 .. n : gets[i + 1].url \in Url
    <3>1. \A i \in 1 .. n : i + 1 \in 1 .. Len(gets)
      BY <1>2, <1>3
    <3> QED
      BY <3>1, OrderTyped
  <2> HIDE DEF none, n
  <2>4. /\ Took' \in Seq(Url) /\ Len(Took') = n
        /\ \A i \in 1 .. n : Took'[i] = gets[i + 1].url
    <3>1. LET took == TookOf(n, none, gets)
          IN /\ took \in Seq(Url) /\ Len(took) = n + Len(none)
             /\ \A i \in 1 .. n : took[i] = gets[i + 1].url
      <4>1. n \in Nat /\ none \in Seq(Url) /\ \A i \in 1 .. n : gets[i + 1].url \in Url
        BY <1>3, <2>1, <2>3
      <4> QED
        BY <4>1, TookOfTyped
    <3>2. n + Len(none) = n
      BY <1>3, <2>1
    <3> QED
      BY <2>2, <3>1, <3>2
  <2>5. ASSUME NEW i \in 1 .. n
        PROVE  Took'[i] = Took[i]
    <3>1. CASE i \in 1 .. fetched
      BY <1>6, <2>4, <3>1
    <3>2. CASE i \notin 1 .. fetched
      <4>1. i - fetched \in 1 .. Len(batch) /\ fetched + (i - fetched) = i /\ fetched + 1 + (i - fetched) = i + 1
        BY <1>3, <3>2 DEF n
      <4>2. Took[i] = batch[i - fetched] /\ gets[i + 1].url = batch[i - fetched]
        BY <1>2, <1>6, <4>1
      <4> QED
        BY <2>4, <4>2
    <3> QED
      BY <3>1, <3>2
  <2> QED
    BY <1>6, <2>4, <2>5, SeqEqual
<1>8. TakenOnce'
  BY <1>1, <1>2, <1>7 DEF TakenOnce
<1>9. GetsInOrder'
  BY <1>1, <1>2 DEF GetsInOrder
<1>10. ASSUME ~acc.crowded, NEW arrived \in SUBSET Url, AgreesOn(arrived)'
       PROVE  InOrderSoFar(arrived)'
  <2> DEFINE t == Traversal(Start, arrived)
             known == t[n]
  <2>1. Known(arrived)' = known
    BY <1>1 DEF Known, Start, RobotsArrived
  <2>2. \A i \in 2 .. n + 1 : gets[i].stage = "kept" <=> gets[i].url \in arrived
    BY <1>1, <1>10 DEF AgreesOn
  <2>3. AgreesOn(arrived)
    <3>1. \A i \in 2 .. fetched + 1 : i \in 2 .. n + 1
      BY <1>3
    <3> QED
      BY <2>2, <3>1 DEF AgreesOn
  <2>4. ASSUME NEW i \in 1 .. Len(batch)
        PROVE  batch[i] \in Arrived <=> batch[i] \in arrived
    <3> DEFINE k == fetched + 1 + i
    <3>1. k \in 2 .. n + 1 /\ gets[k].url = batch[i] /\ k \in Len(gets) - Len(batch) + 1 .. Len(gets)
      BY <1>2, <1>3
    <3>2. batch[i] \in arrived => batch[i] \in Arrived
      <4> HIDE DEF k
      <4> QED
        BY <2>2, <3>1 DEF Arrived
    <3>3. ASSUME batch[i] \in Arrived
          PROVE  batch[i] \in arrived
      <4>1. PICK j \in Len(gets) - Len(batch) + 1 .. Len(gets) : gets[j].stage = "kept" /\ gets[j].url = batch[i]
        BY <3>3 DEF Arrived
      <4>2. j \in 2 .. n + 1
        BY <1>2, <1>3
      <4> QED
        BY <2>2, <4>1, <4>2
    <3> QED
      BY <3>2, <3>3
  <2>5. ~crowded
    <3>1. PICK k : ReadBatchBy(start, k) /\ k[Len(batch)] = acc
      BY <1>3, <1>4, ReadBatchRuns DEF acc
    <3> DEFINE P == {i \in Nat : i <= Len(batch) => (crowded => k[i].crowded)}
    <3>2. /\ k[0] = start /\ \A i \in 0 .. Len(batch) : k[i] \in Lists
          /\ \A i \in 1 .. Len(batch) : k[i] = ReadDocument(k[i - 1], batch[i])
      BY <3>1 DEF ReadBatchBy
    <3>3. 0 \in P
      BY <1>5, <3>2
    <3>4. ASSUME NEW i \in Nat, i \in P
          PROVE  i + 1 \in P
      <4>1. CASE i + 1 <= Len(batch)
        <5>1. i \in 0 .. Len(batch) /\ i + 1 \in 1 .. Len(batch) /\ (i + 1) - 1 = i /\ i <= Len(batch)
          BY <1>3, <4>1
        <5>2. k[i] \in Lists /\ (crowded => k[i].crowded) /\ batch[i + 1] \in Url
              /\ k[i + 1] = ReadDocument(k[i], batch[i + 1])
          BY <3>2, <3>4, <5>1, OrderTyped
        <5>3. crowded => k[i + 1].crowded
          BY <5>2, ReadDocumentCrowds
        <5> QED
          BY <5>3
      <4>2. CASE ~(i + 1 <= Len(batch))
        BY <1>3, <4>2
      <4> QED
        BY <4>1, <4>2
    <3>5. Nat \subseteq P
      <4> HIDE DEF P
      <4> QED
        BY <3>3, <3>4, NatSetInduction
    <3>6. crowded => k[Len(batch)].crowded
      BY <1>3, <3>5
    <3> QED
      BY <1>10, <3>1, <3>6
  <2>6. InOrderSoFar(arrived)
    BY <1>2, <2>3, <2>5 DEF OrderIInv
  <2>7. Matches(start, Took, t[fetched].maps, t[fetched].found)
    BY <1>1, <1>5, <2>6 DEF InOrderSoFar, Known, Matches
  <2>8. Matches(acc, Took, t[n].maps, t[n].found)
    <3>1. fetched + Len(batch) <= MaxSitemaps /\ Len(Took) = fetched + Len(batch)
      BY <1>3, <1>6
    <3>2. ~FoldLeft(ReadDocument, start, InOrder(batch)).crowded
      BY <1>10 DEF acc
    <3> QED
      BY <1>3, <1>4, <1>6, <2>4, <2>7, <3>1, <3>2, ReadBatchMatches DEF acc
  <2>9. t[n] \in Knowledge /\ known.maps \in Seq(Url) /\ Len(known.maps) \in Nat
    <3>1. t \in [0 .. MaxSitemaps -> Knowledge] /\ n \in 0 .. MaxSitemaps
      BY <1>3, TraversalSteps
    <3> HIDE DEF t, n
    <3>2. known \in Knowledge
      BY <3>1
    <3> HIDE DEF known
    <3>3. known.maps \in Seq(Url)
      BY <3>2 DEF Knowledge
    <3>4. Len(known.maps) \in Nat
      BY <3>3, LenProperties
    <3> QED
      BY <3>2, <3>3, <3>4 DEF known
  <2> HIDE DEF t, n
  <2>10. /\ acc.found = Limited(known.found)
         /\ Len(Took) <= Len(known.maps) /\ \A i \in 1 .. Len(Took) : known.maps[i] = Took[i]
         /\ Len(acc.found) < PageLimit => Extended(Took, acc.queue, OnSite) = known.maps
    BY <2>8 DEF Matches
  <2>11. IF phase' \in {"fill", "batch"}
         THEN Len(acc.found) < PageLimit /\ Extended(Took, acc.queue, OnSite) = known.maps
         ELSE Len(acc.found) < PageLimit => n = MaxSitemaps \/ n = Len(known.maps)
    <3>1. CASE acc.queue # << >> /\ Len(acc.found) < PageLimit /\ n < MaxSitemaps
      BY <1>1, <2>10, <3>1
    <3>2. CASE ~(acc.queue # << >> /\ Len(acc.found) < PageLimit /\ n < MaxSitemaps)
      <4>1. ASSUME acc.queue = << >>, Len(acc.found) < PageLimit
            PROVE  n = Len(known.maps)
        <5>1. Extended(Took, acc.queue, OnSite) = Took
          BY <1>6, <4>1, ExtendedEmpty
        <5> QED
          BY <1>6, <2>10, <4>1, <5>1
      <4>2. n >= MaxSitemaps => n = MaxSitemaps
        BY <1>3
      <4> QED
        BY <1>1, <1>3, <3>2, <4>1, <4>2
    <3> QED
      BY <3>1, <3>2
  <2>12. phase' # "done"
    BY <1>1
  <2> HIDE DEF known
  <2> QED
    BY <1>1, <1>7, <2>1, <2>10, <2>11, <2>12 DEF InOrderSoFar
<1> QED
  BY <1>1, <1>8, <1>9, <1>10 DEF OrderIInv

\* The sitemaps are done.
LEMMA GoesOnInOrder ==
  ASSUME MapIInv, OrderIInv, NothingToFetch \/ StartHome
  PROVE  OrderIInv'
<1>0. /\ fetched \in Nat /\ fetched + Len(batch) \in 0 .. MaxSitemaps /\ Len(batch) \in Nat /\ Len(gets) \in Nat
      /\ MaxSitemaps \in Nat /\ Concurrency \in Nat \ {0}
  BY OrderTyped, SiteFacts
<1>1. CASE NothingToFetch
  <2>1. /\ phase = "fill" /\ phase' = "full" /\ batch = << >> /\ ~Filling
        /\ UNCHANGED <<toParse, seen, batch, fetched, found, gets, remaining, crowded>>
    BY <1>1 DEF NothingToFetch
  <2>2. Len(batch) = 0
    BY <2>1, EmptySeq
  <2>3. toParse = << >> \/ fetched = MaxSitemaps
    BY <1>0, <2>1, <2>2 DEF Filling, RoomInBatch
  <2>4. Len(gets) = fetched + 1 /\ Reading
    BY <2>1 DEF OrderIInv, GetsInOrder, Reading
  <2>5. GetsInOrder'
    BY <2>1, <2>4 DEF GetsInOrder
  <2>6. fetched < Len(gets)
    BY <1>0, <2>4
  <2> QED
    BY <2>1, <2>3, <2>4, <2>5, <2>6, OrderStays
<1>2. CASE StartHome
  <2>1. /\ phase = "full" /\ phase' = "home"
        /\ UNCHANGED <<toParse, seen, batch, fetched, found, remaining, crowded>>
    BY <1>2 DEF StartHome
  <2>2. Len(gets) = fetched + 1 /\ Reading
    BY <2>1 DEF OrderIInv, GetsInOrder, Reading
  <2>3. Len(gets') = Len(gets) + 1 /\ \A i \in 1 .. Len(gets) : gets'[i] = gets[i]
    BY <1>2, HomeLoads
  <2>4. GetsInOrder'
    BY <1>0, <2>1, <2>2, <2>3 DEF GetsInOrder
  <2>5. fetched < Len(gets) /\ \A i \in 1 .. fetched + 1 : gets'[i] = gets[i]
    BY <1>0, <2>2, <2>3
  <2> QED
    BY <2>1, <2>2, <2>4, <2>5, OrderStays
<1> QED
  BY <1>1, <1>2

\* The list is full, or the links of the home page end it.
LEMMA EndsInOrder ==
  ASSUME MapIInv, OrderIInv, Full \/ ReadHome
  PROVE  OrderIInv'
<1>0. /\ phase \in {"full", "home"} /\ phase' = "done"
      /\ UNCHANGED <<toParse, seen, batch, fetched, gets, remaining, crowded>>
  BY DEF Full, ReadHome
<1>1. /\ fetched \in Nat /\ Len(gets) \in Nat /\ DOMAIN gets = 1 .. Len(gets) /\ PageLimit \in Nat \ {0}
      /\ Len(found) \in Nat /\ Reading /\ fetched < Len(gets)
  <2>1. Reading /\ (phase = "full" => Len(gets) = fetched + 1) /\ (phase = "home" => Len(gets) = fetched + 2)
    BY <1>0 DEF OrderIInv, GetsInOrder, Reading
  <2>2. /\ fetched \in Nat /\ Len(gets) \in Nat /\ DOMAIN gets = 1 .. Len(gets) /\ PageLimit \in Nat \ {0}
        /\ Len(found) \in Nat
    BY OrderTyped, SiteFacts
  <2>3. fetched < Len(gets)
    <3>1. Len(gets) = fetched + 1 \/ Len(gets) = fetched + 2
      BY <1>0, <2>1
    <3>2. fetched \in Nat /\ Len(gets) \in Nat
      BY <2>2
    <3> QED
      BY <3>1, <3>2
  <2> QED
    BY <2>1, <2>2, <2>3
<1>2. GetsInOrder'
  BY <1>0, <1>1 DEF GetsInOrder
<1>3. /\ Took' = Took /\ HomeLinks' = HomeLinks
      /\ \A arrived : /\ AgreesOn(arrived)' <=> AgreesOn(arrived)
                      /\ Known(arrived)' = Known(arrived)
  BY <1>0 DEF Took, HomeLinks, HomeArrived, AgreesOn, Known, Start, RobotsArrived
<1>4. TakenOnce'
  BY <1>0, <1>1, <1>3 DEF OrderIInv, TakenOnce
<1>5. ASSUME ~crowded, NEW arrived \in SUBSET Url, AgreesOn(arrived)
      PROVE  InOrderSoFar(arrived)'
  <2> DEFINE known == Known(arrived)
             links == HomeLinks
             whole == Extended(known.found, links, OnSite \cap Wanted)
  <2>1. InOrderSoFar(arrived)
    BY <1>1, <1>5 DEF OrderIInv
  <2>2. /\ Len(Took) <= Len(known.maps) /\ \A i \in 1 .. Len(Took) : known.maps[i] = Took[i]
        /\ found = Limited(known.found)
        /\ Len(found) < PageLimit => fetched = MaxSitemaps \/ fetched = Len(known.maps)
    BY <1>0, <2>1 DEF InOrderSoFar
  <2>3. known.found \in Seq(Url)
    BY OrderTyped DEF Knowledge
  <2> HIDE DEF known
  <2>4. found' = Limited(whole) /\ (Len(found') < PageLimit => Len(found) < PageLimit)
    <3>1. ASSUME links = << >>, found' = found
          PROVE  found' = Limited(whole) /\ (Len(found') < PageLimit => Len(found) < PageLimit)
      <4>1. whole = known.found
        BY <2>3, <3>1, ExtendedEmpty
      <4> QED
        BY <2>2, <3>1, <4>1
    <3>2. CASE Full
      <4>1. phase = "full" /\ found' = found
        BY <3>2 DEF Full
      <4>2. Len(gets) = fetched + 1
        BY <4>1 DEF OrderIInv, GetsInOrder
      <4>3. fetched + 2 \notin DOMAIN gets
        BY <1>1, <4>2
      <4>4. links = << >>
        BY <4>3 DEF HomeLinks, HomeArrived
      <4> QED
        BY <3>1, <4>1, <4>4
    <3>3. CASE ReadHome
      <4>1. /\ phase = "home" /\ Loading = {}
            /\ found' = IF gets[Len(gets)].stage = "failed" THEN found ELSE WithHome(found)
        BY <3>3 DEF ReadHome, Answered, WithHome
      <4>2. Len(gets) = fetched + 2
        BY <4>1 DEF OrderIInv, GetsInOrder
      <4>3. fetched + 2 \in DOMAIN gets /\ gets[fetched + 2].stage \in {"kept", "failed"}
        <5>1. fetched + 2 \in 1 .. Len(gets)
          BY <1>1, <4>2
        <5>2. gets[fetched + 2].stage \in Stage
          BY <5>1, OrderTyped
        <5> QED
          BY <1>1, <4>1, <5>1, <5>2 DEF Loading, Stage
      <4>4. CASE gets[fetched + 2].stage = "failed"
        <5>1. links = << >> /\ found' = found
          BY <4>1, <4>2, <4>4 DEF HomeLinks, HomeArrived
        <5> QED
          BY <3>1, <5>1
      <4>5. CASE gets[fetched + 2].stage = "kept"
        <5>1. links = Site[Home].locs /\ found' = WithHome(found)
          BY <4>1, <4>2, <4>3, <4>5 DEF HomeLinks, HomeArrived
        <5>2. links \in Seq(Url)
          BY <5>1, SiteFacts
        <5>3. found' = Limited(whole)
          BY <2>2, <2>3, <5>1, HomeMatches
        <5>4. whole \in Seq(Url) /\ Len(known.found) <= Len(whole) /\ Len(known.found) \in Nat /\ Len(whole) \in Nat
          BY <2>3, <5>2, ExtendedKeeps
        <5> HIDE DEF links, whole
        <5>5. Len(found') < PageLimit => Len(whole) < PageLimit
          <6>1. (Len(whole) > PageLimit => Len(Limited(whole)) = PageLimit) /\ (Len(whole) <= PageLimit => Limited(whole) = whole)
            BY <5>4, LimitedTyped
          <6> QED
            BY <1>1, <5>3, <5>4, <6>1
        <5>6. Len(known.found) < PageLimit => Len(found) < PageLimit
          <6>1. Len(known.found) <= PageLimit => Limited(known.found) = known.found
            BY <2>3, LimitedTyped
          <6> QED
            BY <1>1, <2>2, <5>4, <6>1
        <5> QED
          BY <1>1, <5>3, <5>4, <5>5, <5>6
      <4> QED
        BY <4>3, <4>4, <4>5
    <3> QED
      BY <3>2, <3>3
  <2>5. Known(arrived)' = known
    BY <1>3 DEF known
  <2> QED
    BY <1>0, <1>3, <2>2, <2>4, <2>5 DEF InOrderSoFar
<1> QED
  BY <1>0, <1>2, <1>3, <1>4, <1>5 DEF OrderIInv

LEMMA OrderStep == MapIInv /\ OrderIInv /\ [MapNext]_mapVars => OrderIInv'
<1> SUFFICES ASSUME MapIInv, OrderIInv, [MapNext]_mapVars
             PROVE  OrderIInv'
  OBVIOUS
<1>1. MapIInv'
  BY MapStep
<1>2. CASE UNCHANGED mapVars
  <2>1. /\ GetsInOrder' <=> GetsInOrder
        /\ Reading' <=> Reading
        /\ crowded' = crowded /\ seen' = seen
        /\ Took' = Took
        /\ HomeLinks' = HomeLinks
    BY <1>2 DEF mapVars, GetsInOrder, Reading, Took, HomeLinks, HomeArrived
  <2>2. \A arrived : /\ AgreesOn(arrived)' <=> AgreesOn(arrived)
                     /\ Known(arrived)' = Known(arrived)
    BY <1>2 DEF mapVars, AgreesOn, Known, Start, RobotsArrived
  <2>3. ASSUME NEW arrived, InOrderSoFar(arrived)
        PROVE  InOrderSoFar(arrived)'
    BY <1>2, <2>1, <2>2, <2>3 DEF mapVars, InOrderSoFar
  <2>4. TakenOnce => TakenOnce'
    BY <2>1 DEF TakenOnce
  <2> QED
    BY <2>1, <2>2, <2>3, <2>4 DEF OrderIInv
<1>3. CASE Owner
  BY <1>1, <1>3, ReadRobotsInOrder, FillOneInOrder, StartBatchInOrder, ReadBatchInOrder, GoesOnInOrder, EndsInOrder
     DEF Owner
<1>4. CASE MapCalled \/ MapRefused \/ Deadline
  BY <1>4, BeginsInOrder
<1>5. CASE \E i \in DOMAIN gets : Chunk(i) \/ Arrives(i) \/ NotServed(i)
  BY <1>5, DocumentsInOrder
<1> QED
  BY <1>2, <1>3, <1>4, <1>5 DEF MapNext

\* What arrived is one of the sets of documents the invariant speaks of, and the
\* traversal has no others to read.
LEMMA OrderImplies == MapIInv /\ OrderIInv => OrderIndependent
<1> SUFFICES ASSUME MapIInv, OrderIInv, phase = "done", gets # << >>, ~crowded
             PROVE  LET whole == Traversal(Start, Arriving)[MaxSitemaps]
                    IN /\ found = Limited(Extended(whole.found, HomeLinks, OnSite \cap Wanted))
                       /\ Len(found) < PageLimit => fetched = MaxSitemaps \/ fetched = Len(whole.maps)
  BY DEF OrderIndependent
<1>1. /\ fetched \in Nat /\ fetched \in 0 .. MaxSitemaps /\ Len(gets) \in Nat /\ Start \in Seq(Url)
      /\ \A i \in 1 .. Len(gets) : gets[i].url \in Url
  BY OrderTyped
<1>2. fetched < Len(gets) /\ TakenOnce /\ Reading
  BY <1>1 DEF OrderIInv, GetsInOrder, Reading
<1>3. batch = << >> /\ Len(batch) = 0
  BY EmptySeq DEF MapIInv, BatchIsNew
<1>4. /\ Took \in Seq(Url) /\ Len(Took) = fetched /\ DOMAIN Took = 1 .. fetched
      /\ \A i \in 1 .. fetched : Took[i] = gets[i + 1].url
  BY <1>1, <1>2, <1>3, TookTyped, LenProperties
<1>5. Arriving \in SUBSET Url
  <2>1. \A i \in 2 .. fetched + 1 : i \in 1 .. Len(gets)
    BY <1>1, <1>2
  <2> QED
    BY <1>1, <2>1 DEF Arriving
<1>6. AgreesOn(Arriving)
  <2> SUFFICES ASSUME NEW i \in 2 .. fetched + 1, gets[i].url \in Arriving
               PROVE  gets[i].stage = "kept"
    BY DEF AgreesOn, Arriving
  <2>1. PICK j \in 2 .. fetched + 1 : gets[j].stage = "kept" /\ gets[j].url = gets[i].url
    BY DEF Arriving
  <2>2. i - 1 \in 1 .. fetched /\ j - 1 \in 1 .. fetched /\ (i - 1) + 1 = i /\ (j - 1) + 1 = j
    BY <1>1
  <2>3. Took[i - 1] = Took[j - 1]
    BY <1>4, <2>1, <2>2
  <2>4. i - 1 = j - 1
    BY <1>2, <1>4, <2>2, <2>3 DEF TakenOnce, IsInjective
  <2> QED
    BY <2>1, <2>2, <2>4
<1>7. InOrderSoFar(Arriving)
  BY <1>2, <1>5, <1>6 DEF OrderIInv
<1> DEFINE t == Traversal(Start, Arriving)
<1>8. /\ fetched <= Len(t[fetched].maps) /\ \A i \in 1 .. fetched : t[fetched].maps[i] = gets[i + 1].url
      /\ found = Limited(Extended(t[fetched].found, HomeLinks, OnSite \cap Wanted))
      /\ Len(found) < PageLimit => fetched = MaxSitemaps \/ fetched = Len(t[fetched].maps)
  BY <1>4, <1>7 DEF InOrderSoFar, Known
<1>9. ASSUME NEW u \in Arriving
      PROVE  \E i \in 1 .. fetched : t[fetched].maps[i] = u
  <2>1. PICK j \in 2 .. fetched + 1 : gets[j].url = u
    BY DEF Arriving
  <2>2. j - 1 \in 1 .. fetched /\ (j - 1) + 1 = j
    BY <1>1
  <2>3. t[fetched].maps[j - 1] = u
    <3> HIDE DEF t
    <3> QED
      BY <1>8, <2>1, <2>2
  <2> QED
    BY <2>2, <2>3
<1>10. t[MaxSitemaps] = t[fetched]
  BY <1>1, <1>8, <1>9, TraversalSettles
<1> HIDE DEF t
<1> QED
  BY <1>8, <1>10 DEF t

\* The list that is returned is that of a traversal without any concurrency,
\* whatever the order in which documents arrive.
THEOREM MapsAreInOrder == MapSpec => []OrderIndependent
<1>1. MapInit => MapIInv /\ OrderIInv
  BY MapStart, OrderStart
<1>2. MapIInv /\ OrderIInv /\ [MapNext]_mapVars => (MapIInv /\ OrderIInv)'
  BY MapStep, OrderStep
<1> QED
  BY <1>1, <1>2, OrderImplies, PTL DEF MapSpec
=============================================================================
