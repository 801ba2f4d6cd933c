------------------------------- MODULE Facts --------------------------------
(***************************************************************************)
(* What the proofs of the other modules need to know of finite sets, of    *)
(* sequences and of sums, whatever the system.  The installed provers      *)
(* cannot instantiate an induction theorem over an operator; what takes an *)
(* induction is derived here from the well-foundedness of the strict       *)
(* subsets of a finite set, with the property to prove as a set.           *)
(***************************************************************************)
EXTENDS SequencesExt, SequenceTheorems, FiniteSetTheorems,
        WellFoundedInduction, TLAPS
-----------------------------------------------------------------------------
(* Finite sets *)

\* The image of a finite set under a function is finite.
THEOREM FiniteImage ==
  ASSUME NEW S, IsFiniteSet(S), NEW f
  PROVE  IsFiniteSet({f[x] : x \in S})
<1> DEFINE T == {f[x] : x \in S}
           g == [x \in S |-> f[x]]
<1>1. g \in Surjection(S, T)
  BY DEF Surjection
<1> QED BY <1>1, FS_Surjection

\* A finite non-empty set has a minimal element under any strict partial order.
THEOREM FiniteMinimum ==
  ASSUME NEW S, IsFiniteSet(S), S # {}, NEW R,
         \A x \in S : <<x, x>> \notin R,
         \A x, y, z \in S : <<x, y>> \in R /\ <<y, z>> \in R => <<x, z>> \in R
  PROVE  \E x \in S : \A y \in S : <<y, x>> \notin R
<1> DEFINE below(x) == {y \in S : <<y, x>> \in R}
           T == {below(x) : x \in S}
<1>1. IsWellFoundedOn(StrictSubsetOrdering(S), SUBSET S)
  BY FS_StrictSubsetOrderingWellFounded, FS_FiniteSubsetsOfFinite
<1>2. T \subseteq SUBSET S /\ T # {}
  <2>1. T \subseteq SUBSET S
    OBVIOUS
  <2>2. PICK x \in S : TRUE
    OBVIOUS
  <2>3. below(x) \in T
    BY <2>2
  <2> QED BY <2>1, <2>3
<1>3. PICK m \in T : \A t \in T : <<t, m>> \notin StrictSubsetOrdering(S)
  <2> HIDE DEF T
  <2> QED BY <1>1, <1>2, WFMin
<1>4. PICK x \in S : m = below(x)
  OBVIOUS
<1>5. ASSUME NEW y \in S, <<y, x>> \in R PROVE FALSE
  <2>1. below(y) \subseteq below(x)
    BY <1>5
  <2>2. y \in below(x) /\ y \notin below(y)
    BY <1>5
  <2>3. <<below(y), below(x)>> \in StrictSubsetOrdering(S)
    BY <2>1, <2>2 DEF StrictSubsetOrdering
  <2> QED BY <2>3, <1>3, <1>4
<1> QED BY <1>5

\* A non-empty set of natural numbers has a least element.
THEOREM LeastNatural ==
  ASSUME NEW S, S \subseteq Nat, S # {}
  PROVE  \E n \in S : \A k \in S : n <= k
<1>1. PICK m \in S : TRUE
  OBVIOUS
<1> DEFINE T == {k \in S : k <= m}
           R == {p \in T \X T : p[1] < p[2]}
<1>2. IsFiniteSet(T) /\ T # {}
  BY <1>1, FS_BoundedSetOfNaturals
<1>3. \E x \in T : \A y \in T : <<y, x>> \notin R
  <2>1. \A x \in T : <<x, x>> \notin R
    OBVIOUS
  <2>2. \A x, y, z \in T : <<x, y>> \in R /\ <<y, z>> \in R => <<x, z>> \in R
    OBVIOUS
  <2> HIDE DEF T, R
  <2> QED BY <1>2, <2>1, <2>2, FiniteMinimum
<1>4. PICK x \in T : \A y \in T : <<y, x>> \notin R
  BY <1>3
<1>5. ASSUME NEW y \in T PROVE x <= y
  <2>1. x \in Nat /\ y \in Nat
    OBVIOUS
  <2>2. ~(y < x)
    BY <1>4, <1>5
  <2> QED BY <2>1, <2>2
<1> QED BY <1>5

\* Induction over the natural numbers, with the property as a set.
THEOREM NatSetInduction ==
  ASSUME NEW P, 0 \in P, \A n \in Nat : n \in P => n + 1 \in P
  PROVE  Nat \subseteq P
<1> DEFINE B == {n \in Nat : n \notin P}
<1>1. ASSUME B # {}
      PROVE  FALSE
  <2>1. PICK n \in B : \A k \in B : n <= k
    <3>1. B \subseteq Nat
      OBVIOUS
    <3> HIDE DEF B
    <3> QED
      BY <1>1, <3>1, LeastNatural
  <2>2. n \in Nat /\ n # 0 /\ n \notin P
    OBVIOUS
  <2>3. n - 1 \in Nat /\ n - 1 + 1 = n
    BY <2>2
  <2>4. n - 1 \in P
    BY <2>1, <2>3
  <2>5. n - 1 + 1 \in P
    BY <2>3, <2>4
  <2> QED
    BY <2>2, <2>3, <2>5
<1> QED
  BY <1>1

\* The least and the greatest of two numbers.
THEOREM OfTwo ==
  ASSUME NEW a \in Int, NEW b \in Int
  PROVE  /\ Min({a, b}) = IF a <= b THEN a ELSE b
         /\ Max({a, b}) = IF a >= b THEN a ELSE b
BY DEF Min, Max

\* Two sets that differ at most in one element differ in size accordingly.
THEOREM CountChange ==
  ASSUME NEW A, IsFiniteSet(A), NEW B, NEW k, B \ {k} = A \ {k}
  PROVE  /\ IsFiniteSet(B)
         /\ Cardinality(A) \in Nat /\ Cardinality(B) \in Nat
         /\ k \in A /\ k \in B => Cardinality(B) = Cardinality(A)
         /\ k \notin A /\ k \notin B => Cardinality(B) = Cardinality(A)
         /\ k \notin A /\ k \in B => Cardinality(B) = Cardinality(A) + 1
         /\ k \in A /\ k \notin B => Cardinality(B) = Cardinality(A) - 1
<1>0. Cardinality(A) \in Nat
  BY FS_CardinalityType
<1>1. CASE (k \in A) = (k \in B)
  <2>1. A = B
    BY <1>1
  <2> QED
    BY <1>0, <1>1, <2>1
<1>2. CASE k \notin A /\ k \in B
  <2>1. B = A \cup {k}
    BY <1>2
  <2>2. IsFiniteSet(B) /\ Cardinality(B) = Cardinality(A) + 1
    BY <1>2, <2>1, FS_AddElement
  <2> QED
    BY <1>0, <1>2, <2>2
<1>3. CASE k \in A /\ k \notin B
  <2>1. B = A \ {k}
    BY <1>3
  <2>2. IsFiniteSet(B) /\ Cardinality(B) = Cardinality(A) - 1
    BY <1>3, <2>1, FS_RemoveElement
  <2>3. Cardinality(B) \in Nat
    BY <2>2, FS_CardinalityType
  <2> QED
    BY <1>0, <1>3, <2>2, <2>3
<1> QED
  BY <1>1, <1>2, <1>3
-----------------------------------------------------------------------------
(* Sequences *)

\* An element is taken out, the later ones move up.
THEOREM RemoveAtElements ==
  ASSUME NEW S, NEW s \in Seq(S), NEW i \in 1 .. Len(s)
  PROVE  /\ RemoveAt(s, i) \in Seq(S)
         /\ Len(RemoveAt(s, i)) = Len(s) - 1
         /\ \A j \in 1 .. Len(s) - 1 : RemoveAt(s, i)[j] = IF j < i THEN s[j] ELSE s[j + 1]
<1>0. Len(s) \in Nat /\ \A j \in 1 .. Len(s) : s[j] \in S
  BY LenProperties, ElementOfSeq
<1> DEFINE a == SubSeq(s, 1, i - 1)
           b == SubSeq(s, i + 1, Len(s))
<1>1. /\ a \in Seq(S) /\ Len(a) = i - 1
      /\ \A j \in 1 .. i - 1 : a[j] = s[j]
  <2>1. 1 \in Int /\ i - 1 \in Int /\ \A j \in 1 .. i - 1 : s[j] \in S
    BY <1>0
  <2>2. /\ a \in Seq(S) /\ Len(a) = IF 1 <= i - 1 THEN i - 1 - 1 + 1 ELSE 0
        /\ \A j \in 1 .. i - 1 - 1 + 1 : a[j] = s[1 + j - 1]
    BY <2>1, SubSeqProperties
  <2> QED
    BY <2>2
<1>2. /\ b \in Seq(S) /\ Len(b) = Len(s) - i
      /\ \A j \in 1 .. Len(s) - i : b[j] = s[i + j]
  <2>1. i + 1 \in Int /\ Len(s) \in Int /\ \A j \in i + 1 .. Len(s) : s[j] \in S
    BY <1>0
  <2>2. /\ b \in Seq(S) /\ Len(b) = IF i + 1 <= Len(s) THEN Len(s) - (i + 1) + 1 ELSE 0
        /\ \A j \in 1 .. Len(s) - (i + 1) + 1 : b[j] = s[i + 1 + j - 1]
    BY <2>1, SubSeqProperties
  <2> QED
    BY <2>2, <1>0
<1>3. RemoveAt(s, i) = a \o b
  BY DEF RemoveAt
<1> HIDE DEF a, b
<1>4. /\ a \o b \in Seq(S) /\ Len(a \o b) = Len(a) + Len(b)
      /\ \A j \in 1 .. Len(a) + Len(b) : (a \o b)[j] = IF j <= Len(a) THEN a[j] ELSE b[j - Len(a)]
  BY <1>1, <1>2, ConcatProperties
<1>5. ASSUME NEW j \in 1 .. Len(s) - 1
      PROVE  (a \o b)[j] = IF j < i THEN s[j] ELSE s[j + 1]
  <2>1. CASE j < i
    BY <2>1, <1>0, <1>1, <1>2, <1>4
  <2>2. CASE ~(j < i)
    <3>1. j - Len(a) \in 1 .. Len(s) - i /\ i + (j - Len(a)) = j + 1
      BY <2>2, <1>0, <1>1
    <3>2. (a \o b)[j] = b[j - Len(a)]
      BY <2>2, <1>0, <1>1, <1>2, <1>4
    <3>3. b[j - Len(a)] = s[i + (j - Len(a))]
      BY <1>2, <3>1
    <3> QED
      BY <2>2, <3>1, <3>2, <3>3
  <2> QED
    BY <2>1, <2>2
<1> QED
  BY <1>0, <1>1, <1>2, <1>3, <1>4, <1>5

\* What is taken out is gone, if it was there once, and the rest stays.
THEOREM RemoveAtRange ==
  ASSUME NEW S, NEW s \in Seq(S), NEW i \in 1 .. Len(s)
  PROVE  /\ Range(RemoveAt(s, i)) \subseteq Range(s)
         /\ Range(s) \ {s[i]} \subseteq Range(RemoveAt(s, i))
         /\ IsInjective(s) => /\ IsInjective(RemoveAt(s, i))
                              /\ Range(RemoveAt(s, i)) = Range(s) \ {s[i]}
<1> DEFINE t == RemoveAt(s, i)
<1>0. Len(s) \in Nat /\ DOMAIN s = 1 .. Len(s)
  BY LenProperties
<1>1. /\ t \in Seq(S) /\ Len(t) = Len(s) - 1
      /\ \A j \in 1 .. Len(s) - 1 : t[j] = IF j < i THEN s[j] ELSE s[j + 1]
  BY RemoveAtElements
<1> HIDE DEF t
<1>2. DOMAIN t = 1 .. Len(s) - 1
  BY <1>1, LenProperties
<1> DEFINE from(j) == IF j < i THEN j ELSE j + 1
<1>3. ASSUME NEW j \in DOMAIN t
      PROVE  from(j) \in DOMAIN s /\ from(j) # i /\ t[j] = s[from(j)]
  BY <1>0, <1>1, <1>2, <1>3
<1>4. ASSUME NEW j \in DOMAIN s, j # i
      PROVE  \E m \in DOMAIN t : t[m] = s[j]
  <2>1. CASE j < i
    <3>1. j \in DOMAIN t /\ t[j] = s[j]
      BY <2>1, <1>0, <1>1, <1>2
    <3> QED
      BY <3>1
  <2>2. CASE i < j
    <3>1. j - 1 \in DOMAIN t /\ t[j - 1] = s[j - 1 + 1] /\ j - 1 + 1 = j
      BY <2>2, <1>0, <1>1, <1>2
    <3> QED
      BY <3>1
  <2> QED
    BY <1>0, <1>4, <2>1, <2>2
<1>5. Range(t) \subseteq Range(s)
  BY <1>3 DEF Range
<1>6. Range(s) \ {s[i]} \subseteq Range(t)
  BY <1>4 DEF Range
<1>7. ASSUME IsInjective(s)
      PROVE  IsInjective(t) /\ Range(t) = Range(s) \ {s[i]}
  <2>1. ASSUME NEW j \in DOMAIN t, NEW k \in DOMAIN t, t[j] = t[k]
        PROVE  j = k
    <3>1. from(j) = from(k)
      <4> HIDE DEF from
      <4> QED
        BY <1>3, <1>7, <2>1 DEF IsInjective
    <3> QED
      BY <3>1, <1>0, <1>2
  <2>2. ASSUME NEW j \in DOMAIN t
        PROVE  t[j] # s[i]
    <3> HIDE DEF from
    <3> QED
      BY <1>0, <1>3, <1>7, <2>2 DEF IsInjective
  <2>3. s[i] \notin Range(t)
    BY <2>2 DEF Range
  <2>4. IsInjective(t)
    BY <2>1 DEF IsInjective
  <2> QED
    BY <2>3, <2>4, <1>5, <1>6
<1> QED
  BY <1>5, <1>6, <1>7 DEF t

\* The same for the first occurrence of an element.
THEOREM RemoveFirstRange ==
  ASSUME NEW S, NEW s \in Seq(S), NEW e, IsInjective(s)
  PROVE  /\ RemoveFirst(s, e) \in Seq(S)
         /\ IsInjective(RemoveFirst(s, e))
         /\ Range(RemoveFirst(s, e)) = Range(s) \ {e}
         /\ Len(RemoveFirst(s, e)) = IF e \in Range(s) THEN Len(s) - 1 ELSE Len(s)
<1>0. Len(s) \in Nat /\ DOMAIN s = 1 .. Len(s)
  BY LenProperties
<1>1. CASE \E i \in 1 .. Len(s) : s[i] = e
  <2> DEFINE I == {i \in 1 .. Len(s) : s[i] = e}
             m == Min(I)
  <2>1. I \subseteq Nat /\ I # {}
    BY <1>1
  <2>2. \E n \in I : \A k \in I : n <= k
    <3> HIDE DEF I
    <3> QED
      BY <2>1, LeastNatural
  <2>3. m \in I
    <3> HIDE DEF I
    <3> QED
      BY <2>2 DEF Min
  <2>4. RemoveFirst(s, e) = RemoveAt(s, m)
    BY <1>1, <2>1 DEF RemoveFirst, SelectInSeq
  <2>5. m \in 1 .. Len(s) /\ s[m] = e
    BY <2>3
  <2> HIDE DEF m
  <2>6. e \in Range(s)
    BY <1>0, <2>5 DEF Range
  <2>7. RemoveAt(s, m) \in Seq(S) /\ Len(RemoveAt(s, m)) = Len(s) - 1
    BY <2>5, RemoveAtElements
  <2>8. IsInjective(RemoveAt(s, m)) /\ Range(RemoveAt(s, m)) = Range(s) \ {e}
    BY <2>5, RemoveAtRange
  <2> QED
    BY <2>4, <2>6, <2>7, <2>8
<1>2. CASE ~ \E i \in 1 .. Len(s) : s[i] = e
  BY <1>2, <1>0 DEF RemoveFirst, Range
<1> QED
  BY <1>1, <1>2

\* Taking out another element than the first leaves the first in its place.
THEOREM RemoveFirstHead ==
  ASSUME NEW S, NEW s \in Seq(S), NEW e, s # << >>, e # Head(s)
  PROVE  RemoveFirst(s, e) # << >> /\ Head(RemoveFirst(s, e)) = Head(s)
<1>0. Len(s) \in Nat \ {0} /\ Head(s) = s[1]
  BY LenProperties, EmptySeq, HeadTailProperties
<1>1. CASE \E i \in 1 .. Len(s) : s[i] = e
  <2> DEFINE I == {i \in 1 .. Len(s) : s[i] = e}
             m == Min(I)
  <2>1. I \subseteq Nat /\ I # {}
    BY <1>1
  <2>2. \E n \in I : \A k \in I : n <= k
    <3> HIDE DEF I
    <3> QED
      BY <2>1, LeastNatural
  <2>3. m \in I
    <3> HIDE DEF I
    <3> QED
      BY <2>2 DEF Min
  <2>4. RemoveFirst(s, e) = RemoveAt(s, m)
    BY <1>1, <2>1 DEF RemoveFirst, SelectInSeq
  <2>5. m \in 1 .. Len(s) /\ m # 1
    BY <1>0, <2>3
  <2> HIDE DEF m
  <2> DEFINE t == RemoveAt(s, m)
  <2>6. /\ t \in Seq(S) /\ Len(t) = Len(s) - 1
        /\ \A j \in 1 .. Len(s) - 1 : t[j] = IF j < m THEN s[j] ELSE s[j + 1]
    BY <2>5, RemoveAtElements
  <2> HIDE DEF t
  <2>7. 1 \in 1 .. Len(s) - 1 /\ 1 < m
    BY <1>0, <2>5
  <2>8. t # << >> /\ Head(t) = t[1]
    BY <2>6, <2>7, EmptySeq, HeadTailProperties
  <2> QED
    BY <1>0, <2>4, <2>6, <2>7, <2>8 DEF t
<1>2. CASE ~ \E i \in 1 .. Len(s) : s[i] = e
  BY <1>2 DEF RemoveFirst
<1> QED
  BY <1>1, <1>2

\* What is appended is added.
THEOREM AppendRange ==
  ASSUME NEW S, NEW s \in Seq(S), NEW e \in S
  PROVE  /\ Range(Append(s, e)) = Range(s) \cup {e}
         /\ IsInjective(s) /\ e \notin Range(s) => IsInjective(Append(s, e))
<1> DEFINE t == Append(s, e)
<1>0. Len(s) \in Nat /\ DOMAIN s = 1 .. Len(s)
  BY LenProperties
<1>1. /\ t \in Seq(S) /\ Len(t) = Len(s) + 1
      /\ \A i \in 1 .. Len(s) : t[i] = s[i]
      /\ t[Len(s) + 1] = e
  BY AppendProperties
<1> HIDE DEF t
<1>2. DOMAIN t = 1 .. Len(s) + 1
  BY <1>1, LenProperties
<1>3. Range(t) = Range(s) \cup {e}
  BY <1>0, <1>1, <1>2 DEF Range
<1>4. ASSUME IsInjective(s), e \notin Range(s)
      PROVE  IsInjective(t)
  BY <1>0, <1>1, <1>2, <1>4 DEF Range, IsInjective
<1> QED
  BY <1>3, <1>4 DEF t

\* The head is gone from the tail, if it was there once.
THEOREM TailRange ==
  ASSUME NEW S, NEW s \in Seq(S), s # << >>
  PROVE  /\ Range(s) = Range(Tail(s)) \cup {Head(s)}
         /\ IsInjective(s) => IsInjective(Tail(s)) /\ Head(s) \notin Range(Tail(s))
<1> DEFINE t == Tail(s)
<1>0. Len(s) \in Nat \ {0} /\ DOMAIN s = 1 .. Len(s) /\ Head(s) = s[1]
  BY LenProperties, EmptySeq, HeadTailProperties
<1>1. t \in Seq(S) /\ Len(t) = Len(s) - 1 /\ \A i \in 1 .. Len(t) : t[i] = s[i + 1]
  BY HeadTailProperties
<1> HIDE DEF t
<1>2. DOMAIN t = 1 .. Len(s) - 1
  BY <1>1, LenProperties
<1>3. ASSUME NEW i \in DOMAIN s, i # 1
      PROVE  i - 1 \in DOMAIN t /\ t[i - 1] = s[i]
  BY <1>0, <1>1, <1>2, <1>3
<1>4. ASSUME NEW i \in DOMAIN t
      PROVE  i + 1 \in DOMAIN s /\ t[i] = s[i + 1]
  BY <1>0, <1>1, <1>2
<1>5. Range(s) = Range(t) \cup {s[1]}
  BY <1>0, <1>3, <1>4 DEF Range
<1>6. ASSUME IsInjective(s)
      PROVE  IsInjective(t) /\ s[1] \notin Range(t)
  <2>1. ASSUME NEW i \in DOMAIN t, NEW j \in DOMAIN t, t[i] = t[j]
        PROVE  i = j
    <3>1. i + 1 = j + 1
      BY <1>4, <1>6, <2>1 DEF IsInjective
    <3> QED
      BY <3>1, <1>2
  <2>2. ASSUME NEW i \in DOMAIN t
        PROVE  t[i] # s[1]
    <3>1. i + 1 # 1 /\ 1 \in DOMAIN s
      BY <1>0, <1>2
    <3> QED
      BY <3>1, <1>4, <1>6 DEF IsInjective
  <2> QED
    BY <2>1, <2>2 DEF IsInjective, Range
<1> QED
  BY <1>0, <1>5, <1>6 DEF t
-----------------------------------------------------------------------------
(* Sums *)

\* Induction over the subsets of a finite set.
THEOREM SubsetInduction ==
  ASSUME NEW S, IsFiniteSet(S), NEW P,
         \A T \in SUBSET S : (\A U \in SUBSET T : U # T => U \in P) => T \in P
  PROVE  \A T \in SUBSET S : T \in P
<1> DEFINE B == {T \in SUBSET S : T \notin P}
<1>1. IsWellFoundedOn(StrictSubsetOrdering(S), SUBSET S)
  <2> HIDE DEF B
  <2> QED BY FS_StrictSubsetOrderingWellFounded, FS_FiniteSubsetsOfFinite
<1>2. ASSUME B # {} PROVE FALSE
  <2>1. B \subseteq SUBSET S
    OBVIOUS
  <2>2. PICK T \in B : \A U \in B : <<U, T>> \notin StrictSubsetOrdering(S)
    <3> HIDE DEF B
    <3> QED BY <1>1, <1>2, <2>1, WFMin
  <2>3. ASSUME NEW U \in SUBSET T, U # T PROVE U \in P
    <3>1. <<U, T>> \in StrictSubsetOrdering(S)
      BY <2>3 DEF StrictSubsetOrdering
    <3> QED BY <2>2, <2>3, <3>1
  <2> QED BY <2>3
<1> QED BY <1>2

\* The member a sum takes first.
FirstMember(s) == CHOOSE x \in s : TRUE

\* g sums f over every subset of S, taking one member at a time.
SumsOver(f, S, g) ==
  g = [s \in SUBSET S |-> IF s = {} THEN 0 ELSE f[FirstMember(s)] + g[s \ {FirstMember(s)}]]

\* The fold of the library, spelled out.
LEMMA SumIsFold ==
  ASSUME NEW f, NEW S
  PROVE  SumFunctionOnSet(f, S) = (CHOOSE g : SumsOver(f, S, g))[S]
BY DEF SumFunctionOnSet, FoldFunctionOnSet, MapThenFoldSet, SumsOver, FirstMember

\* The recursion that defines a sum has its solution: the sum over a set is one
\* member's term and the sum over the others.
LEMMA SumUnfolds ==
  ASSUME NEW f, NEW S, IsFiniteSet(S)
  PROVE  SumFunctionOnSet(f, S) =
           IF S = {} THEN 0
           ELSE f[FirstMember(S)] + SumFunctionOnSet(f, S \ {FirstMember(S)})
<1> DEFINE sum(T) == SumFunctionOnSet(f, T)
           rest(T) == T \ {FirstMember(T)}
           unfolded(T) == IF T = {} THEN 0 ELSE f[FirstMember(T)] + sum(rest(T))
           P == {T \in SUBSET S : sum(T) = unfolded(T)}
<1>1. \A T : T # {} => FirstMember(T) \in T
  BY DEF FirstMember
<1>2. ASSUME NEW T \in SUBSET S, \A U \in SUBSET T : U # T => U \in P
      PROVE  T \in P
  <2> DEFINE G == [s \in SUBSET T |-> IF s = T THEN unfolded(T) ELSE sum(s)]
             next(g, s) == IF s = {} THEN 0 ELSE f[FirstMember(s)] + g[rest(s)]
  <2>0. \A g : SumsOver(f, T, g) <=> g = [s \in SUBSET T |-> next(g, s)]
    BY DEF SumsOver
  <2>1. ASSUME NEW s \in SUBSET T PROVE G[s] = next(G, s)
    <3>1. CASE s = {}
      BY <1>2, <3>1
    <3>2. CASE s # {}
      <4>1. rest(s) \in SUBSET T /\ rest(s) # T
        BY <1>1, <3>2
      <4>2. G[rest(s)] = sum(rest(s))
        BY <4>1
      <4> HIDE DEF sum, rest
      <4> QED BY <1>2, <3>2, <4>2
    <3> QED BY <3>1, <3>2
  <2>2. SumsOver(f, T, G)
    <3>1. G = [s \in SUBSET T |-> next(G, s)]
      <4>1. G = [s \in SUBSET T |-> G[s]]
        OBVIOUS
      <4> HIDE DEF G, next
      <4> QED BY <2>1, <4>1
    <3> HIDE DEF G, next
    <3> QED BY <2>0, <3>1
  <2> DEFINE g == CHOOSE h : SumsOver(f, T, h)
  <2>3. SumsOver(f, T, g)
    <3> HIDE DEF G
    <3> QED BY <2>2
  <2>4. sum(T) = g[T]
    BY SumIsFold
  <2> HIDE DEF g, sum
  <2>5. \A s \in SUBSET T : g[s] = next(g, s)
    BY <2>0, <2>3
  <2>6. \A s \in SUBSET T : s # T => g[s] = sum(s)
    <3> DEFINE Q == {s \in SUBSET T : s # T => g[s] = sum(s)}
    <3>1. IsFiniteSet(T)
      BY FS_Subset
    <3>2. ASSUME NEW s \in SUBSET T, \A r \in SUBSET s : r # s => r \in Q
          PROVE  s \in Q
      <4>1. CASE s = {}
        BY <1>2, <2>5, <4>1
      <4>2. CASE s = T
        BY <4>2
      <4>3. CASE s # {} /\ s # T
        <5>1. rest(s) \in SUBSET s /\ rest(s) # s /\ rest(s) # T
          BY <1>1, <4>3
        <5>2. g[rest(s)] = sum(rest(s))
          BY <3>2, <5>1
        <5>3. sum(s) = unfolded(s)
          BY <1>2, <4>3
        <5> HIDE DEF rest
        <5> QED BY <2>5, <4>3, <5>2, <5>3
      <4> QED BY <4>1, <4>2, <4>3
    <3> HIDE DEF Q
    <3>3. \A s \in SUBSET T : s \in Q
      BY <3>1, <3>2, SubsetInduction
    <3> QED BY <3>3 DEF Q
  <2>7. T # {} => g[rest(T)] = sum(rest(T))
    BY <1>1, <2>6
  <2>8. g[T] = next(g, T)
    BY <2>5
  <2> HIDE DEF rest
  <2> QED BY <2>4, <2>7, <2>8
<1> HIDE DEF P
<1>3. \A T \in SUBSET S : T \in P
  BY <1>2, SubsetInduction
<1> QED BY <1>3 DEF P

\* The sum of integers is an integer, and any member may be taken first.
THEOREM SumRemove ==
  ASSUME NEW f, NEW S, IsFiniteSet(S), \A x \in S : f[x] \in Int
  PROVE  /\ SumFunctionOnSet(f, S) \in Int
         /\ \A x \in S : SumFunctionOnSet(f, S) = f[x] + SumFunctionOnSet(f, S \ {x})
         /\ \A x \in S : SumFunctionOnSet(f, S \ {x}) \in Int
<1> DEFINE sum(T) == SumFunctionOnSet(f, T)
           P == {T \in SUBSET S : /\ sum(T) \in Int
                                  /\ \A x \in T : sum(T) = f[x] + sum(T \ {x})}
<1>1. ASSUME NEW T \in SUBSET S, \A U \in SUBSET T : U # T => U \in P
      PROVE  T \in P
  <2> DEFINE m == FirstMember(T)
  <2>1. IsFiniteSet(T)
    BY FS_Subset
  <2>2. CASE T = {}
    <3>1. sum(T) = 0
      BY <2>1, <2>2, SumUnfolds
    <3> QED BY <2>2, <3>1
  <2>3. CASE T # {}
    <3>1. m \in T
      BY <2>3 DEF FirstMember
    <3>2. sum(T) = f[m] + sum(T \ {m})
      BY <2>1, <2>3, SumUnfolds
    <3> HIDE DEF m, sum
    <3>3. \A x \in T : T \ {x} \in SUBSET T /\ T \ {x} # T
      OBVIOUS
    <3>4. \A x \in T : /\ sum(T \ {x}) \in Int
                       /\ \A y \in T \ {x} : sum(T \ {x}) = f[y] + sum((T \ {x}) \ {y})
      BY <1>1, <3>3
    <3>5. \A x \in T : f[x] \in Int
      OBVIOUS
    <3>6. sum(T) \in Int
      BY <3>1, <3>2, <3>4, <3>5
    <3>7. ASSUME NEW x \in T, x # m PROVE sum(T) = f[x] + sum(T \ {x})
      <4>1. (T \ {m}) \ {x} = (T \ {x}) \ {m}
        OBVIOUS
      <4>2. sum(T \ {m}) = f[x] + sum((T \ {x}) \ {m})
        BY <3>1, <3>4, <3>7, <4>1
      <4>3. sum(T \ {x}) = f[m] + sum((T \ {x}) \ {m})
        BY <3>1, <3>4, <3>7
      <4>4. sum((T \ {x}) \ {m}) \in Int
        <5>1. (T \ {x}) \ {m} \in SUBSET T /\ (T \ {x}) \ {m} # T
          BY <3>1
        <5> QED BY <1>1, <5>1
      <4>5. f[x] \in Int /\ f[m] \in Int
        BY <3>1, <3>5
      <4> QED BY <3>2, <4>2, <4>3, <4>4, <4>5
    <3> QED BY <3>2, <3>6, <3>7
  <2> QED BY <2>2, <2>3
<1> HIDE DEF P
<1>2. \A T \in SUBSET S : T \in P
  BY <1>1, SubsetInduction
<1> QED BY <1>2 DEF P

\* A sum over no elements is zero.
THEOREM SumEmpty ==
  ASSUME NEW f
  PROVE  SumFunctionOnSet(f, {}) = 0
BY SumUnfolds, FS_EmptySet

\* A new member adds its term.
THEOREM SumAdd ==
  ASSUME NEW f, NEW S, IsFiniteSet(S), NEW k, k \notin S,
         \A x \in S \cup {k} : f[x] \in Int
  PROVE  /\ SumFunctionOnSet(f, S) \in Int
         /\ SumFunctionOnSet(f, S \cup {k}) = SumFunctionOnSet(f, S) + f[k]
<1> DEFINE T == S \cup {k}
<1>1. IsFiniteSet(T)
  BY FS_AddElement
<1>2. k \in T /\ T \ {k} = S /\ f[k] \in Int
  OBVIOUS
<1>3. SumFunctionOnSet(f, T) = f[k] + SumFunctionOnSet(f, T \ {k})
  <2>1. \A x \in T : f[x] \in Int
    OBVIOUS
  <2> HIDE DEF T
  <2> QED BY <1>1, <1>2, <2>1, SumRemove
<1>4. SumFunctionOnSet(f, S) \in Int
  BY SumRemove
<1>5. SumFunctionOnSet(f, T) = f[k] + SumFunctionOnSet(f, S)
  BY <1>2, <1>3
<1> HIDE DEF T
<1> QED BY <1>2, <1>4, <1>5 DEF T

\* The sum depends on the terms alone.
THEOREM SumSame ==
  ASSUME NEW f, NEW g, NEW S, IsFiniteSet(S), \A x \in S : f[x] = g[x]
  PROVE  SumFunctionOnSet(f, S) = SumFunctionOnSet(g, S)
<1> DEFINE P == {T \in SUBSET S : SumFunctionOnSet(f, T) = SumFunctionOnSet(g, T)}
<1>1. ASSUME NEW T \in SUBSET S, \A U \in SUBSET T : U # T => U \in P
      PROVE  T \in P
  <2> DEFINE m == FirstMember(T)
  <2>1. IsFiniteSet(T)
    BY FS_Subset
  <2>2. CASE T = {}
    BY <2>1, <2>2, SumUnfolds
  <2>3. CASE T # {}
    <3>1. m \in T
      BY <2>3 DEF FirstMember
    <3>2. /\ SumFunctionOnSet(f, T) = f[m] + SumFunctionOnSet(f, T \ {m})
          /\ SumFunctionOnSet(g, T) = g[m] + SumFunctionOnSet(g, T \ {m})
      BY <2>1, <2>3, SumUnfolds
    <3> HIDE DEF m
    <3>3. SumFunctionOnSet(f, T \ {m}) = SumFunctionOnSet(g, T \ {m})
      <4>1. T \ {m} \in SUBSET T /\ T \ {m} # T
        BY <3>1
      <4> QED BY <1>1, <4>1
    <3> QED BY <3>1, <3>2, <3>3
  <2> QED BY <2>2, <2>3
<1> HIDE DEF P
<1>2. \A T \in SUBSET S : T \in P
  BY <1>1, SubsetInduction
<1> QED BY <1>2 DEF P

\* One term that changes moves the sum by as much.
THEOREM SumChange ==
  ASSUME NEW f, NEW g, NEW S, IsFiniteSet(S), NEW k \in S,
         \A x \in S : f[x] \in Int /\ g[x] \in Int,
         \A x \in S \ {k} : f[x] = g[x]
  PROVE  /\ SumFunctionOnSet(f, S) \in Int
         /\ SumFunctionOnSet(g, S) = SumFunctionOnSet(f, S) + (g[k] - f[k])
<1>1. SumFunctionOnSet(f, S \ {k}) = SumFunctionOnSet(g, S \ {k})
  BY FS_RemoveElement, SumSame
<1>2. /\ SumFunctionOnSet(f, S) \in Int
      /\ SumFunctionOnSet(f, S) = f[k] + SumFunctionOnSet(f, S \ {k})
      /\ SumFunctionOnSet(f, S \ {k}) \in Int
  BY SumRemove
<1>3. SumFunctionOnSet(g, S) = g[k] + SumFunctionOnSet(g, S \ {k})
  BY SumRemove
<1>4. f[k] \in Int /\ g[k] \in Int
  OBVIOUS
<1> QED BY <1>1, <1>2, <1>3, <1>4

\* A sum of zeros is zero; a sum of naturals is a natural, at least every term,
\* and, when every term is at most one, at most their number.
THEOREM SumBounds ==
  ASSUME NEW f, NEW S, IsFiniteSet(S), \A x \in S : f[x] \in Nat
  PROVE  /\ SumFunctionOnSet(f, S) \in Nat
         /\ \A x \in S : f[x] <= SumFunctionOnSet(f, S)
         /\ (\A x \in S : f[x] = 0) => SumFunctionOnSet(f, S) = 0
         /\ (\A x \in S : f[x] <= 1) => SumFunctionOnSet(f, S) <= Cardinality(S)
         /\ (\A x \in S : f[x] <= 1) /\ (\E x \in S : f[x] = 0)
              => SumFunctionOnSet(f, S) < Cardinality(S)
<1> DEFINE sum(T) == SumFunctionOnSet(f, T)
           P == {T \in SUBSET S :
                   /\ sum(T) \in Nat
                   /\ (\A x \in T : f[x] = 0) => sum(T) = 0
                   /\ (\A x \in T : f[x] <= 1) => sum(T) <= Cardinality(T)}
<1>1. ASSUME NEW T \in SUBSET S, \A U \in SUBSET T : U # T => U \in P
      PROVE  T \in P
  <2> DEFINE m == FirstMember(T)
  <2>1. IsFiniteSet(T)
    BY FS_Subset
  <2>2. CASE T = {}
    <3>1. sum(T) = 0 /\ Cardinality(T) = 0
      BY <2>1, <2>2, SumUnfolds, FS_EmptySet
    <3> HIDE DEF sum
    <3> QED BY <3>1
  <2>3. CASE T # {}
    <3>1. m \in T
      BY <2>3 DEF FirstMember
    <3>2. sum(T) = f[m] + sum(T \ {m})
      BY <2>1, <2>3, SumUnfolds
    <3> HIDE DEF m
    <3>3. Cardinality(T \ {m}) = Cardinality(T) - 1 /\ Cardinality(T) \in Nat
      BY <2>1, <3>1, FS_RemoveElement, FS_CardinalityType
    <3> HIDE DEF sum
    <3>4. T \ {m} \in P
      <4>1. T \ {m} \in SUBSET T /\ T \ {m} # T
        BY <3>1
      <4> QED BY <1>1, <4>1
    <3>5. f[m] \in Nat
      BY <3>1
    <3>6. sum(T) \in Nat
      BY <3>2, <3>4, <3>5
    <3>7. (\A x \in T : f[x] = 0) => sum(T) = 0
      BY <3>1, <3>2, <3>4
    <3>8. (\A x \in T : f[x] <= 1) => sum(T) <= Cardinality(T)
      <4> DEFINE c == Cardinality(T \ {m})
      <4>1. (\A x \in T : f[x] <= 1) => sum(T \ {m}) <= c /\ f[m] <= 1
        BY <3>1, <3>4
      <4>2. sum(T \ {m}) \in Nat
        BY <3>4
      <4> QED BY <3>2, <3>3, <3>5, <4>1, <4>2
    <3> QED BY <3>6, <3>7, <3>8 DEF sum
  <2> QED BY <2>2, <2>3
<1> HIDE DEF P
<1>2. \A T \in SUBSET S : T \in P
  BY <1>1, SubsetInduction
<1>3. /\ sum(S) \in Nat
      /\ (\A x \in S : f[x] = 0) => sum(S) = 0
      /\ (\A x \in S : f[x] <= 1) => sum(S) <= Cardinality(S)
  <2> HIDE DEF sum
  <2> QED BY <1>2 DEF P
<1>4. ASSUME NEW x \in S
      PROVE  /\ f[x] <= sum(S)
             /\ (\A y \in S : f[y] <= 1) /\ f[x] = 0 => sum(S) < Cardinality(S)
  <2>1. sum(S) = f[x] + sum(S \ {x})
    BY SumRemove
  <2>2. Cardinality(S \ {x}) = Cardinality(S) - 1 /\ Cardinality(S) \in Nat
    BY FS_RemoveElement, FS_CardinalityType
  <2> HIDE DEF sum
  <2>3. S \ {x} \in P
    BY <1>2
  <2>4. sum(S \ {x}) \in Nat
    BY <2>3 DEF P
  <2>5. (\A y \in S : f[y] <= 1) => sum(S \ {x}) <= Cardinality(S) - 1
    BY <2>2, <2>3 DEF P
  <2> QED BY <2>1, <2>2, <2>4, <2>5
<1> QED BY <1>3, <1>4

\* A sum of equal terms is their number times the term.
THEOREM SumConstant ==
  ASSUME NEW f, NEW S, IsFiniteSet(S), NEW c \in Int, \A x \in S : f[x] = c
  PROVE  SumFunctionOnSet(f, S) = Cardinality(S) * c
<1> DEFINE sum(T) == SumFunctionOnSet(f, T)
           P == {T \in SUBSET S : sum(T) = Cardinality(T) * c}
<1>1. ASSUME NEW T \in SUBSET S, \A U \in SUBSET T : U # T => U \in P
      PROVE  T \in P
  <2>1. IsFiniteSet(T)
    BY FS_Subset
  <2>2. CASE T = {}
    BY <2>2, SumEmpty, FS_EmptySet
  <2>3. CASE T # {}
    <3>1. PICK x \in T : TRUE
      BY <2>3
    <3>2. T \ {x} \in P
      BY <1>1, <3>1
    <3>3. sum(T) = c + sum(T \ {x})
      BY <2>1, SumRemove
    <3>4. PICK n \in Nat : n = Cardinality(T \ {x}) /\ Cardinality(T) = n + 1
      <4>1. IsFiniteSet(T \ {x}) /\ Cardinality(T \ {x}) = Cardinality(T) - 1
        BY <2>1, FS_RemoveElement
      <4>2. Cardinality(T) \in Nat /\ Cardinality(T \ {x}) \in Nat
        BY <2>1, <4>1, FS_CardinalityType
      <4> QED
        BY <4>1, <4>2
    <3>5. (n + 1) * c = c + n * c
      BY <3>4
    <3> HIDE DEF sum
    <3> QED
      BY <3>2, <3>3, <3>4, <3>5
  <2> QED
    BY <2>2, <2>3
<1> HIDE DEF P
<1>2. S \in P
  BY <1>1, SubsetInduction
<1> QED
  BY <1>2 DEF P

\* A sum does not notice members that count nothing, and grows with its terms.
THEOREM SumExtend ==
  ASSUME NEW f, NEW S, IsFiniteSet(S), NEW T \in SUBSET S,
         \A x \in S : f[x] \in Int, \A x \in S \ T : f[x] = 0
  PROVE  SumFunctionOnSet(f, S) = SumFunctionOnSet(f, T)
<1> DEFINE sum(U) == SumFunctionOnSet(f, U)
           R == S \ T
           P == {U \in SUBSET R : sum(T \cup U) = sum(T)}
<1>1. ASSUME NEW U \in SUBSET R, \A V \in SUBSET U : V # U => V \in P
      PROVE  U \in P
  <2>1. CASE U = {}
    <3>1. T \cup U = T
      BY <2>1
    <3> HIDE DEF sum
    <3> QED
      BY <3>1
  <2>2. CASE U # {}
    <3>1. PICK x \in U : TRUE
      BY <2>2
    <3>2. sum(T \cup (U \ {x})) = sum(T)
      BY <1>1, <3>1
    <3>3. IsFiniteSet(T \cup U) /\ x \in T \cup U /\ (T \cup U) \ {x} = T \cup (U \ {x})
          /\ \A y \in T \cup U : f[y] \in Int
      <4>1. T \cup U \in SUBSET S /\ x \notin T
        OBVIOUS
      <4> QED
        BY <4>1, FS_Subset
    <3>4. sum(T \cup U) = f[x] + sum(T \cup (U \ {x})) /\ sum(T \cup (U \ {x})) \in Int
      <4>1. sum(T \cup U) = f[x] + sum((T \cup U) \ {x})
        BY <3>3, SumRemove
      <4>2. IsFiniteSet(T \cup (U \ {x})) /\ \A y \in T \cup (U \ {x}) : f[y] \in Int
        BY <3>3, FS_Subset
      <4>3. sum(T \cup (U \ {x})) \in Int
        BY <4>2, SumRemove
      <4> HIDE DEF sum
      <4> QED
        BY <3>3, <4>1, <4>3
    <3>5. f[x] = 0
      OBVIOUS
    <3> HIDE DEF sum
    <3> QED
      BY <3>2, <3>4, <3>5
  <2> QED
    BY <2>1, <2>2
<1>2. IsFiniteSet(R)
  BY FS_Subset
<1>3. T \cup R = S
  OBVIOUS
<1>4. \A U \in SUBSET R : U \in P
  <2> HIDE DEF P, R
  <2> QED
    BY <1>1, <1>2, SubsetInduction
<1>5. sum(T \cup R) = sum(T)
  <2> HIDE DEF R, sum
  <2> QED
    BY <1>4
<1> HIDE DEF R
<1> QED
  BY <1>3, <1>5

\* A sum grows with its terms.
THEOREM SumMonotone ==
  ASSUME NEW f, NEW g, NEW S, IsFiniteSet(S),
         \A x \in S : f[x] \in Int /\ g[x] \in Int /\ f[x] <= g[x]
  PROVE  SumFunctionOnSet(f, S) <= SumFunctionOnSet(g, S)
<1> DEFINE P == {T \in SUBSET S : SumFunctionOnSet(f, T) <= SumFunctionOnSet(g, T)}
<1>1. ASSUME NEW T \in SUBSET S, \A U \in SUBSET T : U # T => U \in P
      PROVE  T \in P
  <2>1. IsFiniteSet(T)
    BY FS_Subset
  <2>2. CASE T = {}
    BY <2>2, SumEmpty
  <2>3. CASE T # {}
    <3>1. PICK x \in T : TRUE
      BY <2>3
    <3>2. SumFunctionOnSet(f, T \ {x}) <= SumFunctionOnSet(g, T \ {x})
      BY <1>1, <3>1
    <3>3. IsFiniteSet(T \ {x})
      BY <2>1, FS_Subset
    <3>4. /\ SumFunctionOnSet(f, T \ {x}) \in Int /\ SumFunctionOnSet(g, T \ {x}) \in Int
          /\ SumFunctionOnSet(f, T) = f[x] + SumFunctionOnSet(f, T \ {x})
          /\ SumFunctionOnSet(g, T) = g[x] + SumFunctionOnSet(g, T \ {x})
      BY <2>1, <3>3, SumRemove
    <3>5. f[x] \in Int /\ g[x] \in Int /\ f[x] <= g[x]
      OBVIOUS
    <3>6. SumFunctionOnSet(f, T) <= SumFunctionOnSet(g, T)
      BY <3>2, <3>4, <3>5
    <3> QED
      BY <3>6
  <2> QED
    BY <2>2, <2>3
<1> HIDE DEF P
<1>2. S \in P
  BY <1>1, SubsetInduction
<1> QED
  BY <1>2 DEF P
-----------------------------------------------------------------------------
(* Folds *)

\* g folds the first elements of a sequence, from the last one on, with F.
FoldsWith(A, n, F, base, g) ==
  /\ g \in [SUBSET (1 .. n) -> A]
  /\ g[{}] = base
  /\ \A s \in SUBSET (1 .. n) : s # {} => g[s] = F[<<g[s \ {Max(s)}], Max(s)>>]

\* The recursion that folds a sequence of length n has a solution.
THEOREM FoldExists ==
  ASSUME NEW A, NEW n \in Nat, NEW F \in [A \X (1 .. n) -> A], NEW base \in A
  PROVE  \E g : FoldsWith(A, n, F, base, g)
<1> DEFINE Solves(g, m) ==
             /\ g \in [SUBSET (1 .. m) -> A]
             /\ \A s \in SUBSET (1 .. m) : g[s] = IF s = {} THEN base ELSE F[<<g[s \ {Max(s)}], Max(s)>>]
           P == {m \in Nat : m <= n => \E g : Solves(g, m)}
<1>1. 0 \in P
  <2> DEFINE g == [s \in {{}} |-> base]
  <2>1. SUBSET (1 .. 0) = {{}}
    OBVIOUS
  <2>2. Solves(g, 0)
    BY <2>1
  <2> HIDE DEF g, Solves
  <2> QED
    BY <2>2
<1>2. ASSUME NEW m \in Nat, m \in P
      PROVE  m + 1 \in P
  <2>0. SUFFICES ASSUME m + 1 <= n
                 PROVE  \E g : Solves(g, m + 1)
    <3> HIDE DEF Solves
    <3> QED
      OBVIOUS
  <2>1. PICK g : Solves(g, m)
    <3>1. m <= n
      BY <2>0
    <3> HIDE DEF Solves
    <3> QED
      BY <1>2, <3>1
  <2> DEFINE h == [s \in SUBSET (1 .. m + 1) |-> IF m + 1 \in s THEN F[<<g[s \ {m + 1}], m + 1>>] ELSE g[s]]
  <2>2. ASSUME NEW s \in SUBSET (1 .. m + 1)
        PROVE  /\ m + 1 \in s => Max(s) = m + 1
               /\ m + 1 \notin s => s \in SUBSET (1 .. m)
               /\ s \ {m + 1} \in SUBSET (1 .. m)
    <3>1. \A i \in 1 .. m + 1 : i \in Int /\ i <= m + 1 /\ (i # m + 1 => i \in 1 .. m)
      OBVIOUS
    <3>2. ASSUME m + 1 \in s
          PROVE  Max(s) = m + 1
      <4>1. \A y \in s : y \in Int /\ m + 1 >= y
        BY <3>1
      <4>2. \A x \in s : (\A y \in s : x >= y) => x = m + 1
        BY <3>2, <4>1
      <4> QED
        BY <3>2, <4>1, <4>2 DEF Max
    <3> QED
      BY <3>1, <3>2
  <2>3. \A s \in SUBSET (1 .. m) : g[s] \in A
    BY <2>1
  <2>4. \A s \in SUBSET (1 .. m + 1) : h[s] \in A
    <3>1. m + 1 \in 1 .. n
      BY <2>0
    <3> QED
      BY <2>2, <2>3, <3>1
  <2>5. ASSUME NEW s \in SUBSET (1 .. m + 1)
        PROVE  h[s] = IF s = {} THEN base ELSE F[<<h[s \ {Max(s)}], Max(s)>>]
    <3>1. CASE m + 1 \in s
      <4>1. h[s] = F[<<g[s \ {m + 1}], m + 1>>] /\ s # {} /\ Max(s) = m + 1
        BY <2>2, <3>1
      <4>2. h[s \ {m + 1}] = g[s \ {m + 1}]
        OBVIOUS
      <4> HIDE DEF h
      <4> QED
        BY <4>1, <4>2
    <3>2. CASE m + 1 \notin s
      <4>1. s \in SUBSET (1 .. m) /\ h[s] = g[s]
        BY <2>2, <3>2
      <4>2. g[s] = IF s = {} THEN base ELSE F[<<g[s \ {Max(s)}], Max(s)>>]
        BY <2>1, <4>1
      <4>3. h[s \ {Max(s)}] = g[s \ {Max(s)}]
        BY <3>2
      <4> HIDE DEF h
      <4> QED
        BY <4>1, <4>2, <4>3
    <3> QED
      BY <3>1, <3>2
  <2>6. h \in [SUBSET (1 .. m + 1) -> A]
    BY <2>4
  <2>7. Solves(h, m + 1)
    <3> HIDE DEF h
    <3> QED
      BY <2>5, <2>6
  <2> HIDE DEF Solves, h
  <2> QED
    BY <2>7
<1>3. Nat \subseteq P
  <2> HIDE DEF P
  <2> QED
    BY <1>1, <1>2, NatSetInduction
<1>4. \E g : Solves(g, n)
  <2> HIDE DEF Solves
  <2> QED
    BY <1>3
<1>5. PICK g : Solves(g, n)
  <2> HIDE DEF Solves
  <2> QED
    BY <1>4
<1>6. {} \in SUBSET (1 .. n)
  OBVIOUS
<1>7. FoldsWith(A, n, F, base, g)
  BY <1>5, <1>6 DEF FoldsWith
<1> QED
  BY <1>7

\* A set of positions has a last one.
THEOREM GreatestOf ==
  ASSUME NEW n \in Nat, NEW s \in SUBSET (1 .. n), s # {}
  PROVE  Max(s) \in s
<1>1. \E x \in s : \A y \in s : x >= y
  <2> DEFINE m == {n - i : i \in s}
  <2>0. \A i \in s : i \in 1 .. n /\ n - i \in Nat
    OBVIOUS
  <2>1. m \subseteq Nat /\ m # {}
    BY <2>0
  <2>2. PICK k \in m : \A j \in m : k <= j
    <3> HIDE DEF m
    <3> QED
      BY <2>1, LeastNatural
  <2>3. PICK x \in s : k = n - x
    OBVIOUS
  <2>4. \A y \in s : n - x <= n - y /\ x \in Int /\ y \in Int
    BY <2>0, <2>2, <2>3
  <2> QED
    BY <2>4
<1> QED
  BY <1>1 DEF Max

-----------------------------------------------------------------------------
(* Recursion on a bounded measure, and folds as runs *)

\* F builds a function from one that it asks at smaller elements only.
AsksBelow(D, V, F, mu) ==
  /\ F \in [[D -> V] -> [D -> V]]
  /\ mu \in [D -> Nat]
  /\ \A f, g \in [D -> V], x \in D :
       (\A y \in D : mu[y] < mu[x] => f[y] = g[y]) => F[f][x] = F[g][x]

\* A function that is what is built from it.
Solution(D, V, F, f) == f \in [D -> V] /\ F[f] = f

\* A recursion on a measure that is bounded has a solution.
THEOREM RecursionExists ==
  ASSUME NEW D, NEW V, V # {}, NEW F, NEW mu, AsksBelow(D, V, F, mu),
         NEW N \in Nat, \A x \in D : mu[x] < N
  PROVE  \E f : Solution(D, V, F, f)
<1>0. /\ F \in [[D -> V] -> [D -> V]]
      /\ mu \in [D -> Nat]
      /\ \A f, g \in [D -> V], x \in D :
           (\A y \in D : mu[y] < mu[x] => f[y] = g[y]) => F[f][x] = F[g][x]
  BY DEF AsksBelow
<1> DEFINE Upto(f, k) == \A x \in D : mu[x] < k => F[f][x] = f[x]
           P == {k \in Nat : \E f \in [D -> V] : Upto(f, k)}
<1>1. 0 \in P
  <2>1. PICK v \in V : TRUE
    OBVIOUS
  <2>2. [x \in D |-> v] \in [D -> V]
    OBVIOUS
  <2>3. \A x \in D : ~(mu[x] < 0)
    BY <1>0
  <2> QED
    BY <2>2, <2>3
<1>2. ASSUME NEW k \in Nat, k \in P
      PROVE  k + 1 \in P
  <2>1. PICK f \in [D -> V] : Upto(f, k)
    BY <1>2
  <2> DEFINE g == F[f]
  <2>2. g \in [D -> V]
    BY <1>0
  <2>3. ASSUME NEW x \in D, mu[x] < k + 1
        PROVE  F[g][x] = g[x]
    <3>1. \A y \in D : mu[y] < mu[x] => f[y] = g[y]
      <4> SUFFICES ASSUME NEW y \in D, mu[y] < mu[x]
                   PROVE  f[y] = g[y]
        OBVIOUS
      <4>1. mu[x] \in Nat /\ mu[y] \in Nat
        BY <1>0
      <4>2. mu[y] < k
        BY <2>3, <4>1
      <4> QED
        BY <2>1, <4>2
    <3>2. F[f][x] = F[g][x]
      <4> HIDE DEF g
      <4> QED
        BY <1>0, <2>2, <3>1
    <3> QED
      BY <3>2
  <2>4. Upto(g, k + 1)
    BY <2>3
  <2> HIDE DEF g, Upto
  <2> QED
    BY <2>2, <2>4
<1>3. Nat \subseteq P
  <2> HIDE DEF P
  <2> QED
    BY <1>1, <1>2, NatSetInduction
<1>4. PICK f \in [D -> V] : Upto(f, N)
  BY <1>3
<1>5. \A x \in D : F[f][x] = f[x]
  BY <1>4
<1>6. F[f] \in [D -> V]
  BY <1>0
<1>7. F[f] = f
  BY <1>5, <1>6
<1> QED
  BY <1>7 DEF Solution

\* Of two pairs the one with the smaller first part is the smaller, whatever the
\* second, when that stays below a bound.
THEOREM PairOrder ==
  ASSUME NEW a \in Nat, NEW b \in Nat, NEW c \in Nat, NEW d \in Nat, NEW k \in Nat,
         b < k, a < c
  PROVE  a * k + b < c * k + d /\ a * k + b \in Nat /\ c * k + d \in Nat
<1>1. PICK e \in Nat : c = a + 1 + e
  <2>1. c - a - 1 \in Nat /\ c = a + 1 + (c - a - 1)
    OBVIOUS
  <2> QED
    BY <2>1
<1>2. a * k \in Nat /\ e * k \in Nat
  OBVIOUS
<1>3. c * k = a * k + k + e * k
  BY <1>1
<1> QED
  BY <1>2, <1>3

\* The prefix of a run of positions.
THEOREM LastOfRun ==
  ASSUME NEW i \in Nat, i > 0
  PROVE  Max(1 .. i) = i /\ (1 .. i) \ {i} = 1 .. (i - 1)
<1>1. \A y \in 1 .. i : i >= y
  OBVIOUS
<1>2. \A x \in 1 .. i : (\A y \in 1 .. i : x >= y) => x = i
  OBVIOUS
<1>3. Max(1 .. i) = i
  BY <1>1, <1>2 DEF Max
<1> QED
  BY <1>3

\* A fold is a run that takes one element after the other.
RunsWith(A, n, F, base, result, k) ==
  /\ k \in [0 .. n -> A]
  /\ k[0] = base /\ k[n] = result
  /\ \A i \in 1 .. n : k[i] = F[<<k[i - 1], i>>]

\* A fold over the sets 1..i that goes by their greatest elements.
FoldsBy(A, n, F, base, g) ==
  /\ g[{}] = base
  /\ \A s \in SUBSET (1 .. n) : s # {} /\ g[s \ {Max(s)}] \in A => g[s] = F[<<g[s \ {Max(s)}], Max(s)>>]

\* Such a fold is the end of a run through the elements in their order.
THEOREM FoldRun ==
  ASSUME NEW A, NEW n \in Nat, NEW F \in [A \X (1 .. n) -> A], NEW base \in A,
         NEW g, FoldsBy(A, n, F, base, g)
  PROVE  \E k : RunsWith(A, n, F, base, g[1 .. n], k)
<1> DEFINE k == [i \in 0 .. n |-> g[1 .. i]]
           Q == {i \in Nat : i <= n => k[i] \in A}
<1>1. ASSUME NEW i \in 1 .. n, k[i - 1] \in A
      PROVE  k[i] = F[<<k[i - 1], i>>]
  <2>1. i \in Nat /\ i > 0 /\ i \in 0 .. n /\ i - 1 \in 0 .. n
    OBVIOUS
  <2>2. 1 .. i \in SUBSET (1 .. n) /\ 1 .. i # {}
    <3> HIDE DEF k
    <3>1. i <= n /\ 1 \in 1 .. i
      OBVIOUS
    <3>2. \A j \in 1 .. i : j \in 1 .. n
      BY <3>1
    <3> QED
      BY <3>1, <3>2
  <2>3. Max(1 .. i) = i /\ (1 .. i) \ {i} = 1 .. (i - 1)
    BY <2>1, LastOfRun
  <2>4. k[i] = g[1 .. i] /\ k[i - 1] = g[1 .. (i - 1)]
    BY <2>1
  <2> DEFINE s == 1 .. i
             r == 1 .. (i - 1)
  <2>5. s \in SUBSET (1 .. n) /\ s # {} /\ Max(s) = i
    BY <2>2, <2>3
  <2>6. s \ {i} = r
    BY <2>3
  <2>7. k[i] = g[s] /\ k[i - 1] = g[r]
    BY <2>4
  <2> HIDE DEF k, s, r
  <2>8. g[s \ {Max(s)}] = k[i - 1]
    BY <2>5, <2>6, <2>7
  <2> QED
    BY <1>1, <2>5, <2>7, <2>8 DEF FoldsBy
<1>2. k[0] = base
  <2>1. 1 .. 0 = {} /\ 0 \in 0 .. n
    OBVIOUS
  <2>2. k[0] = g[{}]
    BY <2>1
  <2> QED
    BY <2>2 DEF FoldsBy
<1>3. k = [i \in 0 .. n |-> k[i]] /\ k[n] = g[1 .. n]
  <2>1. n \in 0 .. n
    OBVIOUS
  <2> QED
    BY <2>1
<1> HIDE DEF k
<1>4. 0 \in Q
  BY <1>2
<1>5. ASSUME NEW i \in Nat, i \in Q, i + 1 <= n
      PROVE  k[i + 1] \in A
  <2>1. i + 1 \in 1 .. n /\ (i + 1) - 1 = i /\ i <= n
    BY <1>5
  <2>2. k[i] \in A
    BY <1>5, <2>1
  <2> QED
    BY <1>1, <2>1, <2>2
<1>6. ASSUME NEW i \in Nat, i \in Q
      PROVE  i + 1 \in Q
  <2>1. i + 1 \in Nat
    OBVIOUS
  <2>2. i + 1 <= n => k[i + 1] \in A
    <3> HIDE DEF Q
    <3> QED
      BY <1>5, <1>6
  <2> QED
    BY <2>1, <2>2
<1> HIDE DEF Q
<1>7. Nat \subseteq Q
  BY <1>4, <1>6, NatSetInduction
<1>8. \A i \in 0 .. n : k[i] \in A
  BY <1>7 DEF Q
<1>9. \A i \in 1 .. n : i - 1 \in 0 .. n
  OBVIOUS
<1> QED
  BY <1>1, <1>2, <1>3, <1>8, <1>9 DEF RunsWith
=============================================================================
