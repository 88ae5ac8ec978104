-------------------------- MODULE SeenListingProofs --------------------------
(* The crawlers that keep a set of seen hashes, for any number of messages,*)
(* any cap and any number of faults, by the invariant IInv of module       *)
(* SeenListing.                                                            *)
EXTENDS SeenListing, PipelineProofs, FiniteSetTheorems, FunctionTheorems, SequenceTheorems

Marks == Ids \cup {Bootstrap}

(* Ids in the order of the page: each of them once, with as many behind it *)
(* as there are newer ones.                                                *)
LEMMA InOrderFacts ==
  ASSUME NEW S, S \in SUBSET Nat, IsFiniteSet(S)
  PROVE  /\ Cardinality(S) \in Nat
         /\ InOrder(S) \in Seq(S) /\ Len(InOrder(S)) = Cardinality(S)
         /\ \A m \in S : LET n == Cardinality({k \in S : k > m}) IN
              n \in Nat /\ n < Cardinality(S) /\ InOrder(S)[Cardinality(S) - n] = m
<1> DEFINE Newer(a) == {k \in S : k > a}
           c == Cardinality(S)
           T == 0..(c - 1)
           f == [a \in S |-> Cardinality(Newer(a))]
<1>1. c \in Nat
  BY FS_CardinalityType
<1>2. \A a \in S : /\ IsFiniteSet(Newer(a)) /\ Cardinality(Newer(a)) \in Nat
                   /\ Cardinality(Newer(a)) < c
  <2> SUFFICES ASSUME NEW a \in S
               PROVE  /\ IsFiniteSet(Newer(a)) /\ Cardinality(Newer(a)) \in Nat
                      /\ Cardinality(Newer(a)) < c
    OBVIOUS
  <2>1. Newer(a) \in SUBSET S /\ a \notin Newer(a)
    OBVIOUS
  <2> HIDE DEF Newer
  <2>2. /\ IsFiniteSet(Newer(a)) /\ Cardinality(Newer(a)) <= Cardinality(S)
        /\ Cardinality(S) = Cardinality(Newer(a)) => S = Newer(a)
    BY <2>1, FS_Subset
  <2>3. Cardinality(Newer(a)) \in Nat
    BY <2>2, FS_CardinalityType
  <2>4. Cardinality(S) # Cardinality(Newer(a))
    BY <2>1, <2>2
  <2> QED
    BY <1>1, <2>2, <2>3, <2>4
<1>3. \A a, b \in S : a < b => Cardinality(Newer(b)) < Cardinality(Newer(a))
  <2> SUFFICES ASSUME NEW a \in S, NEW b \in S, a < b
               PROVE  Cardinality(Newer(b)) < Cardinality(Newer(a))
    OBVIOUS
  <2>1. a \in Nat /\ b \in Nat
    OBVIOUS
  <2>2. \A x \in Newer(b) : x \in Newer(a)
    BY <2>1
  <2>3. b \in Newer(a) /\ b \notin Newer(b)
    BY <2>1
  <2> HIDE DEF Newer
  <2>4. /\ Cardinality(Newer(b)) <= Cardinality(Newer(a))
        /\ Cardinality(Newer(a)) = Cardinality(Newer(b)) => Newer(a) = Newer(b)
    BY <1>2, <2>2, FS_Subset
  <2>5. Cardinality(Newer(b)) # Cardinality(Newer(a))
    BY <2>3, <2>4
  <2> QED
    BY <1>2, <2>4, <2>5
<1>4. InOrder(S) = [i \in 1..c |-> CHOOSE m \in S : Cardinality(Newer(m)) = c - i]
  BY DEF InOrder
<1>5. \A a, b \in S : Cardinality(Newer(a)) = Cardinality(Newer(b)) => a = b
  <2> SUFFICES ASSUME NEW a \in S, NEW b \in S, Cardinality(Newer(a)) = Cardinality(Newer(b))
               PROVE  a = b
    OBVIOUS
  <2>1. a \in Nat /\ b \in Nat
    OBVIOUS
  <2> HIDE DEF Newer
  <2>2. ~(a < b) /\ ~(b < a)
    BY <1>2, <1>3
  <2> QED
    BY <2>1, <2>2
<1> HIDE DEF Newer
<1>6. f \in Injection(S, T)
  <2>1. f \in [S -> T]
    BY <1>1, <1>2
  <2>2. \A a, b \in S : f[a] = f[b] => a = b
    BY <1>5
  <2> QED
    BY <2>1, <2>2 DEF Injection, IsInjective
<1>7. IsFiniteSet(T) /\ Cardinality(T) = c
  <2> HIDE DEF c
  <2>1. 0 \in Int /\ c - 1 \in Int
    BY <1>1
  <2>2. IsFiniteSet(T) /\ Cardinality(T) = IF 0 > c - 1 THEN 0 ELSE (c - 1) - 0 + 1
    BY <2>1, FS_Interval
  <2> QED
    BY <1>1, <2>2
<1>8. \A t \in T : \E a \in S : Cardinality(Newer(a)) = t
  <2>1. f \in Surjection(S, T)
    <3> HIDE DEF f, T
    <3> QED
      BY <1>6, <1>7, FS_Injection
  <2>2. \A t \in T : \E a \in S : f[a] = t
    <3> HIDE DEF f, T
    <3> QED
      BY <2>1 DEF Surjection
  <2> QED
    BY <2>2
<1>9. \A i \in 1..c : InOrder(S)[i] \in S /\ Cardinality(Newer(InOrder(S)[i])) = c - i
  <2> SUFFICES ASSUME NEW i \in 1..c
               PROVE  InOrder(S)[i] \in S /\ Cardinality(Newer(InOrder(S)[i])) = c - i
    OBVIOUS
  <2>1. c - i \in T
    BY <1>1
  <2>2. \E m \in S : Cardinality(Newer(m)) = c - i
    BY <1>8, <2>1
  <2>3. InOrder(S)[i] = CHOOSE m \in S : Cardinality(Newer(m)) = c - i
    BY <1>4
  <2> HIDE DEF c
  <2> QED
    BY <2>2, <2>3
<1> HIDE DEF c
<1>10. InOrder(S) \in Seq(S) /\ Len(InOrder(S)) = c
  <2>1. InOrder(S) \in [1..c -> S]
    BY <1>4, <1>9
  <2> QED
    BY <1>1, <2>1
<1>11. \A m \in S : InOrder(S)[c - Cardinality(Newer(m))] = m
  <2> SUFFICES ASSUME NEW m \in S PROVE InOrder(S)[c - Cardinality(Newer(m))] = m
    OBVIOUS
  <2> DEFINE n == Cardinality(Newer(m))
             x == InOrder(S)[c - n]
  <2>1. n \in Nat /\ n < c
    BY <1>2 DEF c
  <2>2. c - n \in 1..c /\ c - (c - n) = n
    BY <1>1, <2>1
  <2>3. x \in S /\ Cardinality(Newer(x)) = n
    BY <1>9, <2>2
  <2> HIDE DEF x
  <2>4. x = m
    BY <1>5, <2>3
  <2> QED
    BY <2>4 DEF x
<1> QED
  BY <1>1, <1>2, <1>10, <1>11 DEF c, Newer

(* The set is cut to its newest marks, which keep their places from the    *)
(* end.                                                                    *)
LEMMA KeepFacts ==
  ASSUME SeenListingConstants, NEW s \in Seq(Marks)
  PROVE  /\ KeepNewest(s) \in Seq(Marks)
         /\ Len(KeepNewest(s)) \in Nat /\ Len(KeepNewest(s)) <= MAX_SEEN_IDS
         /\ ToSet(KeepNewest(s)) \subseteq ToSet(s)
         /\ \A d \in Nat : d < MAX_SEEN_IDS /\ d < Len(s) =>
              /\ Len(KeepNewest(s)) - d \in DOMAIN KeepNewest(s)
              /\ KeepNewest(s)[Len(KeepNewest(s)) - d] = s[Len(s) - d]
<1> DEFINE n == Len(s)
           first == n - MAX_SEEN_IDS + 1
           r == SubSeq(s, first, n)
<1>1. n \in Nat /\ MAX_SEEN_IDS \in Nat \ {0} /\ DOMAIN s = 1..n
  BY DEF SeenListingConstants
<1>2. CASE n <= MAX_SEEN_IDS
  <2>1. KeepNewest(s) = s
    BY <1>2 DEF KeepNewest
  <2>2. \A d \in Nat : d < n => n - d \in DOMAIN s
    BY <1>1
  <2> QED
    BY <1>1, <1>2, <2>1, <2>2
<1>3. CASE ~(n <= MAX_SEEN_IDS)
  <2>1. KeepNewest(s) = r
    BY <1>3 DEF KeepNewest
  <2>2. first \in Int /\ n \in Int /\ first >= 1 /\ first <= n /\ n - first + 1 = MAX_SEEN_IDS
    BY <1>1, <1>3
  <2>3. \A i \in first..n : s[i] \in Marks
    <3>1. \A i \in first..n : i \in 1..n
      BY <1>1, <2>2
    <3> QED
      BY <1>1, <3>1
  <2> HIDE DEF first, n
  <2>4. /\ r \in Seq(Marks)
        /\ Len(r) = IF first <= n THEN n - first + 1 ELSE 0
        /\ \A i \in 1..(n - first + 1) : r[i] = s[first + i - 1]
    BY <2>2, <2>3, SubSeqProperties
  <2> HIDE DEF r
  <2>5. /\ r \in Seq(Marks) /\ Len(r) = MAX_SEEN_IDS /\ DOMAIN r = 1..MAX_SEEN_IDS
        /\ \A i \in 1..MAX_SEEN_IDS : r[i] = s[first + i - 1]
    BY <2>2, <2>4, LenProperties
  <2>6. \A i \in DOMAIN r : first + i - 1 \in DOMAIN s
    BY <1>1, <2>2, <2>5
  <2>7. ToSet(r) \subseteq ToSet(s)
    BY <2>5, <2>6 DEF ToSet
  <2>8. ASSUME NEW d \in Nat, d < MAX_SEEN_IDS
        PROVE  Len(r) - d \in DOMAIN r /\ r[Len(r) - d] = s[n - d]
    <3>1. MAX_SEEN_IDS - d \in 1..MAX_SEEN_IDS /\ first + (MAX_SEEN_IDS - d) - 1 = n - d
      BY <1>1, <2>2, <2>8
    <3> QED
      BY <2>5, <3>1
  <2> QED
    BY <1>1, <2>1, <2>5, <2>7, <2>8 DEF n
<1> QED
  BY <1>2, <1>3

(* What a merge leaves of the marks that were there and of the new ones.   *)
LEMMA MergeFacts ==
  ASSUME SeenListingConstants, NEW s \in Seq(Marks), NEW A \in SUBSET Marks, IsFiniteSet(A),
         NEW r, r = KeepNewest(s \o InOrder(A))
  PROVE  /\ r \in Seq(Marks) /\ Len(r) <= MAX_SEEN_IDS /\ ToSet(r) \subseteq ToSet(s) \cup A
         /\ \A d \in Nat : d < Len(s) /\ d + Cardinality(A) < MAX_SEEN_IDS =>
              /\ Len(r) - (d + Cardinality(A)) \in DOMAIN r
              /\ r[Len(r) - (d + Cardinality(A))] = s[Len(s) - d]
         /\ \A m \in A : LET d == Cardinality({k \in A : k > m}) IN
              d < MAX_SEEN_IDS => Len(r) - d \in DOMAIN r /\ r[Len(r) - d] = m
<1> DEFINE a == InOrder(A)
           c == Cardinality(A)
           t == s \o a
           Newer(m) == Cardinality({k \in A : k > m})
<1>1. MAX_SEEN_IDS \in Nat /\ Len(s) \in Nat /\ DOMAIN s = 1..Len(s)
  BY DEF SeenListingConstants
<1>2. /\ c \in Nat /\ a \in Seq(A) /\ Len(a) = c
      /\ \A m \in A : Newer(m) \in Nat /\ Newer(m) < c /\ a[c - Newer(m)] = m
  <2>1. A \in SUBSET Nat
    BY DEF Marks, Ids, Bootstrap
  <2> QED
    BY <2>1, InOrderFacts
<1> HIDE DEF a, c, Newer
<1>3. a \in Seq(Marks)
  BY <1>2
<1>4. /\ t \in Seq(Marks) /\ Len(t) = Len(s) + c
      /\ \A i \in 1..(Len(s) + c) : t[i] = IF i <= Len(s) THEN s[i] ELSE a[i - Len(s)]
  BY ZenonT(40), <1>2, <1>3, ConcatProperties
<1>5. ToSet(t) \subseteq ToSet(s) \cup A
  <2>1. DOMAIN t = 1..(Len(s) + c) /\ DOMAIN a = 1..c
    BY <1>2, <1>4, LenProperties
  <2>2. \A i \in 1..(Len(s) + c) : i <= Len(s) => i \in DOMAIN s
    BY <1>1, <1>2
  <2>3. \A i \in 1..(Len(s) + c) : i > Len(s) => i - Len(s) \in 1..c
    BY <1>1, <1>2
  <2>4. \A i \in 1..c : a[i] \in A
    BY <1>2
  <2> HIDE DEF t
  <2>5. \A i \in DOMAIN t : t[i] \in ToSet(s) \cup A
    BY <1>1, <1>4, <2>1, <2>2, <2>3, <2>4 DEF ToSet
  <2> QED
    BY <2>5 DEF ToSet
<1>6. r = KeepNewest(t)
  BY DEF t, a
<1> HIDE DEF t
<1>7. /\ r \in Seq(Marks) /\ Len(r) \in Nat /\ Len(r) <= MAX_SEEN_IDS /\ ToSet(r) \subseteq ToSet(t)
      /\ \A d \in Nat : d < MAX_SEEN_IDS /\ d < Len(t) =>
           Len(r) - d \in DOMAIN r /\ r[Len(r) - d] = t[Len(t) - d]
  BY <1>4, <1>6, KeepFacts
<1>8. ASSUME NEW d \in Nat, d < Len(s), d + c < MAX_SEEN_IDS
      PROVE  Len(r) - (d + c) \in DOMAIN r /\ r[Len(r) - (d + c)] = s[Len(s) - d]
  <2>1. /\ d + c \in Nat /\ d + c < Len(t) /\ Len(t) - (d + c) = Len(s) - d
        /\ Len(s) - d \in 1..(Len(s) + c) /\ Len(s) - d <= Len(s)
    BY <1>1, <1>2, <1>4, <1>8
  <2>2. t[Len(t) - (d + c)] = s[Len(s) - d]
    BY <1>4, <2>1
  <2> QED
    BY <1>7, <1>8, <2>1, <2>2
<1>9. ASSUME NEW m \in A, Newer(m) < MAX_SEEN_IDS
      PROVE  Len(r) - Newer(m) \in DOMAIN r /\ r[Len(r) - Newer(m)] = m
  <2>1. Newer(m) \in Nat /\ Newer(m) < c /\ a[c - Newer(m)] = m
    BY <1>2
  <2>2. /\ Newer(m) < Len(t) /\ Len(t) - Newer(m) \in 1..(Len(s) + c)
        /\ ~(Len(t) - Newer(m) <= Len(s)) /\ Len(t) - Newer(m) - Len(s) = c - Newer(m)
    BY <1>1, <1>2, <1>4, <2>1
  <2>3. t[Len(t) - Newer(m)] = m
    BY <1>4, <2>1, <2>2
  <2> QED
    BY <1>7, <1>9, <2>1, <2>2, <2>3
<1> QED
  BY <1>5, <1>7, <1>8, <1>9 DEF c, Newer

(* What a merge-write does to the set and to the count of later marks; a   *)
(* write that fails does nothing.                                          *)
LEMMA AddSeenFacts ==
  ASSUME SeenListingConstants, PipelineConstants, TypeOK, PlaceInv,
         NEW o \in D1Outcomes, NEW new \in SUBSET Marks, AddSeenIds(o, new)
  PROVE  /\ seen' \in Seq(Marks) /\ Len(seen') <= MAX_SEEN_IDS /\ hasRow' \in BOOLEAN
         /\ later' \in [Ids -> 0..None]
         /\ ToSet(seen') \subseteq ToSet(seen) \cup new
         /\ hasRow' \/ (hasRow' = hasRow /\ seen' = seen)
         /\ PlaceInv'
         /\ \A m \in Ids : later[m] # None => later'[m] # None
         /\ o.committed => hasRow' /\ \A m \in Ids : m \in new /\ m \notin ToSet(seen)
                                                      => later'[m] # None
<1> DEFINE A == new \ ToSet(seen)
           c == Cardinality(A)
           Newer(m) == Cardinality({k \in A : k > m})
<1>1. /\ seen \in Seq(Marks) /\ Len(seen) <= MAX_SEEN_IDS /\ hasRow \in BOOLEAN
      /\ MAX_SEEN_IDS \in Nat \ {0} /\ None = MAX_SEEN_IDS + 1
      /\ later \in [Ids -> 0..None] /\ Len(seen) \in Nat /\ DOMAIN seen = 1..Len(seen)
  <2>1. /\ seen \in Seq(Marks) /\ Len(seen) <= MAX_SEEN_IDS /\ hasRow \in BOOLEAN
        /\ later \in [Ids -> 0..None]
    BY DEF TypeOK, Marks
  <2>2. MAX_SEEN_IDS \in Nat \ {0} /\ None = MAX_SEEN_IDS + 1
    BY DEF SeenListingConstants, None
  <2> QED
    BY <2>1, <2>2
<1>2. CASE ~o.committed
  <2>1. seen' = seen /\ hasRow' = hasRow /\ later' = later
    BY <1>2 DEF AddSeenIds, seenRow
  <2> QED
    BY <1>1, <1>2, <2>1 DEF PlaceInv
<1>3. CASE o.committed
  <2>1. /\ seen' = KeepNewest(seen \o InOrder(A)) /\ hasRow' = TRUE
        /\ later' = [m \in Ids |-> Later(m, A)]
    BY <1>3 DEF AddSeenIds, Merge
  <2>2. A \in SUBSET Marks /\ IsFiniteSet(A) /\ c \in Nat
    <3>1. MaxId \in Int /\ 0 \in Int /\ Marks = 0..MaxId
      BY DEF Marks, Ids, Bootstrap, PipelineConstants
    <3>2. IsFiniteSet(0..MaxId)
      BY <3>1, FS_Interval
    <3>4. A \in SUBSET Marks
      OBVIOUS
    <3> HIDE DEF A, c
    <3>3. IsFiniteSet(A)
      BY <3>1, <3>2, <3>4, FS_Subset
    <3> QED
      BY <3>3, <3>4, FS_CardinalityType DEF c
  <2>3. \A m \in A : Newer(m) \in Nat
    <3>1. A \in SUBSET Nat
      <4>1. Marks \subseteq Nat
        BY DEF Marks, Ids, Bootstrap
      <4> QED
        BY <4>1
    <3> HIDE DEF A
    <3> QED
      BY <2>2, <3>1, InOrderFacts
  <2>4. \A m \in Ids : later'[m] = IF m \in A
                                     THEN IF Newer(m) < MAX_SEEN_IDS THEN Newer(m) ELSE MAX_SEEN_IDS
                                     ELSE IF later[m] = None THEN None
                                     ELSE IF later[m] + c < MAX_SEEN_IDS THEN later[m] + c
                                     ELSE MAX_SEEN_IDS
    <3> HIDE DEF A
    <3> QED
      BY <2>1 DEF Later
  <2> HIDE DEF Newer, c
  <2>5. later' \in [Ids -> 0..None]
    <3>1. \A m \in Ids : later'[m] \in 0..None
      BY <1>1, <2>2, <2>3, <2>4
    <3>2. later' = [m \in Ids |-> later'[m]]
      BY <2>1
    <3> HIDE DEF A
    <3> QED
      BY <3>1, <3>2
  <2>6. \A m \in Ids : later[m] # None \/ m \in A => later'[m] # None
    BY <1>1, <2>2, <2>3, <2>4
  <2>7. /\ seen' \in Seq(Marks) /\ Len(seen') <= MAX_SEEN_IDS
        /\ ToSet(seen') \subseteq ToSet(seen) \cup A
        /\ \A d \in Nat : d < Len(seen) /\ d + c < MAX_SEEN_IDS =>
             Len(seen') - (d + c) \in DOMAIN seen' /\ seen'[Len(seen') - (d + c)] = seen[Len(seen) - d]
        /\ \A m \in A : Newer(m) < MAX_SEEN_IDS =>
             Len(seen') - Newer(m) \in DOMAIN seen' /\ seen'[Len(seen') - Newer(m)] = m
    <3> HIDE DEF A
    <3> QED
      BY SMTT(20), <1>1, <2>1, <2>2, MergeFacts DEF c, Newer
  <2>8. ASSUME NEW m \in Ids, later'[m] < MAX_SEEN_IDS
        PROVE  Len(seen') - later'[m] \in DOMAIN seen' /\ seen'[Len(seen') - later'[m]] = m
    <3>1. CASE m \in A
      <4>1. Newer(m) < MAX_SEEN_IDS /\ later'[m] = Newer(m)
        BY <1>1, <2>3, <2>4, <2>8, <3>1
      <4> QED
        BY <2>7, <3>1, <4>1
    <3>2. CASE m \notin A
      <4>1. later[m] \in Nat /\ later[m] + c < MAX_SEEN_IDS /\ later'[m] = later[m] + c
        BY <1>1, <2>2, <2>4, <2>8, <3>2
      <4>2. later[m] < MAX_SEEN_IDS
        BY <1>1, <2>2, <4>1
      <4>3. Len(seen) - later[m] \in DOMAIN seen /\ seen[Len(seen) - later[m]] = m
        BY <4>2 DEF PlaceInv
      <4>4. later[m] < Len(seen)
        BY <1>1, <4>1, <4>3
      <4> QED
        BY <2>7, <4>1, <4>3, <4>4
    <3> QED
      BY <3>1, <3>2
  <2>9. PlaceInv'
    BY <2>8 DEF PlaceInv
  <2>10. hasRow' /\ hasRow' \in BOOLEAN
    BY <2>1
  <2>11. \A m \in Ids : m \in new /\ m \notin ToSet(seen) => later'[m] # None
    BY <2>6
  <2>12. ToSet(seen') \subseteq ToSet(seen) \cup new
    BY <2>7
  <2> HIDE DEF A
  <2> QED
    BY <2>5, <2>6, <2>7, <2>9, <2>10, <2>11, <2>12
<1> QED
  BY <1>2, <1>3

(* What is being marked is a mark.                                         *)
LEMMA NewMarks ==
  ASSUME TypeOK, PipelineConstants
  PROVE  /\ (IF entries = {} THEN {Bootstrap} ELSE entries) \in SUBSET Marks
         /\ cur \in Ids => {cur} \in SUBSET Marks
  BY DEF TypeOK, Marks

(* Every step leaves the state of its type.                                *)
LEMMA StepTypeOK ==
  ASSUME SeenListingConstants, PipelineConstants, TypeOK, PipelineInv, MarkingInv, PlaceInv, Next
  PROVE  TypeOK'
<1>1. PipelineTypeOK /\ seen \in Seq(Marks) /\ NoMsg = 0
  BY DEF TypeOK, Marks, NoMsg
<1>2. ASSUME UNCHANGED <<alert, pushFails, pushed, nobody>>, faults' \in 0..MaxFaults
      PROVE  PipelineTypeOK'
  BY <1>1, <1>2 DEF PipelineTypeOK
<1>3. ASSUME NEW o \in D1Outcomes, D1(o) PROVE faults' \in 0..MaxFaults
  BY <1>1, <1>3, FaultFacts DEF PipelineTypeOK
<1>4. Fault \/ NoFault => faults' \in 0..MaxFaults
  BY <1>1 DEF PipelineTypeOK, Fault, NoFault, PipelineConstants
<1>5. CASE Publish \/ TakeDown
  <2>1. UNCHANGED <<alert, pushFails, pushed, nobody, pc, cur, faults, seenRow, tick, ghosts>>
    BY <1>5 DEF Publish, TakeDown, pipelineVars
  <2>2. PipelineTypeOK'
    BY <1>1, <1>2, <2>1 DEF PipelineTypeOK
  <2>3. visible' \subseteq 1..latest' /\ latest' \in 0..MaxId
    <3>1. CASE Publish
      BY <3>1 DEF Publish, TypeOK, PipelineConstants
    <3>2. CASE TakeDown
      BY <3>2 DEF TakeDown, TypeOK
    <3> QED
      BY <1>5, <3>1, <3>2
  <2> QED
    BY <2>1, <2>2, <2>3 DEF TypeOK, seenRow, tick, ghosts
<1>6. ASSUME UNCHANGED <<tables, provider, site, seenRow, ghosts>>, faults' \in 0..MaxFaults,
             pc' \in PipelinePCs \cup {"idle", "state_row", "seed", "seen", "next", "mark"},
             cur' \in Ids \cup {NoMsg}, entries' \subseteq Ids,
             seenIds' \subseteq Ids \cup {Bootstrap}, processed' \in 0..MAX_MESSAGES_PER_TICK
      PROVE  TypeOK'
  <2>1. PipelineTypeOK'
    BY <1>2, <1>6 DEF tables, provider
  <2> QED
    BY <1>6, <2>1 DEF TypeOK, site, seenRow, ghosts
<1>7. MAX_MESSAGES_PER_TICK \in Nat
  BY DEF SeenListingConstants
<1>8. EndOfTick => /\ pc' = "idle" /\ cur' \in Ids \cup {NoMsg} /\ entries' \subseteq Ids
                   /\ seenIds' \subseteq Ids \cup {Bootstrap}
                   /\ processed' \in 0..MAX_MESSAGES_PER_TICK
  BY <1>7 DEF EndOfTick
<1>9. CASE FetchEntries
  <2>1. visible \subseteq Ids
    BY DEF TypeOK, Ids
  <2>2. entries' \subseteq Ids /\ (Fault \/ NoFault) /\ pc' = "state_row"
        /\ UNCHANGED <<tables, provider, cur, site, seenRow, seenIds, processed, ghosts>>
    BY <1>9, <2>1 DEF FetchEntries
  <2> QED
    BY <1>4, <1>6, <2>2 DEF TypeOK
<1>10. ASSUME NEW o \in D1Outcomes, CheckStateRow(o)
       PROVE  TypeOK'
  BY SMTT(20), <1>3, <1>6, <1>8, <1>10 DEF CheckStateRow, TypeOK, tick
<1>11. ASSUME NEW o \in D1Outcomes, ReadSeen(o)
       PROVE  TypeOK'
  <2>1. ToSet(seen) \subseteq Ids \cup {Bootstrap}
    BY <1>1 DEF ToSet, Marks
  <2> QED
    BY SMTT(20), <1>3, <1>6, <1>8, <1>11, <2>1 DEF ReadSeen, TypeOK
<1>12. CASE TakeEntry
  <2>1. processed' \in 0..MAX_MESSAGES_PER_TICK
    BY <1>7, <1>12 DEF TakeEntry, TypeOK
  <2>2. cur' \in Ids /\ entries' \subseteq Ids
    BY <1>12 DEF TakeEntry, TypeOK
  <2> QED
    BY <1>4, <1>6, <1>12, <2>1, <2>2 DEF TakeEntry, TypeOK, PipelinePCs
<1>13. CASE JudgeIrrelevant \/ PassOverFailed \/ EndTick \/ Kill
  BY <1>4, <1>6, <1>8, <1>13 DEF JudgeIrrelevant, PassOverFailed, EndTick, Kill, TypeOK, tick
<1>14. ASSUME NEW o \in D1Outcomes, SeedSeen(o) \/ MarkSeen(o)
       PROVE  TypeOK'
  <2>1. /\ seen' \in Seq(Marks) /\ Len(seen') <= MAX_SEEN_IDS /\ hasRow' \in BOOLEAN
        /\ later' \in [Ids -> 0..None]
    <3>1. PICK new \in SUBSET Marks : AddSeenIds(o, new)
      BY <1>14, NewMarks DEF SeedSeen, MarkSeen, MarkingInv, PipelinePCs
    <3> QED
      BY <3>1, AddSeenFacts
  <2>2. UNCHANGED <<tables, provider, site>> /\ D1(o)
    BY <1>14 DEF SeedSeen, MarkSeen
  <2>3. PipelineTypeOK'
    BY <1>2, <1>3, <2>2 DEF tables, provider
  <2>4. /\ pc' \in {"idle", "next"} /\ cur' = NoMsg /\ entries' \subseteq Ids
        /\ seenIds' \subseteq Ids \cup {Bootstrap} /\ processed' \in 0..MAX_MESSAGES_PER_TICK
        /\ bootstrapped' \subseteq Ids
    <3>1. CASE SeedSeen(o)
      BY <1>7, <3>1 DEF SeedSeen, EndOfTick, TypeOK
    <3>2. CASE MarkSeen(o)
      BY <3>2 DEF MarkSeen, TypeOK, MarkingInv, PipelinePCs
    <3> QED
      BY <1>14, <3>1, <3>2
  <2> QED
    BY <2>1, <2>2, <2>3, <2>4 DEF TypeOK, Marks, site
<1>15. CASE Pipe
  <2>1. PipelineTypeOK' /\ cur' = cur /\ pc' \in PipelinePCs
    BY <1>1, <1>15, PipelineStepType DEF Pipe, PipelineOK
  <2> QED
    BY <1>15, <2>1 DEF Pipe, TypeOK, site, seenRow, tick, ghosts
<1> QED
  BY <1>5, <1>9, <1>10, <1>11, <1>12, <1>13, <1>14, <1>15 DEF Next, CrawlStep

(* Between its calls the crawler leaves the pipeline as it was.            *)
LEMMA StepPipelineInv ==
  ASSUME SeenListingConstants, PipelineConstants, TypeOK, PipelineInv, MarkingInv, Next
  PROVE  PipelineInv'
<1>1. CASE Pipe
  BY <1>1, PipelineStepInv DEF Pipe, PipelineOK, TypeOK
<1>2. ASSUME UNCHANGED <<alert, pushFails, pushed, nobody>>,
             \/ pc' = pc /\ cur' = cur
             \/ pc' \notin PipelinePCs
             \/ pc' = "parse" /\ cur' \in Ids
      PROVE  PipelineInv'
  BY <1>2 DEF PipelineInv, PipelinePCs, StampedMeansDelivered, Delivered, DeliveredDuplicate, Abandoned
<1>3. CASE Publish \/ TakeDown
  BY <1>2, <1>3 DEF Publish, TakeDown, pipelineVars
<1>4. CASE CrawlStep \/ Kill
  <2>1. UNCHANGED <<alert, pushFails, pushed, nobody>>
    BY <1>4 DEF CrawlStep, Kill, FetchEntries, TakeEntry, JudgeIrrelevant, PassOverFailed, EndTick,
                CheckStateRow, SeedSeen, ReadSeen, MarkSeen, tables, provider
  <2>2. pc' \notin PipelinePCs \/ (pc' = "parse" /\ cur' \in Ids)
    BY <1>4 DEF CrawlStep, Kill, FetchEntries, TakeEntry, JudgeIrrelevant, PassOverFailed, EndTick,
                CheckStateRow, SeedSeen, ReadSeen, MarkSeen, EndOfTick, PipelinePCs, TypeOK
  <2> QED
    BY <1>2, <2>1, <2>2
<1> QED
  BY <1>1, <1>3, <1>4 DEF Next

(* Only a marking step writes the set and the counts.                      *)
LEMMA SetKept ==
  ASSUME Next, \A o \in D1Outcomes : ~SeedSeen(o) /\ ~MarkSeen(o)
  PROVE  UNCHANGED <<seenRow, ghosts>>
  BY DEF Next, CrawlStep, Publish, TakeDown, FetchEntries, TakeEntry, JudgeIrrelevant, PassOverFailed,
         EndTick, CheckStateRow, ReadSeen, Pipe, Kill, site

(* A step that marks, and what it marks.                                   *)
LEMMA SetWritten ==
  ASSUME SeenListingConstants, PipelineConstants, TypeOK, MarkingInv, PlaceInv,
         NEW o \in D1Outcomes, SeedSeen(o) \/ MarkSeen(o),
         NEW new, new = IF SeedSeen(o) THEN IF entries = {} THEN {Bootstrap} ELSE entries ELSE {cur}
  PROVE  /\ new \in SUBSET Marks /\ AddSeenIds(o, new)
         /\ SeedSeen(o) => pc = "seed" /\ pc' = "idle"
         /\ MarkSeen(o) => pc \in {"submitted", "mark"} /\ pc' = "next" /\ cur \in Ids
         /\ ~(SeedSeen(o) /\ MarkSeen(o))
         /\ cur' = NoMsg /\ UNCHANGED <<alert, pushFails, pushed, nobody, site>> /\ D1(o)
<1>1. CASE SeedSeen(o)
  BY <1>1, NewMarks DEF SeedSeen, MarkSeen, EndOfTick, tables, provider
<1>2. CASE MarkSeen(o)
  <2>1. ~SeedSeen(o) /\ cur \in Ids
    BY <1>2 DEF SeedSeen, MarkSeen, MarkingInv, PipelinePCs
  <2> QED
    BY <1>2, <2>1, NewMarks DEF MarkSeen, tables, provider
<1> QED
  BY <1>1, <1>2

(* What is finished with stays so.                                         *)
LEMMA DoneForGood ==
  ASSUME PipelineConstants, TypeOK, PipelineInv, Next, NEW m \in Ids,
         alert[m] = "notified" \/ Abandoned(m)
  PROVE  alert'[m] = "notified" \/ Abandoned(m)'
<1>1. CASE Pipe
  BY <1>1, PipelineStepProgress DEF Pipe, PipelineOK, TypeOK
<1>2. CASE ~Pipe
  <2>1. UNCHANGED <<alert, pushFails>>
    BY <1>2 DEF Next, CrawlStep, Publish, TakeDown, FetchEntries, TakeEntry, JudgeIrrelevant,
         PassOverFailed, EndTick, CheckStateRow, SeedSeen, ReadSeen, MarkSeen, Kill, tables, pipelineVars
  <2> QED
    BY <2>1 DEF Abandoned
<1> QED
  BY <1>1, <1>2

(* Every step keeps the meaning of a mark.                                 *)
LEMMA StepMarked ==
  ASSUME SeenListingConstants, PipelineConstants, TypeOK, PipelineInv, MarkingInv, PlaceInv,
         MarkedMeansDone, Next
  PROVE  MarkedMeansDone'
<1> DEFINE Done(m) == alert[m] = "notified" \/ Abandoned(m)
<1>1. ToSet(seen) \subseteq Marks
  BY DEF TypeOK, ToSet, Marks
<1>2. \A m \in Ids : Done(m) => Done(m)'
  BY DoneForGood
<1>3. \A m \in ToSet(seen) \ {Bootstrap} : Done(m) \/ m \in Irrelevant \cup bootstrapped
  BY DEF MarkedMeansDone
<1>4. SUFFICES ASSUME NEW m \in ToSet(seen') \ {Bootstrap}
               PROVE  Done(m)' \/ m \in Irrelevant \cup bootstrapped'
  BY DEF MarkedMeansDone
<1> HIDE DEF Done
<1>5. CASE \A o \in D1Outcomes : ~SeedSeen(o) /\ ~MarkSeen(o)
  <2>1. seen' = seen /\ bootstrapped' = bootstrapped
    BY <1>5, SetKept DEF seenRow, ghosts
  <2>2. m \in Ids
    BY <1>1, <1>4, <2>1 DEF Marks
  <2> QED
    BY <1>2, <1>3, <1>4, <2>1, <2>2
<1>6. ASSUME NEW o \in D1Outcomes, SeedSeen(o)
      PROVE  Done(m)' \/ m \in Irrelevant \cup bootstrapped'
  <2> DEFINE new == IF entries = {} THEN {Bootstrap} ELSE entries
  <2>1. AddSeenIds(o, new) /\ new \in SUBSET Marks
    BY <1>6, NewMarks DEF SeedSeen
  <2>2. bootstrapped' = IF o.committed THEN entries ELSE bootstrapped
    BY <1>6 DEF SeedSeen
  <2>3. ToSet(seen) = {}
    <3>1. seen = <<>>
      BY <1>6 DEF SeedSeen, MarkingInv
    <3> QED
      BY <3>1 DEF ToSet
  <2>4. CASE o.committed
    <3>1. ToSet(seen') \subseteq new
      <4> HIDE DEF new
      <4>1. ToSet(seen') \subseteq ToSet(seen) \cup new
        BY <2>1, AddSeenFacts
      <4> QED
        BY <2>3, <4>1
    <3> QED
      BY <1>4, <2>2, <2>4, <3>1
  <2>5. CASE ~o.committed
    <3>1. seen' = seen
      BY <2>1, <2>5 DEF AddSeenIds, seenRow
    <3> QED
      BY <1>4, <2>3, <3>1
  <2> QED
    BY <2>4, <2>5
<1>7. ASSUME NEW o \in D1Outcomes, MarkSeen(o)
      PROVE  Done(m)' \/ m \in Irrelevant \cup bootstrapped'
  <2>1. /\ pc \in {"submitted", "mark"} /\ cur \in Ids /\ AddSeenIds(o, {cur})
        /\ bootstrapped' = bootstrapped
    BY <1>7 DEF MarkSeen, MarkingInv, PipelinePCs
  <2>2. ToSet(seen') \subseteq ToSet(seen) \cup {cur}
    BY <2>1, AddSeenFacts, NewMarks
  <2>3. CASE m \in ToSet(seen)
    <3>1. m \in Ids
      BY <1>1, <1>4, <2>3 DEF Marks
    <3> QED
      BY <1>2, <1>3, <1>4, <2>1, <2>3, <3>1
  <2>4. CASE m = cur
    <3>1. CASE pc = "submitted"
      <4>1. Done(cur)
        BY <3>1 DEF PipelineInv, Done
      <4> QED
        BY <1>2, <2>1, <2>4, <4>1
    <3>2. CASE pc = "mark"
      BY <2>4, <3>2 DEF MarkingInv
    <3> QED
      BY <2>1, <3>1, <3>2
  <2> QED
    BY <1>4, <2>2, <2>3, <2>4
<1> QED
  BY <1>5, <1>6, <1>7

(* Every step keeps what the steps of a tick may rely on.                  *)
LEMMA StepMarking ==
  ASSUME SeenListingConstants, PipelineConstants, TypeOK, PipelineInv, MarkingInv, PlaceInv, Next
  PROVE  MarkingInv'
<1> USE DEF Working
<1>1. CASE Publish \/ TakeDown
  BY <1>1 DEF Publish, TakeDown, pipelineVars, seenRow, tick, MarkingInv
<1>2. CASE Pipe
  <2>1. cur' = cur /\ pc \in PipelinePCs /\ pc' \in PipelinePCs
    BY <1>2, PipelineStepType DEF Pipe, PipelineOK, TypeOK
  <2>2. UNCHANGED <<hasRow, seen, seenIds>>
    BY <1>2 DEF Pipe, seenRow, tick
  <2> QED
    BY <2>1, <2>2 DEF MarkingInv, PipelinePCs
<1>3. CASE FetchEntries \/ EndTick \/ Kill \/ PassOverFailed
  BY <1>3 DEF FetchEntries, EndTick, Kill, PassOverFailed, EndOfTick, seenRow, tick, MarkingInv,
              PipelinePCs
<1>4. CASE TakeEntry \/ JudgeIrrelevant
  <2>1. cur' \in Ids /\ pc' \in {"parse", "mark"} /\ (pc' = "mark" => cur' \in Irrelevant)
    <3>1. CASE TakeEntry
      BY <3>1 DEF TakeEntry, TypeOK
    <3>2. CASE JudgeIrrelevant
      BY <3>2 DEF JudgeIrrelevant, MarkingInv, PipelinePCs
    <3> QED
      BY <1>4, <3>1, <3>2
  <2>2. UNCHANGED <<hasRow, seen, seenIds>> /\ pc \in {"next", "parse"}
    BY <1>4 DEF TakeEntry, JudgeIrrelevant, seenRow, tick
  <2> QED
    BY <2>1, <2>2 DEF MarkingInv, PipelinePCs
<1>5. ASSUME NEW o \in D1Outcomes, CheckStateRow(o)
      PROVE  MarkingInv'
  <2>1. pc' \in {"idle", "seen", "seed"} /\ (pc' = "seed" => ~hasRow)
    BY <1>5 DEF CheckStateRow, EndOfTick
  <2>2. UNCHANGED <<hasRow, seen>>
    BY <1>5 DEF CheckStateRow, seenRow
  <2> QED
    BY <2>1, <2>2 DEF MarkingInv, PipelinePCs
<1>6. ASSUME NEW o \in D1Outcomes, ReadSeen(o)
      PROVE  MarkingInv'
  <2>1. pc' = "idle" \/ (pc' = "next" /\ seenIds' = ToSet(seen))
    BY <1>6 DEF ReadSeen, EndOfTick
  <2>2. UNCHANGED <<hasRow, seen>>
    BY <1>6 DEF ReadSeen, seenRow
  <2> QED
    BY <2>1, <2>2 DEF MarkingInv, PipelinePCs
<1>7. ASSUME NEW o \in D1Outcomes, SeedSeen(o)
      PROVE  MarkingInv'
  <2>1. pc' = "idle" /\ (hasRow' \/ (hasRow' = hasRow /\ seen' = seen))
    BY <1>7, NewMarks, AddSeenFacts DEF SeedSeen, EndOfTick
  <2> QED
    BY <2>1 DEF MarkingInv, PipelinePCs
<1>8. ASSUME NEW o \in D1Outcomes, MarkSeen(o)
      PROVE  MarkingInv'
  <2>1. pc \in {"submitted", "mark"} /\ cur \in Ids /\ AddSeenIds(o, {cur})
    BY <1>8 DEF MarkSeen, MarkingInv, PipelinePCs
  <2>2. pc' = "next" /\ seenIds' = seenIds \cup {cur}
    BY <1>8 DEF MarkSeen
  <2>3. /\ hasRow' \/ (hasRow' = hasRow /\ seen' = seen)
        /\ ToSet(seen') \subseteq ToSet(seen) \cup {cur}
    BY <2>1, NewMarks, AddSeenFacts
  <2>4. ToSet(seen) \subseteq seenIds
    BY <2>1 DEF MarkingInv, PipelinePCs
  <2> QED
    BY <2>2, <2>3, <2>4 DEF MarkingInv, PipelinePCs
<1> QED
  BY <1>1, <1>2, <1>3, <1>4, <1>5, <1>6, <1>7, <1>8 DEF Next, CrawlStep

(* Every step keeps the marks in their places.                             *)
LEMMA StepPlace ==
  ASSUME SeenListingConstants, PipelineConstants, TypeOK, MarkingInv, PlaceInv, Next
  PROVE  PlaceInv'
<1>1. CASE \A o \in D1Outcomes : ~SeedSeen(o) /\ ~MarkSeen(o)
  BY <1>1, SetKept DEF seenRow, ghosts, PlaceInv
<1>2. ASSUME NEW o \in D1Outcomes, SeedSeen(o)
      PROVE  PlaceInv'
  BY <1>2, NewMarks, AddSeenFacts DEF SeedSeen
<1>3. ASSUME NEW o \in D1Outcomes, MarkSeen(o)
      PROVE  PlaceInv'
  <2>1. cur \in Ids /\ AddSeenIds(o, {cur})
    BY <1>3 DEF MarkSeen, MarkingInv, PipelinePCs
  <2> QED
    BY <2>1, NewMarks, AddSeenFacts
<1> QED
  BY <1>1, <1>2, <1>3

(* A message is taken up when no mark of it is left.                       *)
LEMMA StepReworked ==
  ASSUME SeenListingConstants, PipelineConstants, TypeOK, PipelineInv, MarkingInv, PlaceInv,
         ReworkedOnlyPastCap, Next
  PROVE  ReworkedOnlyPastCap'
<1> SUFFICES ASSUME pc' = "parse" PROVE later'[cur'] \in {MAX_SEEN_IDS, None}
  BY DEF ReworkedOnlyPastCap
<1>1. \/ pc = "parse" /\ cur' = cur /\ later' = later
      \/ TakeEntry
  <2>1. CASE Publish \/ TakeDown
    BY <2>1 DEF Publish, TakeDown, pipelineVars, ghosts
  <2>2. CASE Pipe
    BY <2>2 DEF Pipe, PipelineStep, Parse, InsertAlert, ReadBack, StoreFails, FindDuplicate, Send,
                SendAccepted, SendToNobody, SendFails, TargetingThrows, CountFailedPush, StampNotified
  <2>3. CASE (CrawlStep \/ Kill) /\ ~TakeEntry
    BY <2>3 DEF CrawlStep, Kill, FetchEntries, JudgeIrrelevant, PassOverFailed, EndTick,
                CheckStateRow, SeedSeen, ReadSeen, MarkSeen, EndOfTick
  <2> QED
    BY <2>1, <2>2, <2>3 DEF Next
<1>2. CASE TakeEntry
  <2>1. /\ pc = "next" /\ cur' \in entries \ seenIds /\ later' = later
    BY <1>2 DEF TakeEntry, ghosts
  <2>2. cur' \in Ids /\ cur' \notin ToSet(seen)
    BY <2>1 DEF TypeOK, MarkingInv, Working
  <2>3. ~(later[cur'] < MAX_SEEN_IDS)
    BY <2>2 DEF PlaceInv, ToSet
  <2>4. later[cur'] \in 0..None /\ None = MAX_SEEN_IDS + 1 /\ MAX_SEEN_IDS \in Nat
    BY <2>2 DEF TypeOK, None, SeenListingConstants
  <2>5. later[cur'] \in {MAX_SEEN_IDS, None}
    BY <2>3, <2>4
  <2> QED
    BY <2>1, <2>5
<1> QED
  BY <1>1, <1>2 DEF ReworkedOnlyPastCap

(* A fault is never taken back.                                            *)
LEMMA FaultsStay ==
  ASSUME TypeOK, Next
  PROVE  faults' >= faults
<1>1. faults \in Nat
  BY DEF TypeOK, PipelineTypeOK
<1>2. faults' = faults \/ faults' = faults + 1
  <2>1. CASE Publish \/ TakeDown
    BY <2>1 DEF Publish, TakeDown, pipelineVars
  <2>2. CASE Pipe
    BY <2>2 DEF Pipe, PipelineStep, Parse, InsertAlert, ReadBack, StoreFails, FindDuplicate, Send,
                SendAccepted, SendToNobody, SendFails, TargetingThrows, CountFailedPush,
                StampNotified, D1, Fault, NoFault
  <2>3. CASE CrawlStep \/ Kill
    BY <2>3 DEF CrawlStep, Kill, FetchEntries, TakeEntry, JudgeIrrelevant, PassOverFailed, EndTick,
                CheckStateRow, SeedSeen, ReadSeen, MarkSeen, D1, Fault, NoFault
  <2> QED
    BY <2>1, <2>2, <2>3 DEF Next
<1> QED
  BY <1>1, <1>2

(* Every step keeps the backlog before the first run, and its marks after. *)
LEMMA StepBacklog ==
  ASSUME SeenListingConstants, PipelineConstants, TypeOK, PipelineInv, MarkingInv, PlaceInv,
         BacklogInv, Next
  PROVE  BacklogInv'
<1> DEFINE Old == 1..History
           Covered(v, e, c) == \A m \in Old : m \in v \/ m \in e \/ m = c => later[m] # None
<1> USE DEF Working
<1>1. /\ latest \in Nat /\ visible \subseteq 1..latest /\ History \in Nat /\ History <= latest
      /\ NoMsg \notin Old /\ faults \in Nat /\ \A m \in Old : m \in Ids
  <2>1. latest \in 0..MaxId /\ visible \subseteq 1..latest /\ faults \in Nat
    BY DEF TypeOK, PipelineTypeOK
  <2>2. History \in Nat /\ History <= MaxId /\ MaxId \in Nat /\ History <= latest
    BY DEF SeenListingConstants, PipelineConstants, BacklogInv
  <2> QED
    BY <2>1, <2>2 DEF Ids, NoMsg
<1>2. latest' \in {latest, latest + 1}
  BY DEF Next, CrawlStep, Publish, TakeDown, FetchEntries, TakeEntry, JudgeIrrelevant, PassOverFailed,
         EndTick, CheckStateRow, SeedSeen, ReadSeen, MarkSeen, Pipe, Kill, site
<1>3. History <= latest'
  BY <1>1, <1>2
<1>4. SUFFICES ASSUME faults' = 0 PROVE BacklogInv'
  BY <1>3 DEF BacklogInv
<1>5. faults = 0 /\ ~Fault
  BY <1>1, <1>4, FaultsStay DEF Fault
<1>6. /\ pc \in {"state_row", "seed"} => visible \cap Old \subseteq entries
      /\ pc \in {"seen"} \cup Working => hasRow
      /\ hasRow => Covered(visible, entries, cur)
  BY <1>5 DEF BacklogInv
<1>7. ASSUME UNCHANGED <<hasRow, later>>, visible' \cap Old \subseteq visible,
             entries' \cap Old \subseteq entries \cup visible,
             cur' \in {cur, NoMsg} \cup entries,
             pc' \in {"state_row", "seed"} => visible' \cap Old \subseteq entries',
             pc' \in {"seen"} \cup Working => hasRow
      PROVE  BacklogInv'
  BY <1>1, <1>3, <1>6, <1>7 DEF BacklogInv
<1>8. CASE Publish \/ TakeDown
  <2>1. UNCHANGED <<hasRow, later, entries, cur, pc>>
    BY <1>8 DEF Publish, TakeDown, pipelineVars, seenRow, tick, ghosts
  <2>2. visible' \cap Old \subseteq visible
    <3>1. latest + 1 \notin Old
      BY <1>1
    <3>2. visible' \subseteq visible \cup {latest + 1}
      BY <1>8 DEF Publish, TakeDown
    <3> QED
      BY <3>1, <3>2
  <2> QED
    BY <1>6, <1>7, <2>1, <2>2
<1>9. CASE FetchEntries
  <2>1. PICK readable \in SUBSET Buckets \ {{}} :
          /\ entries' = visible \cap UNION readable
          /\ IF readable = Buckets THEN NoFault ELSE Fault
    BY <1>9 DEF FetchEntries
  <2>2. readable = Buckets /\ UNION Buckets = Ids /\ visible \subseteq Ids
    BY <1>5, <2>1 DEF SeenListingConstants, TypeOK, Ids
  <2>3. entries' = visible
    BY <2>1, <2>2
  <2>4. UNCHANGED <<hasRow, later, visible, cur>> /\ pc' = "state_row"
    BY <1>9 DEF FetchEntries, seenRow, ghosts, site
  <2> QED
    BY <1>7, <2>3, <2>4 DEF PipelinePCs
<1>10. ASSUME NEW o \in D1Outcomes, D1(o)
       PROVE  o.ok /\ o.committed
  BY <1>5, <1>10, D1OutcomeFacts DEF D1
<1>11. EndOfTick => pc' = "idle" /\ cur' = NoMsg /\ entries' = {}
  BY DEF EndOfTick
<1>12. ASSUME NEW o \in D1Outcomes, CheckStateRow(o)
       PROVE  BacklogInv'
  <2>1. o.ok /\ pc = "state_row" /\ UNCHANGED <<hasRow, later, visible>>
    BY <1>10, <1>12 DEF CheckStateRow, seenRow, ghosts, site
  <2>2. \/ EndOfTick
        \/ pc' = "seen" /\ hasRow /\ UNCHANGED <<cur, entries>>
        \/ pc' = "seed" /\ UNCHANGED <<cur, entries>>
    BY <1>12, <2>1 DEF CheckStateRow, tick
  <2> QED
    BY <1>6, <1>7, <1>11, <2>1, <2>2 DEF PipelinePCs
<1>13. ASSUME NEW o \in D1Outcomes, ReadSeen(o)
       PROVE  BacklogInv'
  <2>1. UNCHANGED <<hasRow, later, visible>> /\ pc = "seen" /\ hasRow
    BY <1>6, <1>13 DEF ReadSeen, seenRow, ghosts, site
  <2>2. EndOfTick \/ (pc' = "next" /\ UNCHANGED <<cur, entries>>)
    BY <1>13 DEF ReadSeen
  <2> QED
    BY <1>7, <1>11, <2>1, <2>2 DEF PipelinePCs
<1>14. CASE TakeEntry
  <2>1. UNCHANGED <<hasRow, later, visible>> /\ pc = "next" /\ pc' = "parse"
    BY <1>14 DEF TakeEntry, seenRow, ghosts, site
  <2>2. cur' \in entries /\ entries' \subseteq entries
    BY <1>14 DEF TakeEntry
  <2> QED
    BY <1>6, <1>7, <2>1, <2>2
<1>15. CASE JudgeIrrelevant \/ PassOverFailed
  <2>1. /\ UNCHANGED <<hasRow, later, visible, entries>> /\ cur' \in {cur, NoMsg}
        /\ pc \in Working /\ pc' \in {"mark", "next"}
    BY <1>15 DEF JudgeIrrelevant, PassOverFailed, seenRow, ghosts, site, tick, PipelinePCs
  <2>2. hasRow
    BY <1>6, <2>1
  <2> QED
    BY <1>7, <2>1, <2>2
<1>16. CASE EndTick \/ Kill
  <2>1. UNCHANGED <<hasRow, later, visible>> /\ EndOfTick
    BY <1>16 DEF EndTick, Kill, seenRow, ghosts, site
  <2>2. pc' = "idle" /\ cur' = NoMsg /\ entries' = {}
    BY <1>11, <2>1
  <2>3. pc' \notin {"state_row", "seed", "seen"} \cup Working
    BY <2>2 DEF PipelinePCs
  <2> QED
    BY <1>7, <2>1, <2>2, <2>3
<1>17. CASE Pipe
  <2>1. cur' = cur /\ pc \in PipelinePCs /\ pc' \in PipelinePCs
    BY <1>17, PipelineStepType DEF Pipe, PipelineOK, TypeOK
  <2>2. UNCHANGED <<hasRow, later, visible, entries>>
    BY <1>17 DEF Pipe, seenRow, ghosts, site, tick
  <2> QED
    BY <1>6, <1>7, <2>1, <2>2 DEF PipelinePCs
<1>18. ASSUME NEW o \in D1Outcomes, SeedSeen(o)
       PROVE  BacklogInv'
  <2> DEFINE new == IF entries = {} THEN {Bootstrap} ELSE entries
  <2>1. /\ AddSeenIds(o, new) /\ new \in SUBSET Marks /\ o.committed /\ EndOfTick
        /\ pc = "seed" /\ visible' = visible
    BY <1>10, <1>18, NewMarks DEF SeedSeen, site
  <2>2. ToSet(seen) = {}
    <3>1. seen = <<>>
      BY <2>1 DEF MarkingInv
    <3> QED
      BY <3>1 DEF ToSet
  <2>3. \A m \in Ids : m \in new => later'[m] # None
    <3> HIDE DEF new
    <3> QED
      BY <2>1, <2>2, AddSeenFacts
  <2>4. \A m \in visible \cap Old : later'[m] # None
    <3>1. \A m \in visible \cap Old : m \in entries /\ m \in Ids
      BY <1>1, <1>6, <2>1
    <3> QED
      BY <2>3, <3>1
  <2> QED
    BY <1>1, <1>3, <1>11, <2>1, <2>4 DEF BacklogInv, PipelinePCs
<1>19. ASSUME NEW o \in D1Outcomes, MarkSeen(o)
       PROVE  BacklogInv'
  <2>1. /\ pc \in {"submitted", "mark"} /\ cur \in Ids /\ AddSeenIds(o, {cur})
        /\ pc' = "next" /\ cur' = NoMsg /\ UNCHANGED <<visible, entries>> /\ o.committed
    BY <1>10, <1>19 DEF MarkSeen, MarkingInv, PipelinePCs, site
  <2>2. hasRow' /\ \A m \in Ids : later[m] # None => later'[m] # None
    BY <2>1, NewMarks, AddSeenFacts
  <2>3. hasRow
    BY <1>6, <2>1 DEF PipelinePCs
  <2> QED
    BY <1>1, <1>3, <1>6, <2>1, <2>2, <2>3 DEF BacklogInv
<1>20. CASE CrawlStep
  BY <1>9, <1>12, <1>13, <1>14, <1>15, <1>16, <1>18, <1>19, <1>20 DEF CrawlStep
<1> QED
  BY <1>8, <1>16, <1>17, <1>20 DEF Next

(* The invariant holds before the first tick.                              *)
LEMMA InitIInv ==
  ASSUME SeenListingConstants, PipelineConstants, Init
  PROVE  IInv
<1> USE DEF Init, PipelineInit
<1>1. PipelineTypeOK
  <2>1. 0 \in 0..MAX_PUSH_ATTEMPTS /\ 0 \in 0..PushCeiling /\ 0 \in 0..MaxFaults
    BY DEF PipelineConstants
  <2> QED
    BY <2>1 DEF PipelineTypeOK
<1>2. /\ None \in 0..None /\ MAX_SEEN_IDS \in Nat /\ ~(None < MAX_SEEN_IDS)
      /\ MAX_MESSAGES_PER_TICK \in Nat
  BY DEF None, SeenListingConstants
<1>3. History \in 0..MaxId
  BY DEF SeenListingConstants, PipelineConstants
<1>4. seen = <<>> /\ seen \in Seq(Ids \cup {Bootstrap}) /\ Len(seen) = 0 /\ ToSet(seen) = {}
  BY DEF ToSet
<1>5. TypeOK
  <2>1. pc = "idle" /\ cur = NoMsg /\ visible \subseteq 1..latest /\ latest \in 0..MaxId
    BY <1>3
  <2>2. later \in [Ids -> 0..None] /\ 0 \in 0..MAX_MESSAGES_PER_TICK
    BY <1>2
  <2>3. seen \in Seq(Ids \cup {Bootstrap}) /\ Len(seen) <= MAX_SEEN_IDS
    BY <1>2, <1>4
  <2>4. /\ hasRow \in BOOLEAN /\ entries \subseteq Ids /\ seenIds \subseteq Ids \cup {Bootstrap}
        /\ processed \in 0..MAX_MESSAGES_PER_TICK /\ bootstrapped \subseteq Ids
    BY <2>2
  <2> HIDE DEF Init
  <2> QED
    BY <1>1, <2>1, <2>2, <2>3, <2>4 DEF TypeOK
<1>6. PipelineInv
  BY DEF PipelineInv, PipelinePCs, StampedMeansDelivered
<1>7. MarkedMeansDone /\ MarkingInv
  BY <1>4 DEF MarkedMeansDone, MarkingInv, PipelinePCs, Working
<1>8. PlaceInv
  BY <1>2 DEF PlaceInv
<1>9. BacklogInv
  BY <1>3 DEF BacklogInv, PipelinePCs, Working
<1>10. BacklogLeftAlone /\ ReworkedOnlyPastCap
  BY DEF BacklogLeftAlone, ReworkedOnlyPastCap
<1> QED
  BY <1>5, <1>6, <1>7, <1>8, <1>9, <1>10 DEF IInv, SeenSafe

(* Every step keeps the invariant.                                         *)
LEMMA NextIInv ==
  ASSUME SeenListingConstants, PipelineConstants, IInv, [Next]_vars
  PROVE  IInv'
<1>1. /\ TypeOK /\ PipelineInv /\ MarkedMeansDone /\ MarkingInv /\ PlaceInv /\ BacklogInv
      /\ BacklogLeftAlone /\ ReworkedOnlyPastCap
  BY DEF IInv, SeenSafe
<1>2. CASE Next
  <2>1. TypeOK' /\ PipelineInv' /\ MarkingInv'
    BY <1>1, <1>2, StepTypeOK, StepPipelineInv, StepMarking
  <2>2. MarkedMeansDone' /\ PlaceInv' /\ BacklogInv' /\ ReworkedOnlyPastCap'
    BY <1>1, <1>2, StepMarked, StepPlace, StepBacklog, StepReworked
  <2>3. BacklogLeftAlone'
    BY <2>2 DEF BacklogInv, BacklogLeftAlone, Working, PipelinePCs
  <2> QED
    BY <2>1, <2>2, <2>3 DEF IInv, SeenSafe
<1>3. CASE UNCHANGED vars
  <2>1. /\ UNCHANGED <<alert, pushFails, pushed, nobody, pc, cur, faults>>
        /\ UNCHANGED <<visible, latest, hasRow, seen, entries, seenIds, processed, bootstrapped, later>>
    BY <1>3 DEF vars, pipelineVars, site, seenRow, tick, ghosts
  <2>2. TypeOK' /\ PipelineInv'
    BY <1>1, <2>1 DEF TypeOK, PipelineTypeOK, PipelineInv, StampedMeansDelivered, Delivered,
                      DeliveredDuplicate, Abandoned
  <2>3. MarkedMeansDone' /\ MarkingInv' /\ PlaceInv' /\ BacklogInv'
    BY <1>1, <2>1 DEF MarkedMeansDone, Abandoned, MarkingInv, PlaceInv, BacklogInv
  <2>4. BacklogLeftAlone' /\ ReworkedOnlyPastCap'
    BY <1>1, <2>1 DEF BacklogLeftAlone, ReworkedOnlyPastCap
  <2> QED
    BY <2>2, <2>3, <2>4 DEF IInv, SeenSafe
<1> QED
  BY <1>2, <1>3

(* The invariant holds in every state, whatever is published, taken down,  *)
(* lost or killed.                                                         *)
THEOREM Invariance == Spec => []IInv
<1>1. Init => IInv
  BY InitIInv, SeenListingConstants, PipelineConstants
<1>2. IInv /\ [Next]_vars => IInv'
  BY NextIInv, SeenListingConstants, PipelineConstants
<1> QED
  BY <1>1, <1>2, PTL DEF Spec

(* A mark is only written for a message that is finished with, the set     *)
(* never outgrows MAX_SEEN_IDS, and without a fault the backlog is left    *)
(* alone (addSeenIds, mergeSeenIds and the runs of epro.ts and vt.ts).     *)
THEOREM MarksAreSafe == Spec => []SeenSafe
<1>1. IInv => SeenSafe
  BY DEF IInv
<1> QED
  BY <1>1, Invariance, PTL

(* A message is worked on again only after MAX_SEEN_IDS others were marked *)
(* behind its mark, whatever read or write of the set fails (getSeenIds).  *)
THEOREM ReworkNeedsCap == Spec => []ReworkedOnlyPastCap
<1>1. IInv => ReworkedOnlyPastCap
  BY DEF IInv
<1> QED
  BY <1>1, Invariance, PTL
=============================================================================
