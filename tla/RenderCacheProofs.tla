------------------------- MODULE RenderCacheProofs -------------------------
(***************************************************************************)
(* Proofs about the render cache, for every set of keys and values, every  *)
(* capacity and every TTL.                                                 *)
(***************************************************************************)
EXTENDS RenderCache, SequenceTheorems, FiniteSetTheorems, TLAPS

Distinct(s) == \A i, j \in DOMAIN s : s[i] = s[j] => i = j

(* Element by element, what removing the element at one position gives.    *)
LEMMA RemoveAtElements ==
  ASSUME NEW S, NEW s \in Seq(S), NEW i \in 1 .. Len(s)
  PROVE  /\ RemoveAt(s, i) \in Seq(S)
         /\ Len(RemoveAt(s, i)) = Len(s) - 1
         /\ \A j \in 1 .. Len(s) - 1 :
              RemoveAt(s, i)[j] = IF j < i THEN s[j] ELSE s[j + 1]
<1> DEFINE a == SubSeq(s, 1, i - 1)
           b == SubSeq(s, i + 1, Len(s))
<1>1. a \in Seq(S) /\ Len(a) = i - 1 /\ \A j \in 1 .. i - 1 : a[j] = s[j]
  OBVIOUS
<1>2. /\ b \in Seq(S)
      /\ Len(b) = Len(s) - i
      /\ \A j \in 1 .. Len(s) - i : b[j] = s[i + j]
  OBVIOUS
<1>3. RemoveAt(s, i) = a \o b
  BY DEF RemoveAt
<1> HIDE DEF a, b
<1>4. /\ a \o b \in Seq(S)
      /\ Len(a \o b) = Len(a) + Len(b)
      /\ \A j \in 1 .. Len(a) + Len(b) :
           (a \o b)[j] = IF j <= Len(a) THEN a[j] ELSE b[j - Len(a)]
  BY <1>1, <1>2, ConcatProperties
<1>5. ASSUME NEW j \in 1 .. Len(s) - 1
      PROVE  (a \o b)[j] = IF j < i THEN s[j] ELSE s[j + 1]
  <2>0. i \in Nat /\ j \in Nat /\ Len(s) \in Nat /\ i <= Len(s)
    OBVIOUS
  <2>1. CASE j < i
    <3>1. j \in 1 .. Len(a) + Len(b) /\ j <= Len(a)
      BY <1>1, <1>2, <2>0, <2>1
    <3>2. (a \o b)[j] = a[j]
      BY <1>4, <3>1
    <3>3. j \in 1 .. i - 1
      BY <2>0, <2>1
    <3> QED BY <1>1, <2>1, <3>2, <3>3
  <2>2. CASE ~(j < i)
    <3>1. j \in 1 .. Len(a) + Len(b) /\ ~(j <= Len(a))
      BY <1>1, <1>2, <2>0, <2>2
    <3>2. (a \o b)[j] = b[j - (i - 1)]
      BY <1>1, <1>4, <3>1
    <3>3. j - (i - 1) \in 1 .. Len(s) - i /\ i + (j - (i - 1)) = j + 1
      BY <2>0, <2>2
    <3>4. b[j - (i - 1)] = s[i + (j - (i - 1))]
      BY <1>2, <3>3
    <3> QED BY <2>2, <3>2, <3>3, <3>4
  <2> QED BY <2>1, <2>2
<1>6. Len(a) + Len(b) = Len(s) - 1
  BY <1>1, <1>2
<1> QED BY <1>3, <1>4, <1>5, <1>6

(* Without its element of k, a list of distinct keys is one of all the     *)
(* other keys.                                                             *)
LEMMA WithoutKey ==
  ASSUME ll \in Seq(Keys), Distinct(ll), NEW k \in ToSet(ll)
  PROVE  /\ Without(k) \in Seq(Keys)
         /\ Len(Without(k)) = Len(ll) - 1
         /\ Distinct(Without(k))
         /\ ToSet(Without(k)) = ToSet(ll) \ {k}
<1>1. PICK i \in 1 .. Len(ll) : ll[i] = k /\ Without(k) = RemoveAt(ll, i)
  <2> DEFINE i == CHOOSE j \in DOMAIN ll : ll[j] = k
  <2>1. i \in DOMAIN ll /\ ll[i] = k
    BY DEF ToSet
  <2>2. DOMAIN ll = 1 .. Len(ll)
    OBVIOUS
  <2>3. Without(k) = RemoveAt(ll, i)
    BY DEF Without
  <2> QED BY <2>1, <2>2, <2>3
<1> DEFINE w == RemoveAt(ll, i)
<1>2. /\ w \in Seq(Keys) /\ Len(w) = Len(ll) - 1
      /\ \A j \in 1 .. Len(ll) - 1 :
           w[j] = IF j < i THEN ll[j] ELSE ll[j + 1]
  BY RemoveAtElements
<1> HIDE DEF w
<1>3. DOMAIN w = 1 .. Len(ll) - 1 /\ DOMAIN ll = 1 .. Len(ll)
  BY <1>2
<1> DEFINE Old(j) == IF j < i THEN j ELSE j + 1
<1>old. ASSUME NEW j \in DOMAIN w
       PROVE  Old(j) \in DOMAIN ll /\ Old(j) # i /\ w[j] = ll[Old(j)]
  BY <1>2, <1>3
<1>4. Distinct(w)
  <2> SUFFICES ASSUME NEW a \in DOMAIN w, NEW b \in DOMAIN w, w[a] = w[b]
               PROVE  a = b
    BY DEF Distinct
  <2>1. Old(a) = Old(b)
    <3> HIDE DEF Old
    <3> QED BY <1>old DEF Distinct
  <2> QED BY <1>3, <2>1
<1>5. ToSet(w) \subseteq ToSet(ll) \ {k}
  <2> SUFFICES ASSUME NEW a \in DOMAIN w
               PROVE  w[a] \in ToSet(ll) /\ w[a] # k
    BY DEF ToSet
  <2> HIDE DEF Old
  <2>1. Old(a) \in DOMAIN ll /\ Old(a) # i /\ w[a] = ll[Old(a)]
    BY <1>old
  <2>2. ll[Old(a)] # k
    BY <1>1, <1>3, <2>1 DEF Distinct
  <2> QED BY <2>1, <2>2 DEF ToSet
<1>6. ASSUME NEW x \in ToSet(ll) \ {k} PROVE x \in ToSet(w)
  <2>1. PICK m \in 1 .. Len(ll) : ll[m] = x /\ m # i
    BY <1>1 DEF ToSet
  <2>2. CASE m < i
    BY <1>2, <1>3, <2>1, <2>2 DEF ToSet
  <2>3. CASE m > i
    <3>1. m - 1 \in 1 .. Len(ll) - 1 /\ w[m - 1] = x
      BY <1>2, <2>1, <2>3
    <3> QED BY <1>3, <3>1 DEF ToSet
  <2> QED BY <2>1, <2>2, <2>3
<1> QED BY <1>1, <1>2, <1>4, <1>5, <1>6 DEF w

(* A new key in front of a list of distinct keys.                          *)
LEMMA ConsKey ==
  ASSUME NEW s \in Seq(Keys), Distinct(s), NEW k \in Keys, k \notin ToSet(s)
  PROVE  /\ <<k>> \o s \in Seq(Keys)
         /\ Len(<<k>> \o s) = Len(s) + 1
         /\ Distinct(<<k>> \o s)
         /\ ToSet(<<k>> \o s) = ToSet(s) \cup {k}
<1> DEFINE t == <<k>> \o s
<1>1. /\ t \in Seq(Keys) /\ Len(t) = Len(s) + 1
      /\ \A j \in 1 .. Len(s) + 1 : t[j] = IF j <= 1 THEN k ELSE s[j - 1]
  <2>1. <<k>> \in Seq(Keys) /\ Len(<<k>>) = 1 /\ <<k>>[1] = k
    OBVIOUS
  <2>2. /\ t \in Seq(Keys) /\ Len(t) = 1 + Len(s)
        /\ \A j \in 1 .. 1 + Len(s) :
             t[j] = IF j <= 1 THEN <<k>>[j] ELSE s[j - 1]
    BY <2>1, ConcatProperties
  <2> QED BY <2>1, <2>2
<1> HIDE DEF t
<1>2. DOMAIN t = 1 .. Len(s) + 1 /\ DOMAIN s = 1 .. Len(s)
  BY <1>1
<1>3. \A j \in 1 .. Len(s) : s[j] # k
  BY <1>2 DEF ToSet
<1>4. Distinct(t)
  <2> SUFFICES ASSUME NEW i \in DOMAIN t, NEW j \in DOMAIN t, t[i] = t[j]
               PROVE  i = j
    BY DEF Distinct
  <2>1. CASE i = 1 \/ j = 1
    <3>1. \A m \in DOMAIN t : m # 1 => t[m] # k
      <4> SUFFICES ASSUME NEW m \in DOMAIN t, m # 1 PROVE t[m] # k
        OBVIOUS
      <4>1. m - 1 \in 1 .. Len(s) /\ t[m] = s[m - 1]
        BY <1>1, <1>2
      <4> QED BY <1>3, <4>1
    <3>2. t[1] = k
      BY <1>1
    <3> QED BY <2>1, <3>1, <3>2
  <2>2. CASE i # 1 /\ j # 1
    <3>1. /\ i - 1 \in DOMAIN s /\ j - 1 \in DOMAIN s
          /\ s[i - 1] = s[j - 1]
      BY <1>1, <1>2, <2>2
    <3>2. i - 1 = j - 1
      BY <3>1 DEF Distinct
    <3> QED BY <1>2, <3>2
  <2> QED BY <2>1, <2>2
<1>5. ToSet(t) \subseteq ToSet(s) \cup {k}
  BY <1>1, <1>2 DEF ToSet
<1>6. k \in ToSet(t)
  BY <1>1, <1>2 DEF ToSet
<1>7. ASSUME NEW x \in ToSet(s) PROVE x \in ToSet(t)
  <2>1. PICK m \in 1 .. Len(s) : s[m] = x
    BY <1>2 DEF ToSet
  <2>2. m + 1 \in DOMAIN t /\ t[m + 1] = x
    BY <1>1, <1>2, <2>1
  <2> QED BY <2>2 DEF ToSet
<1> QED BY <1>1, <1>4, <1>5, <1>6, <1>7 DEF t

(* A hit reorders the list and keeps its keys.                             *)
LEMMA FrontKey ==
  ASSUME ll \in Seq(Keys), Distinct(ll), NEW k \in ToSet(ll)
  PROVE  /\ MoveToFront(k) \in Seq(Keys)
         /\ Len(MoveToFront(k)) = Len(ll)
         /\ Distinct(MoveToFront(k))
         /\ ToSet(MoveToFront(k)) = ToSet(ll)
<1>1. k \in Keys
  BY DEF ToSet
<1> DEFINE w == Without(k)
<1>2. /\ w \in Seq(Keys) /\ Len(w) = Len(ll) - 1 /\ Distinct(w)
      /\ ToSet(w) = ToSet(ll) \ {k}
  BY WithoutKey
<1>3. MoveToFront(k) = <<k>> \o w
  BY DEF MoveToFront
<1> HIDE DEF w
<1>4. /\ <<k>> \o w \in Seq(Keys) /\ Len(<<k>> \o w) = Len(w) + 1
      /\ Distinct(<<k>> \o w) /\ ToSet(<<k>> \o w) = ToSet(w) \cup {k}
  BY <1>1, <1>2, ConsKey
<1>5. Len(w) + 1 = Len(ll) /\ ToSet(w) \cup {k} = ToSet(ll)
  BY <1>2
<1> QED BY <1>3, <1>4, <1>5

(* The front of a list of distinct keys has all keys but those cut off.    *)
LEMMA PrefixKeys ==
  ASSUME NEW s \in Seq(Keys), Distinct(s), NEW n \in 0 .. Len(s)
  PROVE  /\ SubSeq(s, 1, n) \in Seq(Keys)
         /\ Len(SubSeq(s, 1, n)) = n
         /\ Distinct(SubSeq(s, 1, n))
         /\ ToSet(SubSeq(s, 1, n)) = ToSet(s) \ {s[i] : i \in n + 1 .. Len(s)}
<1> DEFINE t == SubSeq(s, 1, n)
<1>0. DOMAIN s = 1 .. Len(s)
  OBVIOUS
<1>1. t \in Seq(Keys) /\ Len(t) = n /\ \A j \in 1 .. n : t[j] = s[j]
  <2>1. \A i \in 1 .. n : s[i] \in Keys
    OBVIOUS
  <2>2. /\ t \in Seq(Keys) /\ Len(t) = IF 1 <= n THEN n - 1 + 1 ELSE 0
        /\ \A i \in 1 .. n - 1 + 1 : t[i] = s[1 + i - 1]
    BY <2>1, SubSeqProperties
  <2> QED BY <2>2
<1> HIDE DEF t
<1>2. DOMAIN t = 1 .. n
  BY <1>1
<1>3. Distinct(t)
  BY <1>0, <1>1, <1>2 DEF Distinct
<1>4. ToSet(t) = {s[j] : j \in 1 .. n}
  BY <1>1, <1>2 DEF ToSet
<1>5. ToSet(s) = {s[j] : j \in 1 .. n} \cup {s[j] : j \in n + 1 .. Len(s)}
  BY <1>0 DEF ToSet
<1>6. \A i \in 1 .. n, j \in n + 1 .. Len(s) : s[i] # s[j]
  BY <1>0 DEF Distinct
<1> QED BY <1>1, <1>3, <1>4, <1>5, <1>6 DEF t

-----------------------------------------------------------------------------
CInv == TypeOK /\ ListMatchesMap

(* What the two invariants say of the list, in the words of the lemmas.    *)
LEMMA ListFacts ==
  ASSUME CInv
  PROVE  /\ ll \in Seq(Keys) /\ Distinct(ll)
         /\ ToSet(ll) = DOMAIN items /\ Len(ll) <= MaxEntries
  BY DEF CInv, TypeOK, ListMatchesMap, Distinct

LEMMA InitCInv == Init => CInv
<1> SUFFICES ASSUME Init PROVE CInv
  OBVIOUS
<1>1. ll = <<>> /\ DOMAIN items = {} /\ reply = NoValue
  BY DEF Init
<1>2. ToSet(ll) = {} /\ DOMAIN ll = {} /\ Len(ll) = 0 /\ ll \in Seq(Keys)
  BY <1>1 DEF ToSet
<1> QED BY <1>1, <1>2, CacheAssumption DEF CInv, TypeOK, ListMatchesMap

(* The list, the map and their agreement, for each outcome of lookup() and *)
(* store().                                                                *)
ListInv ==
  /\ ll \in Seq(Keys)
  /\ DOMAIN items \subseteq Keys
  /\ \A k \in DOMAIN items : items[k] \in Entry
  /\ ListMatchesMap

LEMMA FreshIsEntry == \A v \in Values : Fresh(v) \in Entry
  BY CacheAssumption DEF Fresh, Entry

LEMMA DropListInv ==
  ASSUME CInv, NEW k \in Keys, Drop(k)
  PROVE  ListInv'
<1>1. /\ ll' = Without(k) /\ k \in ToSet(ll)
      /\ items' = [j \in DOMAIN items \ {k} |-> items[j]]
  BY ListFacts DEF Drop
<1>2. /\ ll' \in Seq(Keys) /\ Len(ll') = Len(ll) - 1 /\ Distinct(ll')
      /\ ToSet(ll') = DOMAIN items'
  BY <1>1, ListFacts, WithoutKey
<1>3. Len(ll') <= MaxEntries
  BY <1>2, ListFacts, CacheAssumption
<1> QED BY <1>1, <1>2, <1>3 DEF ListInv, ListMatchesMap, Distinct, CInv, TypeOK

LEMMA TouchListInv ==
  ASSUME CInv, NEW k \in Keys, Touch(k)
  PROVE  ListInv'
<1>1. ll' = MoveToFront(k) /\ k \in ToSet(ll) /\ items' = items
  BY ListFacts DEF Touch, Live
<1>2. /\ ll' \in Seq(Keys) /\ Len(ll') = Len(ll) /\ Distinct(ll')
      /\ ToSet(ll') = DOMAIN items'
  BY <1>1, ListFacts, FrontKey
<1> QED BY <1>1, <1>2, ListFacts
        DEF ListInv, ListMatchesMap, Distinct, CInv, TypeOK

LEMMA OverwriteListInv ==
  ASSUME CInv, NEW k \in Keys, NEW v \in Values, Overwrite(k, v)
  PROVE  ListInv'
<1>1. /\ ll' = MoveToFront(k) /\ k \in ToSet(ll)
      /\ items' = [items EXCEPT ![k] = Fresh(v)]
  BY ListFacts DEF Overwrite
<1>2. /\ ll' \in Seq(Keys) /\ Len(ll') = Len(ll) /\ Distinct(ll')
      /\ ToSet(ll') = DOMAIN items' /\ DOMAIN items' = DOMAIN items
  BY <1>1, ListFacts, FrontKey
<1>3. \A j \in DOMAIN items' : items'[j] \in Entry
  BY <1>1, FreshIsEntry DEF CInv, TypeOK
<1> QED BY <1>1, <1>2, <1>3, ListFacts
        DEF ListInv, ListMatchesMap, Distinct, CInv, TypeOK

(* A new entry pushes out what is over capacity, from list and map alike.  *)
LEMMA InsertListInv ==
  ASSUME CInv, NEW k \in Keys, NEW v \in Values, Insert(k, v)
  PROVE  ListInv'
<1> DEFINE pushed == <<k>> \o ll
           size == Len(pushed) - Over(pushed)
           evicted == {pushed[i] : i \in size + 1 .. Len(pushed)}
<1>1. /\ k \notin DOMAIN items
      /\ ll' = SubSeq(pushed, 1, size)
      /\ items' = [j \in (DOMAIN items \cup {k}) \ evicted |->
                     IF j = k THEN Fresh(v) ELSE items[j]]
  BY DEF Insert
<1>2. /\ pushed \in Seq(Keys) /\ Distinct(pushed)
      /\ ToSet(pushed) = DOMAIN items \cup {k}
  BY <1>1, ListFacts, ConsKey
<1> HIDE DEF pushed
<1>3. size \in 0 .. Len(pushed) /\ size <= MaxEntries
  BY <1>2, CacheAssumption DEF Over
<1>4. /\ ll' \in Seq(Keys) /\ Len(ll') = size /\ Distinct(ll')
      /\ ToSet(ll') = DOMAIN items'
  BY <1>1, <1>2, <1>3, PrefixKeys
<1>5. \A j \in DOMAIN items' : items'[j] \in Entry
  BY <1>1, FreshIsEntry DEF CInv, TypeOK
<1>6. DOMAIN items' \subseteq Keys
  BY <1>1 DEF CInv, TypeOK
<1> QED BY <1>3, <1>4, <1>5, <1>6 DEF ListInv, ListMatchesMap, Distinct

LEMMA GrowListInv ==
  ASSUME CInv, Grow
  PROVE  ListInv'
<1>1. /\ ll' = ll /\ DOMAIN items' = DOMAIN items
      /\ \A j \in DOMAIN items :
           items'[j] = [items[j] EXCEPT !.age = IF @ < TTL THEN @ + 1 ELSE @]
  BY DEF Grow
<1>2. \A e \in Entry :
        [e EXCEPT !.age = IF @ < TTL THEN @ + 1 ELSE @] \in Entry
  BY CacheAssumption DEF Entry
<1> QED BY <1>1, <1>2 DEF ListInv, ListMatchesMap, CInv, TypeOK

LEMMA StepCInv == CInv /\ [Next]_vars => CInv'
<1> SUFFICES ASSUME CInv, [Next]_vars PROVE CInv'
  OBVIOUS
<1>0. ListInv' /\ reply' \in Values \cup {NoValue} => CInv'
  BY DEF ListInv, CInv, TypeOK
<1>1. ASSUME NEW k \in Keys, Hit(k) PROVE CInv'
  <2>1. reply' \in Values
    BY <1>1 DEF Hit, Touch, Live, CInv, TypeOK, Entry
  <2> QED BY <1>0, <1>1, <2>1, TouchListInv DEF Hit
<1>2. ASSUME NEW k \in Keys, Miss(k) PROVE CInv'
  <2>1. CASE Absent(k)
    BY <1>2, <2>1 DEF Miss, Absent, CInv, TypeOK, ListMatchesMap
  <2>2. CASE Drop(k)
    BY <1>0, <1>2, <2>2, DropListInv DEF Miss
  <2> QED BY <1>2, <2>1, <2>2 DEF Miss
<1>3. ASSUME NEW k \in Keys, NEW v \in Values, Store(k, v) PROVE CInv'
  <2>1. reply' \in Values \cup {NoValue}
    BY <1>3 DEF Store, CInv, TypeOK
  <2> QED BY <1>0, <1>3, <2>1, OverwriteListInv, InsertListInv DEF Store, Put
<1>4. CASE Age
  <2>1. reply' \in Values \cup {NoValue}
    BY <1>4 DEF Age, CInv, TypeOK
  <2> QED BY <1>0, <1>4, <2>1, GrowListInv DEF Age
<1>5. CASE UNCHANGED vars
  BY <1>5 DEF vars, CInv, TypeOK, ListMatchesMap
<1> QED BY <1>1, <1>2, <1>3, <1>4, <1>5 DEF Next, Lookup

(* The list and the map never disagree and never outgrow the cache, for    *)
(* any capacity, TTL and sequence of lookups and stores.                   *)
THEOREM CacheConsistent == Spec => [](TypeOK /\ ListMatchesMap)
<1>1. Spec => []CInv
  BY InitCInv, StepCInv, PTL DEF Spec
<1> QED BY <1>1, PTL DEF CInv

(* Every variable of the cache keeps its type.                             *)
THEOREM CacheTypeCorrect == Spec => []TypeOK
<1>1. TypeOK /\ ListMatchesMap => TypeOK
  OBVIOUS
<1> QED BY CacheConsistent, <1>1, PTL

-----------------------------------------------------------------------------
(* The refinement of Memo.  A list of distinct keys has as many as the map,*)
(* so that the capacity of the list is that of the memo.                   *)
LEMMA SameSize == \A S : M!Cardinality(S) = Cardinality(S)
  BY DEF M!Cardinality, Cardinality

LEMMA SizeOfList ==
  ASSUME NEW s \in Seq(Keys), Distinct(s)
  PROVE  IsFiniteSet(ToSet(s)) /\ Cardinality(ToSet(s)) = Len(s)
<1>1. IsFiniteSet(1 .. Len(s)) /\ Cardinality(1 .. Len(s)) = Len(s)
  <2> DEFINE n == Len(s)
  <2>1. n \in Nat
    OBVIOUS
  <2> HIDE DEF n
  <2>2. /\ IsFiniteSet(1 .. n)
        /\ Cardinality(1 .. n) = IF 1 > n THEN 0 ELSE n - 1 + 1
    BY <2>1, FS_Interval
  <2> QED BY <2>1, <2>2 DEF n
<1>2. s \in Bijection(1 .. Len(s), ToSet(s))
  <2>1. DOMAIN s = 1 .. Len(s) /\ s \in [1 .. Len(s) -> ToSet(s)]
    BY DEF ToSet
  <2>2. IsInjective(s)
    BY DEF IsInjective, Distinct
  <2>3. \A x \in ToSet(s) : \E i \in 1 .. Len(s) : s[i] = x
    BY <2>1 DEF ToSet
  <2> QED BY <2>1, <2>2, <2>3 DEF Bijection, Injection, Surjection
<1> QED BY <1>1, <1>2, FS_Bijection DEF ExistsBijection

LEMMA SizeOfMap ==
  ASSUME CInv
  PROVE  /\ IsFiniteSet(DOMAIN items)
         /\ Cardinality(DOMAIN items) \in Nat
         /\ Cardinality(DOMAIN items) = Len(ll)
         /\ Len(ll) <= MaxEntries
<1>1. IsFiniteSet(DOMAIN items) /\ Cardinality(DOMAIN items) = Len(ll)
  BY ListFacts, SizeOfList
<1> QED BY <1>1, ListFacts, FS_CardinalityType

(* The map is a function from its keys.                                    *)
MapIsFunction == items = [k \in DOMAIN items |-> items[k]]

LEMMA StepMapIsFunction == MapIsFunction /\ [Next]_vars => MapIsFunction'
<1> SUFFICES ASSUME MapIsFunction, [Next]_vars PROVE MapIsFunction'
  OBVIOUS
<1>1. ASSUME NEW k \in Keys, Lookup(k) PROVE MapIsFunction'
  BY <1>1 DEF Lookup, Hit, Touch, Miss, Absent, Drop, MapIsFunction
<1>2. ASSUME NEW k \in Keys, NEW v \in Values, Store(k, v)
      PROVE  MapIsFunction'
  <2>1. CASE Overwrite(k, v)
    BY <2>1 DEF Overwrite, MapIsFunction
  <2>2. CASE Insert(k, v)
    BY <2>2 DEF Insert, MapIsFunction
  <2> QED BY <1>2, <2>1, <2>2 DEF Store, Put
<1>3. CASE Age
  BY <1>3 DEF Age, Grow, MapIsFunction
<1>4. CASE UNCHANGED vars
  BY <1>4 DEF vars, MapIsFunction
<1> QED BY <1>1, <1>2, <1>3, <1>4 DEF Next

LEMMA OverwriteIsPut ==
  ASSUME CInv, NEW k \in Keys, NEW v \in Values, Overwrite(k, v),
         UNCHANGED reply
  PROVE  M!Put(k, v)
<1> DEFINE kept == DOMAIN items \ {k}
<1>1. k \in DOMAIN items /\ items' = [items EXCEPT ![k] = Fresh(v)]
  BY DEF Overwrite
<1>2. Cardinality(kept) \in Nat /\ Cardinality(kept) < MaxEntries
  <2>1. Cardinality(kept) = Cardinality(DOMAIN items) - 1
    BY <1>1, SizeOfMap, FS_RemoveElement
  <2>2. IsFiniteSet(kept)
    BY SizeOfMap, FS_RemoveElement
  <2>3. Cardinality(kept) \in Nat
    BY <2>2, FS_CardinalityType
  <2> HIDE DEF kept
  <2> QED BY <2>1, <2>3, SizeOfMap, CacheAssumption, ListFacts
<1>3. items' = [j \in kept \cup {k} |->
                  IF j = k THEN [value |-> v, age |-> 0] ELSE items[j]]
  BY <1>1 DEF Fresh
<1> HIDE DEF kept
<1>4. kept \in SUBSET (M!Known \ {k}) /\ M!Known \ {k} = kept
  BY DEF kept, M!Known
<1>5. Cardinality(kept) + 1 >= Cardinality(M!Known \ {k})
  BY <1>2, <1>4
<1> QED BY <1>2, <1>3, <1>4, <1>5, SameSize DEF M!Put

(* What is over capacity after a new key came in is at most the last key.  *)
LEMMA InsertIsPut ==
  ASSUME CInv, NEW k \in Keys, NEW v \in Values, Insert(k, v),
         UNCHANGED reply
  PROVE  M!Put(k, v)
<1> DEFINE pushed == <<k>> \o ll
           size == Len(pushed) - Over(pushed)
           evicted == {pushed[i] : i \in size + 1 .. Len(pushed)}
           kept == DOMAIN items \ evicted
<1>1. /\ k \notin DOMAIN items
      /\ items' = [j \in (DOMAIN items \cup {k}) \ evicted |->
                     IF j = k THEN Fresh(v) ELSE items[j]]
  BY DEF Insert
<1>2. /\ pushed \in Seq(Keys) /\ Distinct(pushed)
      /\ Len(pushed) = Len(ll) + 1
      /\ ToSet(pushed) = DOMAIN items \cup {k}
  BY <1>1, ListFacts, ConsKey
<1>3. pushed[1] = k
  BY ListFacts
<1>4. Len(ll) \in Nat /\ Len(ll) <= MaxEntries /\ MaxEntries \in Nat \ {0}
  BY ListFacts, CacheAssumption
<1> HIDE DEF pushed
<1>5. /\ Len(ll) < MaxEntries => size = Len(pushed)
      /\ Len(ll) = MaxEntries => size = Len(pushed) - 1 /\ size > 0
  <2>1. Len(pushed) = Len(ll) + 1
    BY <1>2
  <2>2. Over(pushed) = IF Len(ll) = MaxEntries THEN 1 ELSE 0
    <3>1. Over(pushed) =
            IF Len(pushed) > MaxEntries THEN Len(pushed) - MaxEntries ELSE 0
      BY DEF Over
    <3> QED BY <1>4, <2>1, <3>1
  <2> QED BY <1>4, <2>1, <2>2
<1>6. CASE Len(ll) < MaxEntries
  <2>1. evicted = {}
    BY <1>2, <1>4, <1>5, <1>6
  <2>2. kept = DOMAIN items /\ Cardinality(kept) = Len(ll)
    BY <2>1, SizeOfMap
  <2>3. items' = [j \in kept \cup {k} |->
                    IF j = k THEN [value |-> v, age |-> 0] ELSE items[j]]
    BY <1>1, <2>1, <2>2 DEF Fresh
  <2> HIDE DEF kept
  <2>4. M!Known \ {k} = kept /\ kept \in SUBSET (M!Known \ {k})
    BY <1>1, <2>2 DEF M!Known
  <2>5. Cardinality(kept) < MaxEntries
        /\ Cardinality(kept) + 1 >= Cardinality(M!Known \ {k})
    BY <1>4, <1>6, <2>2, <2>4
  <2>6. Cardinality(M!Known \ {k}) < MaxEntries => kept = M!Known \ {k}
    BY <2>4
  <2> HIDE DEF evicted, size
  <2> QED BY <2>3, <2>4, <2>5, <2>6, SameSize DEF M!Put
<1>7. CASE Len(ll) = MaxEntries
  <2> DEFINE last == pushed[Len(pushed)]
  <2>1. evicted = {last}
    BY <1>2, <1>4, <1>5, <1>7
  <2>2. last # k /\ last \in DOMAIN items
    <3>1. 1 \in DOMAIN pushed /\ Len(pushed) \in DOMAIN pushed
          /\ 1 # Len(pushed)
      BY <1>2, <1>4, <1>7
    <3>2. last # k
      BY <1>3, <3>1, <1>2 DEF Distinct
    <3>3. last \in ToSet(pushed)
      BY <3>1 DEF ToSet
    <3> QED BY <1>2, <3>2, <3>3
  <2> HIDE DEF last
  <2>3. Cardinality(kept) = MaxEntries - 1
    BY <1>7, <2>1, <2>2, SizeOfMap, FS_RemoveElement
  <2>4. (DOMAIN items \cup {k}) \ evicted = kept \cup {k}
    BY <2>1, <2>2
  <2>5. items' = [j \in kept \cup {k} |->
                    IF j = k THEN [value |-> v, age |-> 0] ELSE items[j]]
    BY <1>1, <2>4 DEF Fresh
  <2>6. kept \in SUBSET DOMAIN items
    OBVIOUS
  <2> HIDE DEF kept
  <2>7. M!Known \ {k} = DOMAIN items /\ kept \in SUBSET (M!Known \ {k})
    BY <1>1, <2>6 DEF M!Known
  <2>8. /\ Cardinality(kept) < MaxEntries
        /\ ~(Cardinality(M!Known \ {k}) < MaxEntries)
        /\ Cardinality(kept) + 1 >= Cardinality(M!Known \ {k})
    BY <1>4, <1>7, <2>3, <2>7, SizeOfMap
  <2> QED BY <2>5, <2>7, <2>8, SameSize DEF M!Put
<1> QED BY <1>4, <1>6, <1>7

LEMMA StepMemo ==
  CInv /\ MapIsFunction /\ [Next]_vars => [M!Next]_(M!vars)
<1> SUFFICES ASSUME CInv, MapIsFunction, [Next]_vars
             PROVE  [M!Next]_(M!vars)
  OBVIOUS
<1>1. ASSUME NEW k \in Keys, Hit(k) PROVE M!Next
  <2>1. M!Hit(k)
    BY <1>1 DEF Hit, Touch, Live, Expired, M!Hit, M!Known, M!Expired
  <2> QED BY <2>1 DEF M!Next
<1>2. ASSUME NEW k \in Keys, Miss(k) PROVE M!Next
  <2>1. M!Miss(k)
    <3>1. CASE Absent(k)
      <4>1. DOMAIN items \ {k} = DOMAIN items
        BY <3>1 DEF Absent
      <4> QED BY <1>2, <3>1, <4>1 DEF Miss, Absent, MapIsFunction, M!Miss,
                                      M!Known, M!Keep
    <3>2. CASE Drop(k)
      BY <1>2, <3>2 DEF Miss, Drop, Expired, M!Miss, M!Known, M!Keep,
                        M!Expired
    <3> QED BY <1>2, <3>1, <3>2 DEF Miss
  <2> QED BY <2>1 DEF M!Next
<1>3. ASSUME NEW k \in Keys, NEW v \in Values, Store(k, v) PROVE M!Next
  <2>1. M!Put(k, v)
    BY <1>3, OverwriteIsPut, InsertIsPut DEF Store, Put
  <2> QED BY <2>1 DEF M!Next
<1>4. CASE Age
  <2>1. M!Age
    BY <1>4 DEF Age, Grow, M!Age, M!Known
  <2> QED BY <2>1 DEF M!Next
<1>5. CASE UNCHANGED vars
  BY <1>5 DEF vars, M!vars
<1> QED BY <1>1, <1>2, <1>3, <1>4, <1>5 DEF Next, Lookup

(* What callers see of the list and the map is a bounded memo with a TTL,  *)
(* for every capacity, TTL and set of keys.                                *)
THEOREM CacheImplementsMemo == Spec => ImplementsMemo
<1>1. Init => M!Init /\ MapIsFunction
  BY DEF Init, M!Init, MapIsFunction
<1>2. Spec => []CInv
  BY CacheConsistent, PTL DEF CInv
<1>3. Spec => []MapIsFunction
  BY <1>1, StepMapIsFunction, PTL DEF Spec
<1> QED BY <1>1, <1>2, <1>3, StepMemo, PTL DEF Spec, ImplementsMemo, M!Spec
=============================================================================
