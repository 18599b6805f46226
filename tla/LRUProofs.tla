----------------------------- MODULE LRUProofs -----------------------------
(***************************************************************************)
(* That the list of the render cache is in the order of use and that only  *)
(* the least recently used entry gives way, for every set of keys and      *)
(* values, every capacity and every TTL.                                   *)
(***************************************************************************)
EXTENDS MCRenderCache, RenderCacheProofs

(* A list in the order of a record of use: each key was used after those   *)
(* behind it.                                                              *)
Ordered(s, after) ==
  \A i, j \in DOMAIN s : i < j => s[i] \in after[s[j]]

(* Removing the element of a key leaves the others in their order.         *)
LEMMA WithoutOrder ==
  ASSUME ll \in Seq(Keys), NEW k \in ToSet(ll), NEW after,
         Ordered(ll, after)
  PROVE  Ordered(Without(k), after)
<1>1. PICK i \in 1 .. Len(ll) : Without(k) = RemoveAt(ll, i)
  <2> DEFINE place == CHOOSE j \in DOMAIN ll : ll[j] = k
  <2>1. place \in DOMAIN ll
    BY DEF ToSet
  <2>2. DOMAIN ll = 1 .. Len(ll)
    OBVIOUS
  <2>3. Without(k) = RemoveAt(ll, place)
    BY DEF Without
  <2> QED BY <2>1, <2>2, <2>3
<1> DEFINE w == RemoveAt(ll, i)
<1>2. /\ w \in Seq(Keys)
      /\ Len(w) = Len(ll) - 1
      /\ \A j \in 1 .. Len(ll) - 1 :
           w[j] = IF j < i THEN ll[j] ELSE ll[j + 1]
  BY RemoveAtElements
<1> HIDE DEF w
<1>3. ASSUME NEW a \in DOMAIN w, NEW b \in DOMAIN w, a < b
      PROVE  w[a] \in after[w[b]]
  <2> DEFINE p == IF a < i THEN a ELSE a + 1
             q == IF b < i THEN b ELSE b + 1
  <2>1. /\ a \in 1 .. Len(ll) - 1
        /\ b \in 1 .. Len(ll) - 1
    BY <1>2
  <2>2. w[a] = ll[p] /\ w[b] = ll[q]
    BY <1>2, <2>1
  <2>3. p \in DOMAIN ll /\ q \in DOMAIN ll /\ p < q
    BY <1>3, <2>1
  <2> QED BY <2>2, <2>3 DEF Ordered
<1> QED BY <1>1, <1>3 DEF w, Ordered

(* The front of a list is in the order of the list.                        *)
LEMMA PrefixOrder ==
  ASSUME NEW s \in Seq(Keys), NEW n \in 0 .. Len(s), NEW after,
         Ordered(s, after)
  PROVE  Ordered(SubSeq(s, 1, n), after)
<1> DEFINE t == SubSeq(s, 1, n)
<1>1. t \in Seq(Keys) /\ Len(t) = n /\ \A j \in 1 .. n : t[j] = s[j]
  <2>1. \A i \in 1 .. n : s[i] \in Keys
    OBVIOUS
  <2>2. /\ t \in Seq(Keys) /\ Len(t) = IF 1 <= n THEN n - 1 + 1 ELSE 0
        /\ \A i \in 1 .. n - 1 + 1 : t[i] = s[1 + i - 1]
    BY <2>1, SubSeqProperties
  <2> QED BY <2>2
<1> HIDE DEF t
<1>2. DOMAIN t = 1 .. n /\ DOMAIN s = 1 .. Len(s)
  BY <1>1
<1>3. DOMAIN t \subseteq DOMAIN s
  BY <1>2
<1>4. Ordered(t, after)
  BY <1>1, <1>2, <1>3 DEF Ordered
<1> QED BY <1>4 DEF t

(* Using a key puts it in front of a list of other used keys.              *)
LEMMA UseOrders ==
  ASSUME NEW s \in Seq(Keys), NEW k \in Keys, k \notin ToSet(s),
         ToSet(s) \subseteq DOMAIN since, Ordered(s, since), Use(k)
  PROVE  Ordered(<<k>> \o s, since')
<1> DEFINE t == <<k>> \o s
<1>1. /\ t \in Seq(Keys) /\ Len(t) = Len(s) + 1
      /\ \A j \in 1 .. Len(s) + 1 : t[j] = IF j <= 1 THEN k ELSE s[j - 1]
  <2>1. <<k>> \in Seq(Keys) /\ Len(<<k>>) = 1 /\ <<k>>[1] = k
    OBVIOUS
  <2>2. /\ t \in Seq(Keys) /\ Len(t) = 1 + Len(s)
        /\ \A j \in 1 .. 1 + Len(s) :
             t[j] = IF j <= 1 THEN <<k>>[j] ELSE s[j - 1]
    BY <2>1, ConcatProperties
  <2> QED BY <2>1, <2>2
<1> HIDE DEF t
<1>2. DOMAIN t = 1 .. Len(s) + 1 /\ DOMAIN s = 1 .. Len(s)
  BY <1>1
<1>3. \A x \in ToSet(s) : since'[x] = since[x] \cup {k}
  BY DEF Use
<1>4. ASSUME NEW i \in DOMAIN t, NEW j \in DOMAIN t, i < j
      PROVE  t[i] \in since'[t[j]]
  <2>1. j - 1 \in DOMAIN s /\ t[j] = s[j - 1]
    BY <1>1, <1>2, <1>4
  <2>2. s[j - 1] \in ToSet(s)
    BY <2>1 DEF ToSet
  <2>3. since'[t[j]] = since[s[j - 1]] \cup {k}
    BY <1>3, <2>1, <2>2
  <2>4. CASE i = 1
    BY <1>1, <1>2, <2>3, <2>4
  <2>5. CASE i # 1
    <3>1. i - 1 \in DOMAIN s /\ t[i] = s[i - 1] /\ i - 1 < j - 1
      BY <1>1, <1>2, <1>4, <2>5
    <3>2. s[i - 1] \in since[s[j - 1]]
      BY <2>1, <3>1 DEF Ordered
    <3> QED BY <2>3, <3>1, <3>2
  <2> QED BY <2>4, <2>5
<1> QED BY <1>4 DEF t, Ordered

-----------------------------------------------------------------------------
(* The record of use is one of keys and finite.                            *)
HistoryOK ==
  /\ DOMAIN since \subseteq Keys
  /\ \A k \in DOMAIN since : IsFiniteSet(since[k])

(* The inductive invariant: the cache is consistent, and its list and map  *)
(* agree with the record of use.                                           *)
HInv == CInv /\ HistoryOK /\ LRUOrder /\ KeepsRecent

(* Using a key adds to what was used after the others, and only that.      *)
LEMMA UseGrows ==
  ASSUME HistoryOK, NEW k \in Keys, Use(k)
  PROVE  /\ HistoryOK'
         /\ DOMAIN since' = DOMAIN since \cup {k}
         /\ since'[k] = {}
         /\ \A j \in DOMAIN since \ {k} :
              /\ since'[j] = since[j] \cup {k}
              /\ Cardinality(since[j]) \in Nat
              /\ Cardinality(since'[j]) \in Nat
              /\ Cardinality(since'[j]) >= Cardinality(since[j])
<1>1. /\ DOMAIN since' = DOMAIN since \cup {k}
      /\ since'[k] = {}
      /\ \A j \in DOMAIN since \ {k} : since'[j] = since[j] \cup {k}
  BY DEF Use
<1>2. IsFiniteSet(since'[k])
  BY <1>1, FS_EmptySet
<1>3. ASSUME NEW j \in DOMAIN since \ {k}
      PROVE  /\ IsFiniteSet(since'[j])
             /\ Cardinality(since[j]) \in Nat
             /\ Cardinality(since'[j]) \in Nat
             /\ Cardinality(since'[j]) >= Cardinality(since[j])
  <2>1. IsFiniteSet(since[j])
    BY DEF HistoryOK
  <2>2. IsFiniteSet(since'[j])
    BY <1>1, <2>1, FS_AddElement
  <2>3. since[j] \subseteq since'[j]
    BY <1>1
  <2>4. Cardinality(since[j]) \in Nat /\ Cardinality(since'[j]) \in Nat
    BY <2>1, <2>2, FS_CardinalityType
  <2>5. Cardinality(since[j]) <= Cardinality(since'[j])
    BY <2>2, <2>3, FS_Subset
  <2> QED BY <2>2, <2>4, <2>5
<1> QED BY <1>1, <1>2, <1>3 DEF HistoryOK

(* A key that is in the cache is used: it goes to the front, nothing is    *)
(* evicted.                                                                *)
LEMMA FrontStep ==
  ASSUME HInv, NEW k \in Keys, k \in DOMAIN items, Use(k),
         ll' = MoveToFront(k), DOMAIN items' = DOMAIN items,
         lapsed' = lapsed \/ lapsed' = lapsed \ {k}
  PROVE  HistoryOK' /\ LRUOrder' /\ KeepsRecent'
<1>1. /\ ll \in Seq(Keys)
      /\ Distinct(ll)
      /\ ToSet(ll) = DOMAIN items
      /\ Ordered(ll, since)
      /\ DOMAIN items \subseteq DOMAIN since
  BY ListFacts DEF HInv, LRUOrder, Ordered
<1>2. /\ Without(k) \in Seq(Keys)
      /\ ToSet(Without(k)) = DOMAIN items \ {k}
      /\ Ordered(Without(k), since)
  BY <1>1, WithoutKey, WithoutOrder
<1>3. Ordered(ll', since')
  <2>1. Ordered(<<k>> \o Without(k), since')
    BY <1>1, <1>2, UseOrders
  <2> QED BY <2>1 DEF MoveToFront
<1>4. /\ HistoryOK'
      /\ DOMAIN since' = DOMAIN since \cup {k}
      /\ \A j \in DOMAIN since \ {k} :
           /\ since'[j] = since[j] \cup {k}
           /\ Cardinality(since[j]) \in Nat
           /\ Cardinality(since'[j]) \in Nat
           /\ Cardinality(since'[j]) >= Cardinality(since[j])
  BY UseGrows DEF HInv
<1>5. Evicted' \subseteq Evicted /\ k \notin Evicted
  BY <1>4 DEF Evicted
<1>6. Evicted \subseteq DOMAIN since \ {k}
  BY <1>5 DEF Evicted
<1>7. \A j \in Evicted' : DOMAIN items' \subseteq since'[j]
  BY <1>4, <1>5, <1>6 DEF HInv, LRUOrder
<1>8. DOMAIN items' \subseteq DOMAIN since'
  BY <1>1, <1>4
<1>9. LRUOrder'
  BY <1>3, <1>7, <1>8 DEF LRUOrder, Ordered
<1>10. ASSUME NEW j \in Evicted' PROVE Cardinality(since'[j]) >= MaxEntries
  <2>1. Cardinality(since[j]) >= MaxEntries
    BY <1>5, <1>10 DEF HInv, KeepsRecent
  <2> QED BY <1>4, <1>5, <1>6, <1>10, <2>1, CacheAssumption
<1>11. KeepsRecent'
  BY <1>10 DEF KeepsRecent
<1> QED BY <1>4, <1>9, <1>11

(* An expired entry leaves the cache for its age: what is left keeps its   *)
(* order, and nothing is evicted.                                          *)
LEMMA DropStep ==
  ASSUME HInv, NEW k \in Keys, Drop(k), since' = since,
         lapsed' = lapsed \cup {k}
  PROVE  HistoryOK' /\ LRUOrder' /\ KeepsRecent'
<1>1. /\ ll \in Seq(Keys)
      /\ ToSet(ll) = DOMAIN items
      /\ k \in DOMAIN items
      /\ ll' = Without(k)
      /\ DOMAIN items' = DOMAIN items \ {k}
      /\ Ordered(ll, since)
  BY ListFacts DEF HInv, LRUOrder, Ordered, Drop
<1>2. Ordered(ll', since')
  BY <1>1, WithoutOrder
<1>3. Evicted' \subseteq Evicted
  BY <1>1 DEF Evicted
<1>4. LRUOrder'
  BY <1>1, <1>2, <1>3 DEF LRUOrder, Ordered, HInv
<1> QED BY <1>3, <1>4 DEF HInv, HistoryOK, KeepsRecent

(* A new key comes in: with the cache full the last key of the list gives  *)
(* way, and everything that stays was used after it.                       *)
LEMMA InsertStep ==
  ASSUME HInv, CInv', NEW k \in Keys, NEW v \in Values, Insert(k, v),
         Use(k), lapsed' = lapsed \ {k}
  PROVE  HistoryOK' /\ LRUOrder' /\ KeepsRecent'
<1> DEFINE pushed == <<k>> \o ll
           size == Len(pushed) - Over(pushed)
           evicted == {pushed[i] : i \in size + 1 .. Len(pushed)}
<1>1. /\ ll \in Seq(Keys)
      /\ Distinct(ll)
      /\ ToSet(ll) = DOMAIN items
      /\ Len(ll) \in Nat
      /\ Len(ll) <= MaxEntries
      /\ MaxEntries \in Nat \ {0}
      /\ Ordered(ll, since)
      /\ DOMAIN items \subseteq DOMAIN since
  BY ListFacts, CacheAssumption DEF HInv, LRUOrder, Ordered
<1>2. /\ k \notin DOMAIN items
      /\ ll' = SubSeq(pushed, 1, size)
      /\ DOMAIN items' = (DOMAIN items \cup {k}) \ evicted
  BY DEF Insert
<1>3. /\ HistoryOK'
      /\ DOMAIN since' = DOMAIN since \cup {k}
      /\ \A j \in DOMAIN since \ {k} :
           /\ since'[j] = since[j] \cup {k}
           /\ Cardinality(since[j]) \in Nat
           /\ Cardinality(since'[j]) \in Nat
           /\ Cardinality(since'[j]) >= Cardinality(since[j])
  BY UseGrows DEF HInv
<1>4. /\ pushed \in Seq(Keys)
      /\ Distinct(pushed)
      /\ Len(pushed) = Len(ll) + 1
      /\ ToSet(pushed) = DOMAIN items \cup {k}
  BY <1>1, <1>2, ConsKey
<1>5. Ordered(pushed, since')
  BY <1>1, <1>2, UseOrders
<1>6. pushed[1] = k
  BY <1>1
<1> HIDE DEF pushed
<1>7. /\ size \in 1 .. Len(pushed)
      /\ size < Len(pushed) => size = MaxEntries
  <2>1. Over(pushed) = IF Len(ll) = MaxEntries THEN 1 ELSE 0
    <3>1. Over(pushed) =
            IF Len(pushed) > MaxEntries THEN Len(pushed) - MaxEntries ELSE 0
      BY DEF Over
    <3> QED BY <1>1, <1>4, <3>1
  <2> QED BY <1>1, <1>4, <2>1
<1> HIDE DEF size
<1>8. DOMAIN pushed = 1 .. Len(pushed) /\ Len(pushed) \in Nat
  BY <1>4
<1>9. k \in DOMAIN items'
  <2>1. ASSUME NEW i \in size + 1 .. Len(pushed) PROVE pushed[i] # k
    <3>1. i \in DOMAIN pushed /\ 1 \in DOMAIN pushed /\ i # 1
      BY <1>7, <1>8
    <3> QED BY <1>4, <1>6, <3>1 DEF Distinct
  <2> QED BY <1>2, <2>1
<1>10. DOMAIN items' \subseteq DOMAIN since'
  BY <1>1, <1>2, <1>3
<1>11. Ordered(ll', since')
  BY <1>2, <1>4, <1>5, <1>7, PrefixOrder
<1>12. ASSUME NEW j \in Evicted, j \in DOMAIN since \ {k}
       PROVE  /\ DOMAIN items' \subseteq since'[j]
              /\ Cardinality(since'[j]) >= MaxEntries
  <2>1. /\ DOMAIN items \subseteq since[j]
        /\ Cardinality(since[j]) >= MaxEntries
    BY DEF HInv, LRUOrder, KeepsRecent
  <2>2. DOMAIN items' \subseteq since'[j]
    BY <1>2, <1>3, <1>12, <2>1
  <2> QED BY <1>1, <1>3, <1>12, <2>1, <2>2
<1>13. ASSUME NEW i \in size + 1 .. Len(pushed),
              pushed[i] \in DOMAIN since'
       PROVE  /\ DOMAIN items' \subseteq since'[pushed[i]]
              /\ Cardinality(since'[pushed[i]]) >= MaxEntries
  <2>1. i \in DOMAIN pushed /\ size < i
    BY <1>7, <1>8
  <2>2. /\ ll' \in Seq(Keys)
        /\ Distinct(ll')
        /\ ToSet(ll') = DOMAIN items'
    BY DEF CInv, TypeOK, ListMatchesMap, Distinct
  <2>3. Len(ll') = size /\ ToSet(ll') = {pushed[a] : a \in 1 .. size}
    <3>1. /\ Len(ll') = size
          /\ \A a \in 1 .. size : ll'[a] = pushed[a]
      <4>1. \A a \in 1 .. size : pushed[a] \in Keys
        BY <1>4, <1>7
      <4>2. /\ Len(ll') = IF 1 <= size THEN size - 1 + 1 ELSE 0
            /\ \A a \in 1 .. size - 1 + 1 : ll'[a] = pushed[1 + a - 1]
        BY <1>2, <1>7, <4>1, SubSeqProperties
      <4> QED BY <1>7, <4>2
    <3>2. DOMAIN ll' = 1 .. size
      BY <2>2, <3>1
    <3> QED BY <3>1, <3>2 DEF ToSet
  <2>4. ASSUME NEW x \in DOMAIN items' PROVE x \in since'[pushed[i]]
    <3>1. PICK a \in 1 .. size : x = pushed[a]
      BY <2>2, <2>3
    <3>2. a \in DOMAIN pushed /\ a < i
      BY <1>7, <1>8, <2>1
    <3> QED BY <1>5, <2>1, <3>1, <3>2 DEF Ordered
  <2>5. Cardinality(DOMAIN items') = MaxEntries
    <3>1. Cardinality(ToSet(ll')) = Len(ll')
      BY <2>2, SizeOfList
    <3>2. size = MaxEntries
      BY <1>7, <1>8, <2>1
    <3> QED BY <2>2, <2>3, <3>1, <3>2
  <2>6. IsFiniteSet(since'[pushed[i]])
    BY <1>3, <1>13 DEF HistoryOK
  <2>7. DOMAIN items' \subseteq since'[pushed[i]]
    BY <2>4
  <2>8. /\ Cardinality(since'[pushed[i]]) \in Nat
        /\ Cardinality(DOMAIN items') <= Cardinality(since'[pushed[i]])
    BY <2>6, <2>7, FS_CardinalityType, FS_Subset
  <2> QED BY <1>1, <2>5, <2>7, <2>8
<1>14. ASSUME NEW j \in Evicted'
       PROVE  /\ DOMAIN items' \subseteq since'[j]
              /\ Cardinality(since'[j]) >= MaxEntries
  <2>1. /\ j \in DOMAIN since'
        /\ j \notin DOMAIN items'
        /\ j \notin lapsed'
        /\ j # k
    BY <1>9 DEF Evicted
  <2>2. j \in DOMAIN since \ {k} /\ j \notin lapsed
    BY <1>3, <2>1
  <2>3. CASE j \in DOMAIN items
    <3>1. j \in evicted
      BY <1>2, <2>1, <2>3
    <3> QED BY <1>13, <2>1, <3>1
  <2>4. CASE j \notin DOMAIN items
    <3>1. j \in Evicted
      BY <2>2, <2>4 DEF Evicted
    <3> QED BY <1>12, <2>2, <3>1
  <2> QED BY <2>3, <2>4
<1>15. LRUOrder'
  BY <1>10, <1>11, <1>14 DEF LRUOrder, Ordered
<1>16. KeepsRecent'
  BY <1>14 DEF KeepsRecent
<1> QED BY <1>3, <1>15, <1>16

-----------------------------------------------------------------------------
(* The record of use only watches.                                         *)
LEMMA StepIsNext == [HNext]_hvars => [Next]_vars
  BY DEF HNext, HLookup, HStore, HAge, Next, hvars, vars

LEMMA StepHInv == HInv /\ [HNext]_hvars => HInv'
<1> SUFFICES ASSUME HInv, [HNext]_hvars
             PROVE  HInv'
  OBVIOUS
<1>0. CInv'
  BY StepIsNext, StepCInv DEF HInv
<1>1. ASSUME NEW k \in Keys, HLookup(k)
      PROVE  HistoryOK' /\ LRUOrder' /\ KeepsRecent'
  <2>1. CASE Hit(k)
    <3>1. /\ Live(k)
          /\ Use(k)
          /\ ll' = MoveToFront(k)
          /\ items' = items
      BY <1>1, <2>1 DEF HLookup, Hit, Touch
    <3>2. k \in DOMAIN items /\ lapsed' = lapsed
      BY <1>1, <3>1 DEF HLookup, Live
    <3> QED BY <3>1, <3>2, FrontStep
  <2>2. CASE Absent(k)
    <3>1. /\ k \notin DOMAIN items
          /\ ll' = ll
          /\ items' = items
          /\ since' = since
          /\ lapsed' = lapsed
      BY <1>1, <2>2 DEF HLookup, Absent, Live
    <3> QED BY <3>1 DEF HInv, HistoryOK, LRUOrder, KeepsRecent, Evicted
  <2>3. CASE Drop(k)
    <3>1. since' = since /\ lapsed' = lapsed \cup {k}
      BY <1>1, <2>3 DEF HLookup, Drop, Live
    <3> QED BY <2>3, <3>1, DropStep
  <2> QED BY <1>1, <2>1, <2>2, <2>3 DEF HLookup, Lookup, Miss
<1>2. ASSUME NEW k \in Keys, NEW v \in Values, HStore(k, v)
      PROVE  HistoryOK' /\ LRUOrder' /\ KeepsRecent'
  <2>1. Use(k) /\ lapsed' = lapsed \ {k}
    BY <1>2 DEF HStore
  <2>2. CASE Overwrite(k, v)
    <3>1. /\ k \in DOMAIN items
          /\ ll' = MoveToFront(k)
          /\ DOMAIN items' = DOMAIN items
      BY <2>2 DEF Overwrite
    <3> QED BY <2>1, <3>1, FrontStep
  <2>3. CASE Insert(k, v)
    BY <1>0, <2>1, <2>3, InsertStep
  <2> QED BY <1>2, <2>2, <2>3 DEF HStore, Store, Put
<1>3. CASE HAge
  <2>1. /\ ll' = ll
        /\ DOMAIN items' = DOMAIN items
        /\ since' = since
        /\ lapsed' = lapsed
    BY <1>3 DEF HAge, Age, Grow
  <2> QED BY <1>0, <2>1 DEF HInv, HistoryOK, LRUOrder, KeepsRecent, Evicted
<1>4. CASE UNCHANGED hvars
  BY <1>0, <1>4 DEF hvars, vars, HInv, HistoryOK, LRUOrder, KeepsRecent,
                    Evicted
<1> QED BY <1>0, <1>1, <1>2, <1>3, <1>4 DEF HNext, HInv

LEMMA InitHInv == HInit => HInv
<1> SUFFICES ASSUME HInit
             PROVE  HInv
  OBVIOUS
<1>1. CInv
  BY InitCInv DEF HInit
<1>2. /\ ll = <<>>
      /\ DOMAIN items = {}
      /\ DOMAIN since = {}
  BY DEF HInit, Init
<1>3. DOMAIN ll = {}
  BY <1>2
<1> QED BY <1>1, <1>2, <1>3
        DEF HInv, HistoryOK, LRUOrder, KeepsRecent, Evicted

LEMMA HSpecHInv == HSpec => []HInv
  BY InitHInv, StepHInv, PTL DEF HSpec

(* The list of the cache is in the order of use, and what was evicted was  *)
(* used before everything that stayed (rendercache.go 95-143).             *)
THEOREM EvictsLeastRecentlyUsed == HSpec => []LRUOrder
<1>1. HInv => LRUOrder
  BY DEF HInv
<1> QED BY <1>1, HSpecHInv, PTL

(* A key is evicted only when at least as many other keys as the cache     *)
(* holds were used after it.                                               *)
THEOREM RecentlyUsedStays == HSpec => []KeepsRecent
<1>1. HInv => KeepsRecent
  BY DEF HInv
<1> QED BY <1>1, HSpecHInv, PTL
=============================================================================
