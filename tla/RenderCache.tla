---------------------------- MODULE RenderCache ----------------------------
(***************************************************************************)
(* The render cache of rendercache.go: an LRU list of entries and a map    *)
(* from key to entry, behind one mutex, so that lookup and store are       *)
(* atomic.  The list holds the keys; what a list element points to, the    *)
(* value and when it was stored, is in the map.  An entry's age stands for *)
(* now() - stored, counted up to TTL because it is only compared with it.  *)
(* A key is the input it is the hash of.  The hit and miss counters only   *)
(* feed a log line.                                                        *)
(***************************************************************************)
EXTENDS Naturals, Sequences, SequencesExt, FiniteSets

CONSTANTS Keys, Values,
          MaxEntries,  \* c.max; newRenderCache returns no cache when it is 0
          TTL,         \* c.ttl in clock ticks, 0 for none
          NoValue      \* what a miss returns

ASSUME CacheAssumption ==
  /\ MaxEntries \in Nat \ {0}
  /\ TTL \in Nat
  /\ NoValue \notin Values

VARIABLES ll,     \* c.ll as a sequence of keys, most recently used first
          items,  \* c.items: a partial function from keys to entries
          reply   \* what the last lookup returned

vars == <<ll, items, reply>>

Entry == [value : Values, age : 0 .. TTL]

Init ==
  /\ ll = <<>>
  /\ items = [k \in {} |-> NoValue]
  /\ reply = NoValue

Blank(v) == [value |-> NoValue, age |-> 0]  \* mutant: make without copy
Fresh(v) == [value |-> v, age |-> 0]

(* The list without the element of k.                                      *)
Without(k) == RemoveAt(ll, CHOOSE i \in DOMAIN ll : ll[i] = k)

InPlace(k) == ll  \* mutant: the element stays where it is
MoveToFront(k) == <<k>> \o Without(k)

Expired(k) == TTL > 0 /\ items[k].age >= TTL

Live(k) == k \in DOMAIN items /\ ~Expired(k)

(* The three outcomes of lookup(): no entry, an entry that is dropped      *)
(* because it is too old, and a hit.                                       *)
Absent(k) ==
  /\ k \notin DOMAIN items
  /\ UNCHANGED <<ll, items>>

\* Mutant: the expired element leaves the list and stays in the map.
DropElement(k) ==
  /\ k \in DOMAIN items /\ Expired(k)
  /\ ll' = Without(k)
  /\ UNCHANGED items

Drop(k) ==
  /\ k \in DOMAIN items /\ Expired(k)
  /\ ll' = Without(k)
  /\ items' = [j \in DOMAIN items \ {k} |-> items[j]]

\* Mutant: a hit renews the entry, so that one in use never expires.
Renew(k) ==
  /\ Live(k)
  /\ ll' = MoveToFront(k)
  /\ items' = [items EXCEPT ![k].age = 0]

Touch(k) ==
  /\ Live(k)
  /\ ll' = MoveToFront(k)
  /\ UNCHANGED items

Hit(k) == Touch(k) /\ reply' = items[k].value
Miss(k) == (Absent(k) \/ Drop(k)) /\ reply' = NoValue
Lookup(k) == Hit(k) \/ Miss(k)

(* The two outcomes of store().                                            *)
\* Mutant: overwriting a value keeps the time of the old one.
OverwriteValue(k, v) ==
  /\ k \in DOMAIN items
  /\ items' = [items EXCEPT ![k].value = v]
  /\ ll' = MoveToFront(k)

Overwrite(k, v) ==
  /\ k \in DOMAIN items
  /\ items' = [items EXCEPT ![k] = Fresh(v)]
  /\ ll' = MoveToFront(k)

(* How many elements of a list are over capacity.                          *)
EarlyOver(s) == IF Len(s) >= MaxEntries THEN Len(s) - MaxEntries + 1 ELSE 0
Over(s) == IF Len(s) > MaxEntries THEN Len(s) - MaxEntries ELSE 0

Insert(k, v) ==
  LET pushed  == <<k>> \o ll
      size    == Len(pushed) - Over(pushed)
      evicted == {pushed[i] : i \in size + 1 .. Len(pushed)}
  IN /\ k \notin DOMAIN items
     /\ ll' = SubSeq(pushed, 1, size)
     /\ items' = [j \in (DOMAIN items \cup {k}) \ evicted |->
                    IF j = k THEN Fresh(v) ELSE items[j]]

Put(k, v) == Overwrite(k, v) \/ Insert(k, v)
Store(k, v) == Put(k, v) /\ UNCHANGED reply

(* Time passes for every entry.                                            *)
Grow ==
  /\ items' = [k \in DOMAIN items |-> [items[k] EXCEPT !.age =
                                         IF @ < TTL THEN @ + 1 ELSE @]]
  /\ UNCHANGED ll

Age == Grow /\ UNCHANGED reply

Next ==
  \/ \E k \in Keys : Lookup(k)
  \/ \E k \in Keys, v \in Values : Store(k, v)
  \/ Age

Spec == Init /\ [][Next]_vars

-----------------------------------------------------------------------------
(* The type invariant: the list holds keys, the map holds entries of keys. *)
TypeOK ==
  /\ ll \in Seq(Keys)
  /\ DOMAIN items \subseteq Keys
  /\ \A k \in DOMAIN items : items[k] \in Entry
  /\ reply \in Values \cup {NoValue}

(* The list and the map name the same keys, each once, and no more than    *)
(* the cache may hold: no entry leaks in the map after its element left    *)
(* the list, and no element is orphaned.                                   *)
ListMatchesMap ==
  /\ ToSet(ll) = DOMAIN items
  /\ \A i, j \in DOMAIN ll : ll[i] = ll[j] => i = j
  /\ Len(ll) <= MaxEntries

M == INSTANCE Memo WITH memo <- items

(* What callers see of the list and the map is a bounded memo.             *)
ImplementsMemo == M!Spec
=============================================================================
