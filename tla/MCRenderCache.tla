--------------------------- MODULE MCRenderCache ---------------------------
(***************************************************************************)
(* RenderCache with a record of the order in which keys were used that     *)
(* knows no capacity, and on small instances.                              *)
(***************************************************************************)
EXTENDS RenderCache

VARIABLES since,  \* every key ever stored -> the keys used after it was
          lapsed  \* keys a lookup found expired and that were not stored since

hvars == <<vars, since, lapsed>>

Use(k) == since' = [j \in DOMAIN since \cup {k} |->
                      IF j = k THEN {} ELSE since[j] \cup {k}]

HInit == Init /\ since = [k \in {} |-> {}] /\ lapsed = {}

HLookup(k) ==
  /\ Lookup(k)
  /\ IF Live(k) THEN Use(k) ELSE UNCHANGED since
  /\ lapsed' = IF k \in DOMAIN items /\ Expired(k) THEN lapsed \cup {k}
                                                   ELSE lapsed
HStore(k, v) == Store(k, v) /\ Use(k) /\ lapsed' = lapsed \ {k}
HAge == Age /\ UNCHANGED <<since, lapsed>>

HNext ==
  \/ \E k \in Keys : HLookup(k)
  \/ \E k \in Keys, v \in Values : HStore(k, v)
  \/ HAge

HSpec == HInit /\ [][HNext]_hvars

(* What the cache had to give up, other than for its age.                  *)
Evicted == DOMAIN since \ (DOMAIN items \cup lapsed)

(* The list is in the order of use, the most recent in front, and whatever *)
(* was evicted was used before everything that is still there: the back of *)
(* the list is the least recently used.                                    *)
LRUOrder ==
  /\ DOMAIN items \subseteq DOMAIN since
  /\ \A i, j \in DOMAIN ll : i < j => ll[i] \in since[ll[j]]
  /\ \A k \in Evicted : DOMAIN items \subseteq since[k]

(* A key survives until MaxEntries other keys are used after it: whatever  *)
(* happened in between, a value used that recently is only lost by age.    *)
KeepsRecent == \A k \in Evicted : Cardinality(since[k]) >= MaxEntries
=============================================================================
