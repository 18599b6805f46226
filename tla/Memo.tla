-------------------------------- MODULE Memo --------------------------------
(***************************************************************************)
(* What the render cache promises RunFunction, whatever list and map it    *)
(* keeps: a bounded memo that answers with the value stored last, never    *)
(* with one that is TTL old or older, counted from when it was stored, and *)
(* that forgets a value early only to make room for another.               *)
(***************************************************************************)
EXTENDS Naturals, FiniteSets

CONSTANTS Keys, Values, MaxEntries, TTL, NoValue

VARIABLES memo,   \* partial function from keys to [value, age]
          reply   \* what the last lookup returned

vars == <<memo, reply>>

Known == DOMAIN memo
Expired(k) == TTL > 0 /\ memo[k].age >= TTL
Keep(S) == [k \in S |-> memo[k]]

Init ==
  /\ memo = [k \in {} |-> NoValue]
  /\ reply = NoValue

Hit(k) ==
  /\ k \in Known /\ ~Expired(k)
  /\ reply' = memo[k].value
  /\ UNCHANGED memo

Miss(k) ==
  /\ k \in Known => Expired(k)
  /\ reply' = NoValue
  /\ memo' = Keep(Known \ {k})

(* Somebody makes room only when everybody else would be one too many.     *)
Put(k, v) ==
  /\ \E kept \in SUBSET (Known \ {k}) :
       /\ Cardinality(kept) < MaxEntries
       /\ Cardinality(Known \ {k}) < MaxEntries => kept = Known \ {k}
       /\ Cardinality(kept) + 1 >= Cardinality(Known \ {k})
       /\ memo' = [j \in kept \cup {k} |->
                     IF j = k THEN [value |-> v, age |-> 0] ELSE memo[j]]
  /\ UNCHANGED reply

Age ==
  /\ memo' = [k \in Known |-> [memo[k] EXCEPT !.age =
                                 IF @ < TTL THEN @ + 1 ELSE @]]
  /\ UNCHANGED reply

Next ==
  \/ \E k \in Keys : Hit(k) \/ Miss(k)
  \/ \E k \in Keys, v \in Values : Put(k, v)
  \/ Age

Spec == Init /\ [][Next]_vars
=============================================================================
