--------------------------- MODULE RecyclerProofs ---------------------------
(***************************************************************************)
(* Proofs about the recycler, for every number of calls and watchers and *)
(* every value of the limits.                                            *)
(***************************************************************************)
EXTENDS Recycler, FiniteSetTheorems, TLAPS

(* What makes the invariants inductive: who holds the gate and who is    *)
(* counted follows from where the calls are, the gate is owned only when *)
(* nobody holds it, a watcher past the drained arm of the select has seen*)
(* the gate owned, and nobody is past the CAS unless it set draining.    *)
HoldersExact == readers = {c \in Calls : call[c] \in Holding}
OwnerAlone == locker \in {"locked", "closed"} => readers = {}
DrainedMeansClosed ==
  /\ \A w \in Watchers : watch[w] = "drained" => locker = "closed"
  /\ exit = "drained" => locker = "closed"
CASGuards ==
  /\ draining <=> locker # "none"
  /\ \A w \in Watchers : Draining(w) => draining

GateInv ==
  /\ HoldersExact
  /\ OwnerAlone
  /\ DrainedMeansClosed
  /\ InflightExact

IInv ==
  /\ TypeOK
  /\ GateInv
  /\ CASGuards
  /\ SingleDrain

-----------------------------------------------------------------------------
(* The set of counted calls is finite, so that counting it makes sense.  *)
LEMMA CountedFinite == IsFiniteSet(CountedCalls)
  BY CallsAssumption, FS_Subset DEF CountedCalls

(* A step of a call that leaves it on the same side of the counter leaves*)
(* the set of counted calls alone.                                       *)
LEMMA CountedSame ==
  ASSUME NEW c \in Calls, NEW from, NEW to, TypeOK, Moves(c, from, to),
         from \in Counted <=> to \in Counted
  PROVE  CountedCalls' = CountedCalls
  BY DEF TypeOK, Moves, CountedCalls, Counted

(* Likewise for the calls that hold the gate.                            *)
LEMMA HoldersSame ==
  ASSUME NEW c \in Calls, NEW from, NEW to, TypeOK, Moves(c, from, to),
         from \in Holding <=> to \in Holding
  PROVE  {d \in Calls : call'[d] \in Holding} = {d \in Calls : call[d] \in Holding}
  BY DEF TypeOK, Moves, Holding

(* inflight.Add(1) counts a call that was not counted.                   *)
LEMMA CountedGrows ==
  ASSUME NEW c \in Calls, TypeOK, InflightExact, AddInflight(c)
  PROVE  InflightExact'
<1>1. CountedCalls' = CountedCalls \cup {c} /\ c \notin CountedCalls
  BY DEF TypeOK, AddInflight, Moves, CountedCalls, Counted
<1>2. Cardinality(CountedCalls \cup {c}) = Cardinality(CountedCalls) + 1
  BY <1>1, CountedFinite, FS_AddElement
<1> QED BY <1>1, <1>2 DEF InflightExact, AddInflight

(* inflight.Add(-1) uncounts a call that was counted, so the counter was *)
(* not zero.                                                             *)
LEMMA CountedShrinks ==
  ASSUME NEW c \in Calls, TypeOK, InflightExact, SubInflight(c)
  PROVE  InflightExact' /\ inflight' \in Nat
<1>1. CountedCalls' = CountedCalls \ {c} /\ c \in CountedCalls
  BY DEF TypeOK, SubInflight, Moves, CountedCalls, Counted
<1>2. Cardinality(CountedCalls \ {c}) = Cardinality(CountedCalls) - 1
  BY <1>1, CountedFinite, FS_RemoveElement
<1>3. Cardinality(CountedCalls \ {c}) \in Nat
  BY CountedFinite, FS_Subset, FS_CardinalityType
<1> QED BY <1>1, <1>2, <1>3 DEF InflightExact, SubInflight

-----------------------------------------------------------------------------
LEMMA InitIInv == Init => IInv
<1> SUFFICES ASSUME Init PROVE IInv
  OBVIOUS
<1>1. TypeOK
  <2>1. watch \in [Watchers -> WatchStates] /\ reason \in [Watchers -> Reasons]
    BY DEF Init, WatchStates, NoReason, Reasons
  <2>2. call \in [Calls -> CallStates]
    BY DEF Init, CallStates
  <2>3. count = 0 /\ elapsed = 0 /\ rss = 0 /\ inflight = 0
    BY DEF Init
  <2>4. count \in 0 .. MaxReconciles /\ elapsed \in 0 .. MaxLifetime
        /\ rss \in RSSReadings /\ inflight \in Nat
    BY <2>3, LimitsAssumption DEF RSSReadings
  <2> QED BY <2>1, <2>2, <2>4 DEF Init, TypeOK, LockerStates
<1>2. CountedCalls = {}
  BY DEF Init, CountedCalls, Counted
<1>3. GateInv
  BY <1>2, FS_EmptySet DEF Init, GateInv, HoldersExact, Holding, OwnerAlone,
     DrainedMeansClosed, InflightExact
<1>4. CASGuards /\ SingleDrain
  BY DEF Init, CASGuards, SingleDrain, Draining
<1> QED BY <1>1, <1>3, <1>4 DEF IInv

LEMMA StepTypeOK == IInv /\ [Next]_vars => TypeOK'
<1> SUFFICES ASSUME IInv, [Next]_vars PROVE TypeOK'
  OBVIOUS
<1> USE LimitsAssumption DEF TypeOK, IInv
<1>1. ASSUME NEW c \in Calls, CallStep(c) PROVE TypeOK'
  <2>1. CASE SubInflight(c)
    <3>1. inflight' \in Nat
      BY <2>1, CountedShrinks DEF GateInv
    <3> QED BY <2>1, <3>1 DEF SubInflight, Moves, gateVars, watchVars, envVars,
                             CallStates
  <2>2. CASE AddCount(c)
    BY <2>2 DEF AddCount, Moves, gateVars, watchVars, envVars, CallStates
  <2>3. CASE RLock(c) \/ RUnlock(c)
    BY <2>3 DEF RLock, RUnlock, Moves, watchVars, envVars, CallStates
  <2>4. CASE BeginAdmit(c) \/ BeginReject(c) \/ AddInflight(c) \/ Answer(c)
    BY <2>4 DEF BeginAdmit, BeginReject, AddInflight, Answer, Moves, gateVars,
                watchVars, envVars, CallStates
  <2> QED BY <1>1, <2>1, <2>2, <2>3, <2>4 DEF CallStep
<1>2. ASSUME NEW w \in Watchers, WatchStep(w) PROVE TypeOK'
  <2>1. CASE Tick(w)
    <3>1. count \in Nat /\ elapsed \in Nat /\ rss \in Nat \cup {ReadError}
      BY DEF RSSReadings
    <3>2. ShouldRecycle \in Reasons
      BY <3>1 DEF ShouldRecycle, ForCount, ForLifetime, ForRSS, NoReason,
                  Reasons
    <3> QED BY <2>1, <3>2 DEF Tick, Steps, gateVars, callVars, envVars,
                              WatchStates
  <2>2. CASE Recycle(w)
    BY <2>2 DEF Recycle, Steps, gateVars, callVars, envVars, WatchStates,
                LockerStates
  <2>3. CASE SelectDrained(w) \/ SelectTimeout(w)
    BY <2>3 DEF SelectDrained, SelectTimeout, Steps, gateVars, callVars,
                envVars, WatchStates
  <2>4. CASE Exit(w)
    BY <2>4 DEF Exit, Steps, gateVars, callVars, envVars, WatchStates
  <2> QED BY <1>2, <2>1, <2>2, <2>3, <2>4 DEF WatchStep
<1>3. CASE LockerStep
  BY <1>3 DEF LockerStep, AnnounceLock, TakeLock, CloseDrained, LockerSteps,
              callVars, watchVars, envVars, LockerStates
<1>4. CASE Age
  BY <1>4 DEF Age, gateVars, callVars, watchVars
<1>5. CASE RSSMoves
  BY <1>5 DEF RSSMoves, gateVars, callVars, watchVars
<1>6. CASE UNCHANGED vars
  BY <1>6 DEF vars, gateVars, callVars, watchVars, envVars
<1> QED BY <1>1, <1>2, <1>3, <1>4, <1>5, <1>6 DEF Next

(* The gate and the counter, one step per goroutine.                     *)
LEMMA StepGateInv == IInv /\ [Next]_vars => GateInv'
<1> SUFFICES ASSUME IInv, [Next]_vars PROVE GateInv'
  OBVIOUS
<1>0. TypeOK /\ GateInv /\ CASGuards
  BY DEF IInv
<1> USE <1>0
<1>1. ASSUME NEW c \in Calls, CallStep(c) PROVE GateInv'
  <2>1. InflightExact'
    <3>1. CASE AddInflight(c)
      BY <3>1, CountedGrows DEF GateInv
    <3>2. CASE SubInflight(c)
      BY <3>2, CountedShrinks DEF GateInv
    <3>3. CASE BeginAdmit(c) \/ BeginReject(c) \/ RLock(c) \/ AddCount(c)
               \/ RUnlock(c) \/ Answer(c)
      <4>1. CountedCalls' = CountedCalls
        BY <3>3, CountedSame DEF Counted, BeginAdmit, BeginReject, RLock,
           AddCount, RUnlock, Answer
      <4>2. inflight' = inflight
        BY <3>3 DEF BeginAdmit, BeginReject, RLock, AddCount, RUnlock, Answer
      <4> QED BY <4>1, <4>2 DEF GateInv, InflightExact
    <3> QED BY <1>1, <3>1, <3>2, <3>3 DEF CallStep
  <2>2. HoldersExact' /\ OwnerAlone'
    <3>1. CASE RLock(c)
      BY <3>1 DEF RLock, Moves, GateInv, HoldersExact, OwnerAlone, Holding,
                  TypeOK
    <3>2. CASE RUnlock(c)
      BY <3>2 DEF RUnlock, Moves, GateInv, HoldersExact, OwnerAlone, Holding,
                  TypeOK
    <3>3. CASE BeginAdmit(c) \/ BeginReject(c) \/ AddInflight(c)
               \/ AddCount(c) \/ SubInflight(c) \/ Answer(c)
      <4>1. {d \in Calls : call'[d] \in Holding}
            = {d \in Calls : call[d] \in Holding}
        BY <3>3, HoldersSame DEF Holding, BeginAdmit, BeginReject,
           AddInflight, AddCount, SubInflight, Answer
      <4>2. UNCHANGED <<readers, locker>>
        BY <3>3 DEF BeginAdmit, BeginReject, AddInflight, AddCount,
           SubInflight, Answer, gateVars
      <4> QED BY <4>1, <4>2 DEF GateInv, HoldersExact, OwnerAlone
    <3> QED BY <1>1, <3>1, <3>2, <3>3 DEF CallStep
  <2>3. DrainedMeansClosed'
    BY <1>1 DEF CallStep, BeginAdmit, BeginReject, RLock, AddInflight,
       AddCount, SubInflight, RUnlock, Answer, gateVars, watchVars, GateInv,
       DrainedMeansClosed
  <2> QED BY <2>1, <2>2, <2>3 DEF GateInv
<1>2. ASSUME NEW w \in Watchers, WatchStep(w) PROVE GateInv'
  <2>1. UNCHANGED <<readers, callVars>>
    BY <1>2 DEF WatchStep, Tick, Recycle, SelectDrained, SelectTimeout, Exit,
       gateVars
  <2>2. InflightExact' /\ HoldersExact'
    BY <2>1 DEF callVars, GateInv, InflightExact, CountedCalls, HoldersExact
  <2>3. OwnerAlone'
    BY <1>2 DEF WatchStep, Tick, Recycle, SelectDrained, SelectTimeout, Exit,
       gateVars, GateInv, OwnerAlone
  <2>4. DrainedMeansClosed'
    <3>1. CASE Recycle(w)
      BY <3>1 DEF Recycle, Steps, Running, gateVars, GateInv,
                  DrainedMeansClosed, CASGuards, TypeOK
    <3>2. CASE Tick(w) \/ SelectDrained(w) \/ SelectTimeout(w) \/ Exit(w)
      BY <3>2 DEF Tick, SelectDrained, SelectTimeout, Exit, Steps, gateVars,
                  GateInv, DrainedMeansClosed, TypeOK
    <3> QED BY <1>2, <3>1, <3>2 DEF WatchStep
  <2> QED BY <2>2, <2>3, <2>4 DEF GateInv
<1>3. CASE LockerStep
  BY <1>3 DEF LockerStep, AnnounceLock, TakeLock, CloseDrained, LockerSteps,
     Running, callVars, watchVars, GateInv, InflightExact, CountedCalls,
     HoldersExact, OwnerAlone, DrainedMeansClosed
<1>4. CASE Age \/ RSSMoves \/ UNCHANGED vars
  BY <1>4 DEF Age, RSSMoves, vars, gateVars, callVars, watchVars, GateInv,
     InflightExact, CountedCalls, HoldersExact, OwnerAlone,
     DrainedMeansClosed
<1> QED BY <1>1, <1>2, <1>3, <1>4 DEF Next

(* The compare-and-swap lets one watcher through.                        *)
LEMMA StepCAS == IInv /\ [Next]_vars => CASGuards' /\ SingleDrain'
<1> SUFFICES ASSUME IInv, [Next]_vars PROVE CASGuards' /\ SingleDrain'
  OBVIOUS
<1>0. TypeOK /\ GateInv /\ CASGuards /\ SingleDrain
  BY DEF IInv
<1> USE <1>0
<1>1. ASSUME NEW c \in Calls, CallStep(c) PROVE CASGuards' /\ SingleDrain'
  BY <1>1 DEF CallStep, BeginAdmit, BeginReject, RLock, AddInflight, AddCount,
     SubInflight, RUnlock, Answer, gateVars, watchVars, CASGuards,
     SingleDrain, Draining
<1>2. ASSUME NEW w \in Watchers, WatchStep(w)
      PROVE  CASGuards' /\ SingleDrain'
  <2>1. CASE Recycle(w)
    <3>1. CASE draining
      BY <2>1, <3>1 DEF Recycle, Steps, gateVars, CASGuards, SingleDrain,
                        Draining, TypeOK
    <3>2. CASE ~draining
      <4>1. \A v \in Watchers : ~Draining(v)
        BY <3>2 DEF CASGuards
      <4>2. draining' /\ locker' = "spawned"
        BY <2>1, <3>2 DEF Recycle
      <4>3. \A v \in Watchers : v # w => watch'[v] = watch[v]
        BY <2>1, <3>2 DEF Recycle, Steps, TypeOK
      <4>4. CASGuards'
        BY <4>2 DEF CASGuards
      <4>5. SingleDrain'
        BY <4>1, <4>3 DEF SingleDrain, Draining
      <4> QED BY <4>4, <4>5
    <3> QED BY <3>1, <3>2
  <2>2. CASE Tick(w) \/ SelectDrained(w) \/ SelectTimeout(w) \/ Exit(w)
    <3>1. UNCHANGED <<draining, locker>>
      BY <2>2 DEF Tick, SelectDrained, SelectTimeout, Exit, gateVars
    <3>2. \A v \in Watchers : Draining(v)' => Draining(v)
      BY <2>2 DEF Tick, SelectDrained, SelectTimeout, Exit, Steps, Draining,
                  TypeOK
    <3>3. CASGuards'
      BY <3>1, <3>2 DEF CASGuards
    <3>4. SingleDrain'
      BY <3>2 DEF SingleDrain
    <3> QED BY <3>3, <3>4
  <2> QED BY <1>2, <2>1, <2>2 DEF WatchStep
<1>3. CASE LockerStep
  BY <1>3 DEF LockerStep, AnnounceLock, TakeLock, CloseDrained, LockerSteps,
     watchVars, CASGuards, SingleDrain, Draining
<1>4. CASE Age \/ RSSMoves \/ UNCHANGED vars
  BY <1>4 DEF Age, RSSMoves, vars, gateVars, watchVars, CASGuards,
     SingleDrain, Draining
<1> QED BY <1>1, <1>2, <1>3, <1>4 DEF Next

(* The inductive invariant holds in every reachable state of the recycler.*)
THEOREM Inductive == Safety => []IInv
<1>1. IInv /\ [Next]_vars => IInv'
  BY StepTypeOK, StepGateInv, StepCAS DEF IInv
<1> QED BY InitIInv, <1>1, PTL DEF Safety

-----------------------------------------------------------------------------
(* Every variable of the recycler keeps its type; that the counter never *)
(* goes below zero needs that it is exact.                               *)
THEOREM TypeCorrect == Safety => []TypeOK
<1>1. IInv => TypeOK
  BY DEF IInv
<1> QED BY Inductive, <1>1, PTL

(* inflight counts the calls between its two updates, for any number of  *)
(* concurrent begin() and end().                                         *)
THEOREM InflightIsExact == Safety => []InflightExact
<1>1. IInv => InflightExact
  BY DEF IInv, GateInv
<1> QED BY Inductive, <1>1, PTL

(* When the drain goroutine owns the gate no call is inside and inflight *)
(* reads zero.                                                           *)
THEOREM GateIsExclusive == Safety => []GateExcludes
<1>1. IInv => GateExcludes
  <2> SUFFICES ASSUME IInv, locker \in {"locked", "closed"}
               PROVE  inflight = 0 /\ \A c \in Calls : call[c] \notin Holding
    BY DEF GateExcludes
  <2>1. \A c \in Calls : call[c] \notin Holding
    BY DEF IInv, GateInv, HoldersExact, OwnerAlone
  <2>2. CountedCalls = {}
    BY <2>1 DEF CountedCalls, Counted, Holding
  <2> QED BY <2>1, <2>2, FS_EmptySet DEF IInv, GateInv, InflightExact
<1> QED BY Inductive, <1>1, PTL

(* A process that exits because its drain finished, and not because it   *)
(* timed out, cuts no call off between begin() and end(): the pod's       *)
(* DrainFinishesWork rests on it.                                        *)
THEOREM DrainedExitIsClean ==
  Safety => [](exit = "drained" => \A c \in Calls : call[c] \notin Holding)
<1>1. IInv => (exit = "drained" => \A c \in Calls : call[c] \notin Holding)
  BY DEF IInv, GateInv, HoldersExact, OwnerAlone, DrainedMeansClosed
<1> QED BY Inductive, <1>1, PTL

(* Whatever number of goroutines call recycle(), at most one drains and  *)
(* exits.                                                                *)
THEOREM RecycleIsIdempotent == Safety => []SingleDrain
<1>1. IInv => SingleDrain
  BY DEF IInv
<1> QED BY Inductive, <1>1, PTL

-----------------------------------------------------------------------------
(* What a watcher acts on is a limit that is on and a reading that reached *)
(* it; the two limits that never go back are still crossed.  Only a watcher*)
(* that has such a reason gets as far as setting draining.                 *)
Over(reading, max) == reading # ReadError /\ max > 0 /\ reading >= max
Cause(r) ==
  /\ r.limit = "count" =>
       Over(r.reading, MaxReconciles) /\ count = MaxReconciles
  /\ r.limit = "lifetime" =>
       Over(r.reading, MaxLifetime) /\ elapsed = MaxLifetime
  /\ r.limit = "rss" => Over(r.reading, MaxRSS)
Crossed(w) == Cause(reason[w])

CauseInv ==
  /\ \A w \in Watchers : Crossed(w)
  /\ \A w \in Watchers : watch[w] = "triggered" => reason[w].limit # "none"
  /\ draining => \E w \in Watchers : reason[w].limit # "none"

(* What shouldRecycle() gives is such a reason.                            *)
LEMMA ReasonIsCause ==
  ASSUME TypeOK, ShouldRecycle # NoReason
  PROVE  Cause(ShouldRecycle) /\ ShouldRecycle.limit # "none"
<1>1. /\ count \in Nat /\ elapsed \in Nat /\ ReadError \notin Nat
      /\ count >= MaxReconciles => count = MaxReconciles
      /\ elapsed >= MaxLifetime => elapsed = MaxLifetime
  BY LimitsAssumption DEF TypeOK
<1>2. CASE OverCount
  BY <1>1, <1>2 DEF OverCount, ForCount, ShouldRecycle, Cause, Over
<1>3. CASE ~OverCount /\ OverLifetime
  BY <1>1, <1>3 DEF OverLifetime, ForLifetime, ShouldRecycle, Cause, Over
<1>4. CASE ~OverCount /\ ~OverLifetime /\ OverRSS
  BY <1>1, <1>4 DEF OverRSS, ForRSS, ShouldRecycle, Cause, Over
<1> QED BY <1>2, <1>3, <1>4 DEF ShouldRecycle

LEMMA StepCause == TypeOK /\ CauseInv /\ [Next]_vars => CauseInv'
<1> SUFFICES ASSUME TypeOK, CauseInv, [Next]_vars PROVE CauseInv'
  OBVIOUS
<1>1. ASSUME NEW c \in Calls, CallStep(c) PROVE CauseInv'
  <2>1. UNCHANGED <<draining, watch, reason, elapsed>>
    BY <1>1 DEF CallStep, BeginAdmit, BeginReject, RLock, AddInflight,
       AddCount, SubInflight, RUnlock, Answer, gateVars, watchVars, envVars
  <2>2. count = MaxReconciles => count' = MaxReconciles
    BY <1>1, LimitsAssumption DEF TypeOK, CallStep, BeginAdmit, BeginReject,
       RLock, AddInflight, AddCount, SubInflight, RUnlock, Answer
  <2> QED BY <2>1, <2>2 DEF CauseInv, Crossed, Cause
<1>2. ASSUME NEW w \in Watchers, WatchStep(w) PROVE CauseInv'
  <2>1. UNCHANGED <<count, elapsed>>
    BY <1>2 DEF WatchStep, Tick, Recycle, SelectDrained, SelectTimeout, Exit,
       callVars, envVars
  <2>2. CASE Tick(w)
    <3>1. Cause(ShouldRecycle) /\ ShouldRecycle.limit # "none"
      BY <2>2, ReasonIsCause DEF Tick
    <3>2. /\ reason' = [reason EXCEPT ![w] = ShouldRecycle]
          /\ watch' = [watch EXCEPT ![w] = "triggered"]
          /\ draining' = draining
      BY <2>2 DEF Tick, Steps, gateVars
    <3>3. \A v \in Watchers : Crossed(v)'
      BY <2>1, <3>1, <3>2 DEF CauseInv, Crossed, Cause, TypeOK
    <3>4. \A v \in Watchers :
            reason[v].limit # "none" => reason'[v].limit # "none"
      BY <3>1, <3>2 DEF TypeOK
    <3>5. \A v \in Watchers :
            watch'[v] = "triggered" => reason'[v].limit # "none"
      BY <3>1, <3>2 DEF CauseInv, TypeOK
    <3> QED BY <3>2, <3>3, <3>4, <3>5 DEF CauseInv
  <2>3. CASE Recycle(w) \/ SelectDrained(w) \/ SelectTimeout(w) \/ Exit(w)
    <3>1. reason' = reason
      BY <2>3 DEF Recycle, SelectDrained, SelectTimeout, Exit
    <3>2. \A v \in Watchers : watch'[v] = "triggered" => watch[v] = "triggered"
      BY <2>3 DEF Recycle, SelectDrained, SelectTimeout, Exit, Steps, TypeOK
    <3>3. draining' => draining \/ watch[w] = "triggered"
      BY <2>3 DEF Recycle, SelectDrained, SelectTimeout, Exit, Steps, gateVars
    <3> QED BY <2>1, <3>1, <3>2, <3>3 DEF CauseInv, Crossed, Cause
  <2> QED BY <1>2, <2>2, <2>3 DEF WatchStep
<1>3. CASE LockerStep \/ RSSMoves \/ UNCHANGED vars
  <2>1. UNCHANGED <<draining, watch, reason, count, elapsed>>
    BY <1>3 DEF LockerStep, AnnounceLock, TakeLock, CloseDrained,
       LockerSteps, RSSMoves, vars, gateVars, callVars, watchVars, envVars
  <2> QED BY <2>1 DEF CauseInv, Crossed, Cause
<1>4. CASE Age
  <2>1. UNCHANGED <<draining, watch, reason, count>> /\ elapsed # MaxLifetime
    BY <1>4, LimitsAssumption DEF Age, gateVars, callVars, watchVars, TypeOK
  <2> QED BY <2>1 DEF CauseInv, Crossed, Cause
<1> QED BY <1>1, <1>2, <1>3, <1>4 DEF Next

LEMMA CauseInitially == Init => CauseInv
BY DEF Init, CauseInv, Crossed, Cause, NoReason

LEMMA CauseIsGiven == TypeOK /\ CauseInv => RecycleHasCause
<1> SUFFICES ASSUME TypeOK, CauseInv, draining
             PROVE  RecycleHasCause
  BY DEF RecycleHasCause
<1>1. PICK w \in Watchers : reason[w].limit # "none"
  BY DEF CauseInv
<1>2. reason[w].limit \in {"count", "lifetime", "rss"}
  BY <1>1 DEF TypeOK, Reasons
<1>3. Cause(reason[w])
  BY DEF CauseInv, Crossed
<1>4. /\ count = MaxReconciles => count >= MaxReconciles
      /\ elapsed = MaxLifetime => elapsed >= MaxLifetime
  BY LimitsAssumption
<1> QED BY <1>2, <1>3, <1>4 DEF Cause, Over, RecycleHasCause

(* A process never drains unless a reading reached an enabled limit: 0 is  *)
(* off, whatever the values of the others, and neither a failed reading nor*)
(* an RSS below the limit starts a drain.                                  *)
THEOREM DrainHasCause == Safety => []RecycleHasCause
BY CauseInitially, CauseIsGiven, StepCause, TypeCorrect, PTL DEF Safety

-----------------------------------------------------------------------------
(* Where a step can leave a call: a call that was not at the gate gets   *)
(* there only through the check of draining.                             *)
LEMMA StepDrains == IInv /\ [Next]_vars => [DrainStep]_vars
<1> SUFFICES ASSUME IInv, Next PROVE DrainStep
  BY DEF DrainStep, vars
<1>0. TypeOK /\ CASGuards
  BY DEF IInv
<1> USE <1>0
<1>1. ASSUME NEW c \in Calls, CallStep(c) PROVE DrainStep
  <2>1. UNCHANGED <<draining, locker>>
    BY <1>1 DEF CallStep, BeginAdmit, BeginReject, RLock, AddInflight,
       AddCount, SubInflight, RUnlock, Answer, gateVars
  <2>2. draining => AtGate' \subseteq AtGate
    BY <1>1 DEF CallStep, BeginAdmit, CanBegin, BeginReject, RLock,
       AddInflight, AddCount, SubInflight, RUnlock, Answer, Moves, AtGate,
       Holding, TypeOK
  <2>3. locker \in {"pending", "locked", "closed"} => readers' \subseteq readers
    BY <1>1 DEF CallStep, BeginAdmit, BeginReject, RLock, AddInflight,
       AddCount, SubInflight, RUnlock, Answer, gateVars
  <2> QED BY <2>1, <2>2, <2>3 DEF DrainStep
<1>2. ASSUME NEW w \in Watchers, WatchStep(w) PROVE DrainStep
  <2>1. UNCHANGED <<readers, call>>
    BY <1>2 DEF WatchStep, Tick, Recycle, SelectDrained, SelectTimeout, Exit,
       gateVars, callVars
  <2>2. draining' = draining \/ draining' = TRUE
    BY <1>2 DEF WatchStep, Tick, Recycle, SelectDrained, SelectTimeout, Exit,
       gateVars
  <2>3. draining => draining'
    BY <2>2
  <2> QED BY <2>1, <2>3 DEF DrainStep, AtGate
<1>3. CASE LockerStep
  BY <1>3 DEF LockerStep, AnnounceLock, TakeLock, CloseDrained, LockerSteps,
     callVars, DrainStep, AtGate
<1>4. CASE Age \/ RSSMoves
  BY <1>4 DEF Age, RSSMoves, gateVars, callVars, DrainStep, AtGate
<1> QED BY <1>1, <1>2, <1>3, <1>4 DEF Next

(* The drain is bounded by the calls that passed begin()'s check before  *)
(* it started.                                                           *)
THEOREM DrainOnlyShrinks == Safety => DrainShrinks
<1> QED BY Inductive, StepDrains, PTL DEF Safety, DrainShrinks

-----------------------------------------------------------------------------
(* The phase of the abstract drain that each state of the recycler maps to.*)
LEMMA PhaseIs ==
  ASSUME TypeOK
  PROVE  /\ Running /\ locker = "none" => Phase = "open"
         /\ Running /\ locker = "spawned" => Phase = "draining"
         /\ Running /\ locker \in {"pending", "locked", "closed"}
              => Phase = "shut"
         /\ exit = "drained" => Phase = "clean"
         /\ exit = "timedout" => Phase = "forced"
  BY DEF TypeOK, Running, Phase

(* The phase depends on two variables only.                              *)
LEMMA PhaseSame == UNCHANGED <<exit, locker>> => UNCHANGED Phase
  BY DEF Phase, Running

LEMMA InitDrain == Init => Drain!Init
<1> SUFFICES ASSUME Init PROVE Drain!Init
  OBVIOUS
<1>1. Phase = "open"
  BY InitIInv, PhaseIs DEF IInv, Init, Running
<1>2. Waiting = {}
  BY DEF Init, Waiting
<1> QED BY <1>1, <1>2 DEF Init, Drain!Init

(* Each step of the recycler is a step of the abstract drain or a stutter.*)
LEMMA StepDrain ==
  IInv /\ IInv' /\ [Next]_vars => [Drain!Next]_(Drain!vars)
<1> SUFFICES ASSUME IInv, IInv', [Next]_vars PROVE [Drain!Next]_(Drain!vars)
  OBVIOUS
<1>0. TypeOK /\ TypeOK' /\ GateInv /\ CASGuards
  BY DEF IInv
<1> USE <1>0
<1>1. ASSUME NEW c \in Calls, CallStep(c) PROVE [Drain!Next]_(Drain!vars)
  <2>1. UNCHANGED <<exit, locker>> /\ UNCHANGED Phase /\ Running
    <3>1. UNCHANGED <<exit, locker>> /\ Running
      BY <1>1 DEF CallStep, BeginAdmit, BeginReject, RLock, AddInflight,
         AddCount, SubInflight, RUnlock, Answer, Moves, gateVars, watchVars
    <3> QED BY <3>1, PhaseSame
  <2>2. CASE BeginAdmit(c)
    <3>1. Phase = "open"
      BY <2>1, <2>2, PhaseIs DEF BeginAdmit, CanBegin, CASGuards
    <3>2. Waiting' = Waiting \cup {c} /\ readers' = readers
          /\ c \notin Waiting \cup readers
      BY <2>2 DEF BeginAdmit, Moves, Waiting, gateVars, GateInv, HoldersExact,
                  Holding, TypeOK
    <3>3. Drain!Knock(c)
      BY <2>1, <3>1, <3>2 DEF Drain!Knock
    <3> QED BY <3>3 DEF Drain!Next
  <2>3. CASE RLock(c)
    <3>1. Phase \in {"open", "draining"}
      BY <2>1, <2>3, PhaseIs DEF RLock
    <3>2. Waiting' = Waiting \ {c} /\ readers' = readers \cup {c}
          /\ c \in Waiting
      BY <2>3 DEF RLock, Moves, Waiting, TypeOK
    <3>3. Drain!Enter(c)
      BY <2>1, <3>1, <3>2 DEF Drain!Enter
    <3> QED BY <3>3 DEF Drain!Next
  <2>4. CASE RUnlock(c)
    <3>1. Phase \in {"open", "draining", "shut"}
      BY <2>1, PhaseIs DEF TypeOK, LockerStates
    <3>2. Waiting' = Waiting /\ readers' = readers \ {c} /\ c \in readers
      BY <2>4 DEF RUnlock, Moves, Waiting, GateInv, HoldersExact, Holding,
                  TypeOK
    <3>3. Drain!Leave(c)
      BY <2>1, <3>1, <3>2 DEF Drain!Leave, Drain!Alive
    <3> QED BY <3>3 DEF Drain!Next
  <2>5. CASE BeginReject(c) \/ AddInflight(c) \/ AddCount(c)
             \/ SubInflight(c) \/ Answer(c)
    <3>1. Waiting' = Waiting /\ readers' = readers
      BY <2>5 DEF BeginReject, AddInflight, AddCount, SubInflight, Answer,
                  Moves, Waiting, gateVars, TypeOK
    <3> QED BY <2>1, <3>1 DEF Drain!vars
  <2> QED BY <1>1, <2>2, <2>3, <2>4, <2>5 DEF CallStep
<1>2. ASSUME NEW w \in Watchers, WatchStep(w) PROVE [Drain!Next]_(Drain!vars)
  <2>1. Waiting' = Waiting /\ readers' = readers /\ Running
    BY <1>2 DEF WatchStep, Tick, Recycle, SelectDrained, SelectTimeout, Exit,
       Steps, gateVars, callVars, Waiting
  <2>2. CASE Recycle(w)
    <3>1. CASE draining
      <4>1. UNCHANGED <<exit, locker>>
        BY <2>2, <3>1 DEF Recycle, gateVars
      <4> QED BY <2>1, <4>1, PhaseSame DEF Drain!vars
    <3>2. CASE ~draining
      <4>1. Phase = "open"
        BY <2>1, <3>2, PhaseIs DEF CASGuards
      <4>2. exit' = exit /\ locker' = "spawned"
        BY <2>2, <3>2 DEF Recycle
      <4>3. Phase' = "draining"
        BY <2>1, <4>2, PhaseIs DEF Running, Phase
      <4>4. Drain!StartDrain
        BY <2>1, <4>1, <4>3 DEF Drain!StartDrain
      <4> QED BY <4>4 DEF Drain!Next
    <3> QED BY <3>1, <3>2
  <2>3. CASE Exit(w)
    <3>1. locker # "none"
      BY <2>3 DEF Exit, Steps, CASGuards, Draining
    <3>2. Phase \in {"draining", "shut"}
      BY <2>1, <3>1, PhaseIs DEF TypeOK, LockerStates
    <3>3. CASE watch[w] = "drained"
      <4>1. locker = "closed" /\ exit' = "drained"
        BY <2>3, <3>3 DEF Exit, GateInv, DrainedMeansClosed
      <4>2. Phase = "shut" /\ readers = {}
        BY <2>1, <4>1, PhaseIs DEF GateInv, OwnerAlone
      <4>3. Phase' = "clean"
        BY <4>1 DEF Phase, Running
      <4>4. Drain!StopClean
        BY <2>1, <4>2, <4>3 DEF Drain!StopClean
      <4> QED BY <4>4 DEF Drain!Next
    <3>4. CASE watch[w] = "timedout"
      <4>1. exit' = "timedout"
        BY <2>3, <3>4 DEF Exit
      <4>2. Phase' = "forced"
        BY <4>1 DEF Phase, Running
      <4>3. Drain!StopForced
        BY <2>1, <3>2, <4>2 DEF Drain!StopForced
      <4> QED BY <4>3 DEF Drain!Next
    <3> QED BY <2>3, <3>3, <3>4 DEF Exit, Steps
  <2>4. CASE Tick(w) \/ SelectDrained(w) \/ SelectTimeout(w)
    <3>1. UNCHANGED <<exit, locker>>
      BY <2>4 DEF Tick, SelectDrained, SelectTimeout, gateVars
    <3> QED BY <2>1, <3>1, PhaseSame DEF Drain!vars
  <2> QED BY <1>2, <2>2, <2>3, <2>4 DEF WatchStep
<1>3. CASE LockerStep
  <2>1. Waiting' = Waiting /\ readers' = readers /\ exit' = exit /\ Running
    BY <1>3 DEF LockerStep, AnnounceLock, TakeLock, CloseDrained, LockerSteps,
       callVars, watchVars, Waiting
  <2>2. CASE AnnounceLock
    <3>1. Phase = "draining"
      BY <2>1, <2>2, PhaseIs DEF AnnounceLock, LockerSteps
    <3>2. Phase' = "shut"
      BY <2>1, <2>2 DEF AnnounceLock, LockerSteps, Phase, Running
    <3>3. Drain!Shut
      BY <2>1, <3>1, <3>2 DEF Drain!Shut
    <3> QED BY <3>3 DEF Drain!Next
  <2>3. CASE TakeLock \/ CloseDrained
    <3>1. Phase = "shut"
      BY <2>1, <2>3, PhaseIs DEF TakeLock, CloseDrained, LockerSteps
    <3>2. Phase' = "shut"
      BY <2>1, <2>3 DEF TakeLock, CloseDrained, LockerSteps, Phase, Running
    <3> QED BY <2>1, <3>1, <3>2 DEF Drain!vars
  <2> QED BY <1>3, <2>2, <2>3 DEF LockerStep
<1>4. CASE Age \/ RSSMoves \/ UNCHANGED vars
  <2>1. UNCHANGED <<exit, locker, readers, call>>
    BY <1>4 DEF Age, RSSMoves, vars, gateVars, callVars, watchVars
  <2> QED BY <2>1, PhaseSame DEF Drain!vars, Waiting
<1> QED BY <1>1, <1>2, <1>3, <1>4 DEF Next

(* The recycler implements the abstract drain, liveness aside.           *)
THEOREM RecyclerImplementsDrain == Safety => ImplementsDrainSafety
<1> QED BY InitDrain, StepDrain, Inductive, PTL
        DEF Safety, ImplementsDrainSafety, Drain!Safety
=============================================================================
