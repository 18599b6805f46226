----------------------------- MODULE PodProofs -----------------------------
(***************************************************************************)
(* Proofs about a pod, for any number of calls, sources, parameters and    *)
(* published versions, with a cache of any size and TTL or none.           *)
(***************************************************************************)
EXTENDS FunctionPod, TLAPS

(* A call has a request while it works and nothing from before; what it is *)
(* about to store is an output.                                            *)
WorkInv ==
  /\ DOMAIN call = Calls /\ DOMAIN request = Calls
  /\ DOMAIN stage = Calls /\ DOMAIN out = Calls
  /\ upstream \in 0 .. MaxVersion
  /\ \A c \in Calls :
       /\ call[c] \in {"idle", "rejected"} => stage[c] = "none"
       /\ call[c] \in {"admitted", "locked", "counting"}
            => stage[c] = "none" /\ request[c] \in Requests
       /\ stage[c] = "none" => out[c] = Failure
       /\ stage[c] # "none" => request[c] \in Requests
       /\ stage[c] = "store" => out[c] # Failure
       /\ stage[c] \in {"none", "done"} \/ call[c] = "rendering"

CallsOwn == \A c \in Calls : out[c] # Failure => out[c].of = request[c]
EntriesOwn ==
  \A k \in DOMAIN items :
    /\ DOMAIN items[k] = {"value", "age"}
    /\ items[k].value # Failure /\ items[k].value.of = k

PodInv == WorkInv /\ CallsOwn /\ EntriesOwn

-----------------------------------------------------------------------------
(* Whatever the list does, the entries that remain are the old ones, and   *)
(* one for the key that was stored.                                        *)
LEMMA PutEntries ==
  ASSUME NEW k, NEW v, C!Put(k, v), EntriesOwn, v # Failure, v.of = k
  PROVE  EntriesOwn'
<1>1. CASE C!Overwrite(k, v)
  <2>1. /\ DOMAIN items' = DOMAIN items
        /\ items'[k] = C!Fresh(v)
        /\ \A j \in DOMAIN items : j # k => items'[j] = items[j]
    BY <1>1 DEF C!Overwrite
  <2>2. C!Fresh(v).value = v /\ DOMAIN C!Fresh(v) = {"value", "age"}
    BY DEF C!Fresh
  <2> QED BY <2>1, <2>2 DEF EntriesOwn
<1>2. CASE C!Insert(k, v)
  <2>1. /\ DOMAIN items' \subseteq DOMAIN items \cup {k}
        /\ \A j \in DOMAIN items' :
             items'[j] = IF j = k THEN C!Fresh(v) ELSE items[j]
    BY <1>2 DEF C!Insert
  <2>2. C!Fresh(v).value = v /\ DOMAIN C!Fresh(v) = {"value", "age"}
    BY DEF C!Fresh
  <2> QED BY <2>1, <2>2 DEF EntriesOwn
<1> QED BY <1>1, <1>2 DEF C!Put

LEMMA DropEntries ==
  ASSUME NEW k, C!Drop(k), EntriesOwn
  PROVE  EntriesOwn'
  BY DEF C!Drop, EntriesOwn

LEMMA GrowEntries ==
  ASSUME C!Grow, EntriesOwn
  PROVE  EntriesOwn'
<1>1. /\ DOMAIN items' = DOMAIN items
      /\ \A k \in DOMAIN items : /\ items'[k].value = items[k].value
                                /\ DOMAIN items'[k] = {"value", "age"}
  BY DEF C!Grow, EntriesOwn
<1> QED BY <1>1 DEF EntriesOwn

(* What KCL makes of a request is an output, and one of that request.      *)
LEMMA RenderedIsOutput ==
  ASSUME WorkInv, NEW c \in Calls, request[c] \in Requests
  PROVE  Rendered(request[c]) # Failure /\ Rendered(request[c]).of = request[c]
<1>1. Rendered(request[c]) \in Outputs
  <2>1. upstream \in 0 .. MaxVersion /\ 0 \in 0 .. MaxVersion
    BY PodAssumption DEF WorkInv
  <2>2. PICK v \in 0 .. MaxVersion :
          Rendered(request[c]) = [of |-> request[c], version |-> v]
    BY <2>1 DEF Rendered
  <2> QED BY <2>2 DEF Outputs
<1>2. Rendered(request[c]) # Failure
  BY <1>1, FailureAssumption
<1>3. Rendered(request[c]).of = request[c]
  BY DEF Rendered
<1> QED BY <1>2, <1>3

LEMMA InitPod == Init => PodInv
<1> SUFFICES ASSUME Init PROVE PodInv
  OBVIOUS
<1>1. WorkInv
  <2>1. /\ call = [c \in Calls |-> "idle"] /\ upstream = 0
        /\ request = [c \in Calls |-> NoRequest]
        /\ stage = [c \in Calls |-> "none"] /\ out = [c \in Calls |-> Failure]
    BY DEF Init, R!Init
  <2> QED BY <2>1, PodAssumption DEF WorkInv
<1>2. CallsOwn /\ EntriesOwn
  BY DEF Init, CallsOwn, EntriesOwn
<1> QED BY <1>1, <1>2 DEF PodInv

LEMMA StepPod == PodInv /\ [Next]_vars => PodInv'
<1> SUFFICES ASSUME PodInv, [Next]_vars PROVE PodInv'
  OBVIOUS
<1>0. WorkInv /\ CallsOwn /\ EntriesOwn
  BY DEF PodInv
<1> USE <1>0
<1>1. ASSUME NEW c \in Calls, Arrive(c) PROVE PodInv'
  <2>1. /\ call[c] = "idle" /\ UNCHANGED <<items, stage, out, upstream>>
        /\ \/ /\ call' = [call EXCEPT ![c] = "admitted"]
              /\ \E r \in Requests : request' = [request EXCEPT ![c] = r]
           \/ /\ call' = [call EXCEPT ![c] = "rejected"]
              /\ request' = request
    BY <1>1 DEF Arrive, R!BeginAdmit, R!BeginReject, R!Moves, cacheVars
  <2>2. stage[c] = "none" /\ out[c] = Failure
    BY <2>1 DEF WorkInv
  <2>3. WorkInv'
    BY <2>1, <2>2 DEF WorkInv
  <2>4. CallsOwn' /\ EntriesOwn'
    BY <2>1, <2>2 DEF WorkInv, CallsOwn, EntriesOwn
  <2> QED BY <2>3, <2>4 DEF PodInv
<1>2. ASSUME NEW c \in Calls, Enter(c) \/ StartWork(c) \/ Finish(c) \/ Leave(c)
      PROVE  PodInv'
  <2>1. UNCHANGED <<items, request, out, upstream>>
    BY <1>2 DEF Enter, StartWork, Finish, Leave, cacheVars, workVars
  <2>2. CASE StartWork(c)
    <3>1. /\ call[c] = "counting" /\ call' = [call EXCEPT ![c] = "rendering"]
          /\ stage' = [stage EXCEPT ![c] = "prepare"]
      BY <2>2 DEF StartWork, R!AddCount, R!Moves
    <3>2. request[c] \in Requests
      BY <3>1 DEF WorkInv
    <3> QED BY <2>1, <3>1, <3>2 DEF PodInv, WorkInv, CallsOwn, EntriesOwn
  <2>3. CASE Enter(c) \/ Finish(c) \/ Leave(c)
    <3>1. /\ stage' = stage
          /\ \/ /\ call[c] \in {"admitted", "locked"}
                /\ \E s \in {"locked", "counting"} :
                     call' = [call EXCEPT ![c] = s]
             \/ /\ stage[c] = "done" \/ call[c] = "ending"
                /\ \E s \in {"ending", "returned"} :
                     call' = [call EXCEPT ![c] = s]
      BY <2>3 DEF Enter, Finish, Leave, R!RLock, R!AddInflight,
         R!SubInflight, R!RUnlock, R!Moves, workVars
    <3> QED BY <2>1, <3>1 DEF PodInv, WorkInv, CallsOwn, EntriesOwn
  <2> QED BY <1>2, <2>2, <2>3
<1>3. ASSUME NEW c \in Calls, Reply(c) PROVE PodInv'
  <2>1. /\ UNCHANGED <<items, upstream>>
        /\ call' = [call EXCEPT ![c] = "idle"]
        /\ request' = [request EXCEPT ![c] = NoRequest]
        /\ stage' = [stage EXCEPT ![c] = "none"]
        /\ out' = [out EXCEPT ![c] = Failure]
    BY <1>3 DEF Reply, R!Answer, R!Moves, cacheVars
  <2> QED BY <2>1 DEF PodInv, WorkInv, CallsOwn, EntriesOwn
<1>4. ASSUME NEW c \in Calls, Work(c) PROVE PodInv'
  <2>1. UNCHANGED <<call, request, upstream>>
    BY <1>4 DEF Work, Prepare, Lookup, Render, Store, Parse, Leak, recyclerVars
  <2>2. /\ stage[c] \notin {"none", "done"}
        /\ \E s : stage' = [stage EXCEPT ![c] = s]
    BY <1>4 DEF Work, Prepare, Lookup, Render, Store, Parse, Works
  <2>3. request[c] \in Requests /\ call[c] = "rendering"
    BY <2>2 DEF WorkInv
  <2>4. stage'[c] # "none"
    BY <1>4 DEF Work, Prepare, Lookup, Render, Store, Parse, Works, WorkInv
  (* It is enough to look at the output of this call and at the entries.   *)
  <2>5. ASSUME NEW o, out' = [out EXCEPT ![c] = o],
               o # Failure => o.of = request[c],
               stage'[c] = "store" => o # Failure, EntriesOwn'
        PROVE  PodInv'
    BY <2>1, <2>2, <2>3, <2>4, <2>5 DEF PodInv, WorkInv, CallsOwn
  <2>7. CASE Prepare(c)
    <3>1. UNCHANGED <<out, items>> /\ stage'[c] # "store"
      BY <2>7 DEF Prepare, Works, cacheVars, WorkInv
    <3> QED BY <2>1, <2>2, <2>3, <2>4, <3>1
            DEF PodInv, WorkInv, CallsOwn, EntriesOwn
  <2>8. CASE Lookup(c)
    <3>1. CASE /\ Works(c, "lookup", "parse")
               /\ C!Touch(request[c])
               /\ out' = [out EXCEPT ![c] = items[request[c]].value]
      <4>1. items' = items /\ request[c] \in DOMAIN items
        BY <3>1 DEF C!Touch, C!Live
      <4>2. stage'[c] = "parse"
        BY <3>1 DEF Works, WorkInv
      <4> QED BY <2>5, <3>1, <4>1, <4>2 DEF EntriesOwn
    <3>2. CASE /\ Works(c, "lookup", "render")
               /\ C!Absent(request[c]) \/ C!Drop(request[c])
               /\ UNCHANGED out
      <4>1. EntriesOwn'
        BY <3>2, DropEntries DEF C!Absent, EntriesOwn
      <4>2. stage'[c] = "render"
        BY <3>2 DEF Works, WorkInv
      <4> QED BY <2>1, <2>2, <2>3, <3>2, <4>1, <4>2
              DEF PodInv, WorkInv, CallsOwn
    <3> QED BY <2>8, <3>1, <3>2 DEF Lookup, renderKey
  <2>9. CASE Render(c)
    <3>1. EntriesOwn'
      BY <2>9 DEF Render, cacheVars, EntriesOwn
    <3>2. CASE out' = [out EXCEPT ![c] = Rendered(request[c])]
      BY <2>3, <2>5, <3>1, <3>2, RenderedIsOutput
    <3>3. CASE Works(c, "render", "done") /\ UNCHANGED out
      <4>1. stage'[c] = "done"
        BY <3>3 DEF Works, WorkInv
      <4> QED BY <2>1, <2>2, <2>3, <3>1, <3>3, <4>1
              DEF PodInv, WorkInv, CallsOwn
    <3> QED BY <2>9, <3>2, <3>3 DEF Render
  <2>10. CASE Store(c)
    <3>1. /\ stage[c] = "store" /\ stage'[c] = "parse"
          /\ out' = out /\ C!Put(request[c], out[c])
      BY <2>10 DEF Store, Works, renderKey, WorkInv
    <3>2. EntriesOwn'
      BY <3>1, PutEntries DEF WorkInv, CallsOwn
    <3> QED BY <2>1, <2>2, <2>3, <3>1, <3>2 DEF PodInv, WorkInv, CallsOwn
  <2>11. CASE Parse(c)
    <3>1. /\ \E o \in {out[c], Failure} : out' = [out EXCEPT ![c] = o]
          /\ stage'[c] = "done" /\ items' = items
      BY <2>11 DEF Parse, Works, cacheVars, WorkInv
    <3> QED BY <2>5, <3>1 DEF CallsOwn, EntriesOwn
  <2> QED BY <1>4, <2>7, <2>8, <2>9, <2>10, <2>11 DEF Work
<1>5. CASE Watchdog
  <2>1. UNCHANGED <<call, request, stage, out, upstream, items>>
    BY <1>5 DEF Watchdog, R!WatchStep, R!Tick, R!Recycle, R!SelectDrained,
       R!SelectTimeout, R!Exit, R!LockerStep, R!AnnounceLock, R!TakeLock,
       R!CloseDrained, R!LockerSteps, R!callVars, cacheVars, workVars
  <2> QED BY <2>1 DEF PodInv, WorkInv, CallsOwn, EntriesOwn
<1>6. CASE PassTime
  <2>1. UNCHANGED <<call, request, stage, out, upstream>>
    BY <1>6 DEF PassTime, R!Age, R!callVars, recyclerVars, workVars
  <2>2. EntriesOwn'
    BY <1>6, GrowEntries DEF PassTime
  <2> QED BY <2>1, <2>2 DEF PodInv, WorkInv, CallsOwn
<1>7. CASE Publish
  <2>1. UNCHANGED <<call, request, stage, out, items>>
    BY <1>7 DEF Publish, recyclerVars, cacheVars, workVars
  <2>2. upstream' \in 0 .. MaxVersion
    BY <1>7, PodAssumption DEF Publish, WorkInv
  <2> QED BY <2>1, <2>2 DEF PodInv, WorkInv, CallsOwn, EntriesOwn
<1>8. CASE Restart
  BY <1>8 DEF Restart, PodInv, WorkInv, CallsOwn, EntriesOwn
<1>9. CASE UNCHANGED vars
  BY <1>9 DEF vars, recyclerVars, cacheVars, workVars, PodInv, WorkInv,
     CallsOwn, EntriesOwn
<1> QED BY <1>1, <1>2, <1>3, <1>4, <1>5, <1>6, <1>7, <1>8, <1>9
        DEF Next, CallStep

(* Every call works for a request, and every output and every entry is of  *)
(* the request it is kept for.                                             *)
THEOREM PodInvariant == Safety => []PodInv
<1> QED BY InitPod, StepPod, PTL DEF Safety

(* No call of any pod is answered with the output of another request,      *)
(* whatever calls miss, render and store at the same time.                 *)
THEOREM AnswersAreOwn == Safety => []AnswersOwnRequest
<1>1. PodInv => AnswersOwnRequest
  BY DEF PodInv, CallsOwn, EntriesOwn, AnswersOwnRequest
<1> QED BY PodInvariant, <1>1, PTL

(* A failed render never gets into the cache: no entry is one, in no state *)
(* of any process.                                                         *)
NoFailureCached == \A k \in DOMAIN items : items[k].value # Failure
THEOREM FailuresAreForgotten == Safety => []NoFailureCached
<1>1. PodInv => NoFailureCached
  BY DEF PodInv, EntriesOwn, NoFailureCached
<1> QED BY PodInvariant, <1>1, PTL

-----------------------------------------------------------------------------
(* The recycler of a pod.  Its steps are steps of Recycler, but for the    *)
(* render that leaks and for the restart, which begins anew.               *)
RP == INSTANCE RecyclerProofs

RecyclerInv == RP!IInv /\ RP!CauseInv /\ rss \in 0 .. MaxRSS

LEMMA RecyclerAssumptions == RP!LimitsAssumption /\ RP!CallsAssumption
<1>1. RP!IsFiniteSet(Calls) = IsFiniteSet(Calls)
  BY DEF RP!IsFiniteSet, IsFiniteSet
<1> QED BY <1>1, RecyclerAssumption
        DEF RP!LimitsAssumption, RP!CallsAssumption

LEMMA InitRecycler == RP!Init => RecyclerInv
<1>1. RP!Init => RP!IInv /\ RP!CauseInv
  BY RP!InitIInv, RP!CauseInitially, RecyclerAssumptions
<1>2. RP!Init => rss \in 0 .. MaxRSS
  <2>1. RP!Init => rss = 0
    BY DEF RP!Init
  <2> QED BY <2>1, RecyclerAssumption
<1> QED BY <1>1, <1>2 DEF RecyclerInv

LEMMA InitRecyclerNext == RP!Init' => RecyclerInv'
  BY InitRecycler, PTL

LEMMA StepRecycler ==
  RP!IInv /\ RP!CauseInv /\ [RP!Next]_(RP!vars) => RP!IInv' /\ RP!CauseInv'
<1>1. RP!IInv /\ [RP!Next]_(RP!vars) => RP!TypeOK'
  BY RP!StepTypeOK, RecyclerAssumptions
<1>2. RP!IInv /\ [RP!Next]_(RP!vars) => RP!GateInv'
  BY RP!StepGateInv, RecyclerAssumptions
<1>3. RP!IInv /\ [RP!Next]_(RP!vars) => RP!CASGuards' /\ RP!SingleDrain'
  BY RP!StepCAS, RecyclerAssumptions
<1>4. RP!TypeOK /\ RP!CauseInv /\ [RP!Next]_(RP!vars) => RP!CauseInv'
  BY RP!StepCause, RecyclerAssumptions
<1> QED BY <1>1, <1>2, <1>3, <1>4 DEF RP!IInv

(* A call of the pod takes the steps of a call of the recycler.            *)
LEMMA PodCall ==
  ASSUME NEW c \in Calls, CallStep(c)
  PROVE  \/ RP!CallStep(c) /\ rss' = rss
         \/ UNCHANGED recyclerVars
         \/ Leak
<1> USE DEF R!Moves, RP!Moves, R!Running, RP!Running, R!gateVars,
            RP!gateVars, R!watchVars, RP!watchVars, R!envVars, RP!envVars
<1>1. CASE Arrive(c)
  <2>1. (RP!BeginAdmit(c) \/ RP!BeginReject(c)) /\ rss' = rss
    BY <1>1 DEF Arrive, R!BeginAdmit, R!BeginReject, RP!BeginAdmit,
       RP!BeginReject, R!CanBegin, RP!CanBegin
  <2> QED BY <2>1 DEF RP!CallStep
<1>2. CASE Enter(c)
  <2>1. (RP!RLock(c) \/ RP!AddInflight(c)) /\ rss' = rss
    BY <1>2 DEF Enter, R!RLock, R!AddInflight, RP!RLock, RP!AddInflight
  <2> QED BY <2>1 DEF RP!CallStep
<1>3. CASE StartWork(c)
  <2>1. RP!AddCount(c) /\ rss' = rss
    BY <1>3 DEF StartWork, R!AddCount, RP!AddCount
  <2> QED BY <2>1 DEF RP!CallStep
<1>4. CASE Finish(c)
  <2>1. RP!SubInflight(c) /\ rss' = rss
    BY <1>4 DEF Finish, R!SubInflight, RP!SubInflight
  <2> QED BY <2>1 DEF RP!CallStep
<1>5. CASE Leave(c)
  <2>1. RP!RUnlock(c) /\ rss' = rss
    BY <1>5 DEF Leave, R!RUnlock, RP!RUnlock
  <2> QED BY <2>1 DEF RP!CallStep
<1>6. CASE Reply(c)
  <2>1. RP!Answer(c) /\ rss' = rss
    BY <1>6 DEF Reply, R!Answer, RP!Answer
  <2> QED BY <2>1 DEF RP!CallStep
<1>7. CASE Work(c)
  BY <1>7 DEF Work, Prepare, Lookup, Render, Store, Parse
<1> QED BY <1>1, <1>2, <1>3, <1>4, <1>5, <1>6, <1>7 DEF CallStep

LEMMA PodWatchdog ==
  ASSUME Watchdog
  PROVE  RP!Next /\ rss' = rss
<1> USE DEF R!Steps, RP!Steps, R!Running, RP!Running, R!gateVars,
            RP!gateVars, R!callVars, RP!callVars, R!envVars, RP!envVars,
            R!watchVars, RP!watchVars
<1>1. CASE \E w \in Watchers : R!WatchStep(w)
  <2>1. PICK w \in Watchers : R!WatchStep(w)
    BY <1>1
  <2>2. CASE R!Tick(w)
    <3>0. R!ShouldRecycle = RP!ShouldRecycle /\ R!NoReason = RP!NoReason
      BY DEF R!ShouldRecycle, RP!ShouldRecycle, R!NoReason, RP!NoReason,
         R!OverCount, RP!OverCount, R!OverLifetime, RP!OverLifetime,
         R!OverRSS, RP!OverRSS, R!ForCount, RP!ForCount, R!ForLifetime,
         RP!ForLifetime, R!ForRSS, RP!ForRSS
    <3>1. RP!Tick(w) /\ rss' = rss
      BY <2>2, <3>0 DEF R!Tick, RP!Tick
    <3> QED BY <3>1 DEF RP!Next, RP!WatchStep
  <2>3. CASE R!Recycle(w) \/ R!SelectDrained(w) \/ R!SelectTimeout(w)
             \/ R!Exit(w)
    <3>1. /\ rss' = rss
          /\ \/ RP!Recycle(w) \/ RP!SelectDrained(w) \/ RP!SelectTimeout(w)
             \/ RP!Exit(w)
      BY <2>3 DEF R!Recycle, RP!Recycle, R!SelectDrained, RP!SelectDrained,
         R!SelectTimeout, RP!SelectTimeout, R!Exit, RP!Exit
    <3> QED BY <3>1 DEF RP!Next, RP!WatchStep
  <2> QED BY <2>1, <2>2, <2>3 DEF R!WatchStep
<1>2. CASE R!LockerStep
  <2>1. RP!LockerStep /\ rss' = rss
    BY <1>2 DEF R!LockerStep, RP!LockerStep, R!AnnounceLock, RP!AnnounceLock,
       R!TakeLock, RP!TakeLock, R!CloseDrained, RP!CloseDrained,
       R!LockerSteps, RP!LockerSteps
  <2> QED BY <2>1 DEF RP!Next
<1> QED BY <1>1, <1>2 DEF Watchdog

(* A leak moves rss and nothing that the gate depends on.                  *)
LEMMA LeakKeeps ==
  ASSUME RecyclerInv, Leak
  PROVE  RecyclerInv'
<1>1. rss' \in 0 .. MaxRSS
  BY RecyclerAssumption DEF RecyclerInv, Leak
<1>2. RP!TypeOK'
  BY <1>1 DEF RecyclerInv, RP!IInv, RP!TypeOK, RP!RSSReadings, Leak
<1>3. RP!GateInv' /\ RP!CASGuards' /\ RP!SingleDrain'
  BY DEF RecyclerInv, RP!IInv, RP!GateInv, RP!HoldersExact, RP!OwnerAlone,
     RP!DrainedMeansClosed, RP!InflightExact, RP!CountedCalls, RP!CASGuards,
     RP!SingleDrain, RP!Draining, Leak
<1>4. RP!CauseInv'
  BY DEF RecyclerInv, RP!CauseInv, RP!Crossed, RP!Cause, RP!Over, Leak
<1> QED BY <1>1, <1>2, <1>3, <1>4 DEF RecyclerInv, RP!IInv

LEMMA PodRecycler == RecyclerInv /\ [Next]_vars => RecyclerInv'
<1> SUFFICES ASSUME RecyclerInv, [Next]_vars PROVE RecyclerInv'
  OBVIOUS
<1>1. RP!Next /\ rss' = rss => RecyclerInv'
  BY StepRecycler DEF RecyclerInv
<1>2. UNCHANGED recyclerVars => RecyclerInv'
  <2> SUFFICES ASSUME UNCHANGED recyclerVars PROVE RecyclerInv'
    OBVIOUS
  <2>1. UNCHANGED RP!vars /\ rss' = rss
    BY DEF recyclerVars, RP!vars, RP!gateVars, RP!callVars, RP!watchVars,
       RP!envVars
  <2> QED BY <2>1, StepRecycler DEF RecyclerInv
<1>3. ASSUME NEW c \in Calls, CallStep(c) PROVE RecyclerInv'
  <2>1. RP!CallStep(c) => RP!Next
    BY DEF RP!Next
  <2> QED BY <1>1, <1>2, <1>3, <2>1, PodCall, LeakKeeps
<1>4. CASE Watchdog
  BY <1>1, <1>4, PodWatchdog
<1>5. CASE PassTime
  <2>1. CASE R!Age
    <3>1. RP!Age /\ rss' = rss
      BY <2>1 DEF R!Age, RP!Age, R!Running, RP!Running, R!gateVars,
         RP!gateVars, R!callVars, RP!callVars, R!watchVars, RP!watchVars
    <3> QED BY <1>1, <3>1 DEF RP!Next
  <2> QED BY <1>2, <1>5, <2>1 DEF PassTime
<1>6. CASE Publish \/ UNCHANGED vars
  BY <1>2, <1>6 DEF Publish, vars
<1>7. CASE Restart
  <2>1. RP!Init'
    BY <1>7 DEF Restart, RP!Init, R!Enabled, RP!Enabled, R!NoReason,
       RP!NoReason
  <2> QED BY <2>1, InitRecyclerNext
<1> QED BY <1>3, <1>4, <1>5, <1>6, <1>7 DEF Next

(* The invariants proved of the recycler hold in a pod through leaks and   *)
(* restarts.                                                               *)
THEOREM RecyclerInPod == Safety => []RecyclerInv
<1>1. Init => RP!Init
  BY DEF Init, R!Init, RP!Init, R!Enabled, RP!Enabled, R!NoReason,
     RP!NoReason
<1> QED BY <1>1, InitRecycler, PodRecycler, PTL DEF Safety

(* No process of a pod drains but for a reading that reached a limit which *)
(* is on, whatever leaks meanwhile.                                        *)
THEOREM PodRecyclesForCause == Safety => []RecycleHasCause
<1>1. R!RecycleHasCause = RP!RecycleHasCause
  BY DEF R!RecycleHasCause, RP!RecycleHasCause
<1>2. RecyclerInv => RecycleHasCause
  BY <1>1, RP!CauseIsGiven, RecyclerAssumptions
  DEF RecyclerInv, RP!IInv, RecycleHasCause
<1> QED BY RecyclerInPod, <1>2, PTL

(* A drain that is not cut short lets every call that entered the gate     *)
(* finish its lookup, render, store and parse.                             *)
THEOREM DrainsFinishWork == Safety => []DrainFinishesWork
<1>1. PodInv /\ RecyclerInv => DrainFinishesWork
  <2> SUFFICES ASSUME PodInv, RecyclerInv, exit = "drained",
                      NEW c \in Calls, stage[c] # "none"
               PROVE  stage[c] = "done"
    BY DEF DrainFinishesWork
  <2>1. call[c] # "rendering"
    BY DEF RecyclerInv, RP!IInv, RP!GateInv, RP!HoldersExact,
       RP!OwnerAlone, RP!DrainedMeansClosed, RP!Holding
  <2> QED BY <2>1 DEF PodInv, WorkInv
<1> QED BY PodInvariant, RecyclerInPod, <1>1, PTL

-----------------------------------------------------------------------------
(* The cache of a pod.  What it holds are outputs of requests, so that the *)
(* lemmas about the list and the map apply.                                *)
CP == INSTANCE RenderCacheProofs WITH
        Keys <- Requests, Values <- Outputs \cup {Failure},
        NoValue <- NoRequest, reply <- NoRequest

WorkTypes ==
  /\ request \in [Calls -> Requests \cup {NoRequest}]
  /\ stage \in [Calls -> Stages]
  /\ out \in [Calls -> Outputs \cup {Failure}]
  /\ asked \in [Calls -> 0 .. MaxVersion]
  /\ cacheOn \in BOOLEAN

CacheInv == CP!CInv /\ WorkTypes

LEMMA CacheAssumptions == CP!CacheAssumption
<1>1. NoRequest \notin Outputs
  BY DEF NoRequest, Outputs
<1> QED BY <1>1, PodAssumption, FailureAssumption DEF CP!CacheAssumption

LEMMA SameCache ==
  /\ \A k : C!Without(k) = CP!Without(k)
  /\ \A k : C!MoveToFront(k) = CP!MoveToFront(k)
  /\ \A k : C!Expired(k) = CP!Expired(k)
  /\ \A k, v : C!Insert(k, v) = CP!Insert(k, v)
  /\ C!ListMatchesMap = CP!ListMatchesMap
  /\ C!Entry = CP!Entry
<1>1. \A s, i : C!RemoveAt(s, i) = CP!RemoveAt(s, i)
  BY DEF C!RemoveAt, CP!RemoveAt
<1>2. \A k : C!Without(k) = CP!Without(k)
  BY <1>1 DEF C!Without, CP!Without
<1>3. \A k : C!MoveToFront(k) = CP!MoveToFront(k)
  BY <1>2 DEF C!MoveToFront, CP!MoveToFront
<1>4. \A k : C!Expired(k) = CP!Expired(k)
  BY DEF C!Expired, CP!Expired
<1>5. \A k, v : C!Insert(k, v) = CP!Insert(k, v)
  BY DEF C!Insert, CP!Insert, C!Over, CP!Over, C!Fresh, CP!Fresh
<1>6. C!ListMatchesMap = CP!ListMatchesMap
  BY DEF C!ListMatchesMap, CP!ListMatchesMap, C!ToSet, CP!ToSet
<1>7. C!Entry = CP!Entry
  BY DEF C!Entry, CP!Entry
<1> QED BY <1>2, <1>3, <1>4, <1>5, <1>6, <1>7

LEMMA CacheFromList == CP!ListInv => CP!CInv
  BY DEF CP!ListInv, CP!CInv, CP!TypeOK

(* An empty cache, at the start of the pod and after each restart.         *)
LEMMA EmptyCache == ll = <<>> /\ DOMAIN items = {} => CP!CInv
<1>1. CP!ToSet(<<>>) = {} /\ DOMAIN <<>> = {} /\ Len(<<>>) = 0
  BY DEF CP!ToSet
<1> QED BY <1>1, PodAssumption DEF CP!CInv, CP!TypeOK, CP!ListMatchesMap

LEMMA EmptyCacheNext == ll' = <<>> /\ DOMAIN items' = {} => CP!CInv'
<1>1. CP!ToSet(<<>>) = {} /\ DOMAIN <<>> = {} /\ Len(<<>>) = 0
  BY DEF CP!ToSet
<1> QED BY <1>1, PodAssumption DEF CP!CInv, CP!TypeOK, CP!ListMatchesMap

LEMMA InitCache == Init => CacheInv
<1> SUFFICES ASSUME Init PROVE CacheInv
  OBVIOUS
<1>1. CP!CInv
  BY EmptyCache DEF Init
<1>2. WorkTypes
  BY PodAssumption DEF Init, WorkTypes, Stages
<1> QED BY <1>1, <1>2 DEF CacheInv

(* What the two operations of the cache and the clock do to it.            *)
LEMMA PodLookup ==
  ASSUME CP!CInv, NEW k \in Requests, C!Touch(k) \/ C!Drop(k) \/ C!Absent(k)
  PROVE  CP!CInv'
<1>1. C!Touch(k) => CP!Touch(k)
  BY SameCache DEF C!Touch, CP!Touch, C!Live, CP!Live
<1>2. C!Drop(k) => CP!Drop(k)
  BY SameCache DEF C!Drop, CP!Drop
<1>3. C!Absent(k) => CP!CInv'
  BY DEF C!Absent, CP!CInv, CP!TypeOK, CP!ListMatchesMap
<1>4. CP!ListInv' => CP!CInv'
  BY CacheFromList, PTL
<1> QED BY <1>1, <1>2, <1>3, <1>4, CP!TouchListInv, CP!DropListInv,
           CacheAssumptions

LEMMA PodStore ==
  ASSUME CP!CInv, NEW k \in Requests, NEW v \in Outputs \cup {Failure},
         C!Put(k, v)
  PROVE  CP!CInv'
<1>1. C!Overwrite(k, v) => CP!Overwrite(k, v)
  BY SameCache DEF C!Overwrite, CP!Overwrite, C!Fresh, CP!Fresh
<1>2. C!Insert(k, v) => CP!Insert(k, v)
  BY SameCache
<1>3. CP!ListInv' => CP!CInv'
  BY CacheFromList, PTL
<1> QED BY <1>1, <1>2, <1>3, CP!OverwriteListInv, CP!InsertListInv,
           CacheAssumptions DEF C!Put

LEMMA PodGrow ==
  ASSUME CP!CInv, C!Grow
  PROVE  CP!CInv'
<1>1. CP!Grow
  BY DEF C!Grow, CP!Grow
<1>2. CP!ListInv' => CP!CInv'
  BY CacheFromList, PTL
<1> QED BY <1>1, <1>2, CP!GrowListInv, CacheAssumptions

LEMMA PodCache == PodInv /\ CacheInv /\ [Next]_vars => CacheInv'
<1> SUFFICES ASSUME PodInv, CacheInv, [Next]_vars PROVE CacheInv'
  OBVIOUS
<1>0. CP!CInv /\ WorkTypes
  BY DEF CacheInv
<1>1. UNCHANGED <<ll, items>> => CP!CInv'
  BY <1>0 DEF CP!CInv, CP!TypeOK, CP!ListMatchesMap
<1>2. UNCHANGED workVars /\ cacheOn' = cacheOn => WorkTypes'
  BY <1>0 DEF workVars, WorkTypes
<1>3. ASSUME NEW c \in Calls, CallStep(c), ~Work(c) PROVE CacheInv'
  <2>1. UNCHANGED cacheVars
    BY <1>3 DEF CallStep, Arrive, Enter, StartWork, Finish, Leave, Reply
  <2>2. /\ request' = request \/ \E r \in Requests \cup {NoRequest} :
                                    request' = [request EXCEPT ![c] = r]
        /\ stage' = stage \/ \E s \in Stages : stage' = [stage EXCEPT ![c] = s]
        /\ out' = out \/ out' = [out EXCEPT ![c] = Failure]
        /\ asked' = asked \/ \E n \in 0 .. MaxVersion :
                                asked' = [asked EXCEPT ![c] = n]
    <3>1. upstream \in 0 .. MaxVersion /\ 0 \in 0 .. MaxVersion
      BY PodAssumption DEF PodInv, WorkInv
    <3>2. "prepare" \in Stages /\ "none" \in Stages
      BY DEF Stages
    <3> QED BY <1>3, <3>1, <3>2 DEF CallStep, Arrive, Enter, StartWork,
            Finish, Leave, Reply, workVars
  <2>3. WorkTypes'
    BY <1>0, <2>1, <2>2 DEF WorkTypes, cacheVars
  <2> QED BY <1>1, <2>1, <2>3 DEF CacheInv, cacheVars
<1>4. ASSUME NEW c \in Calls, Work(c) PROVE CacheInv'
  <2>1. UNCHANGED <<request, asked, cacheOn>>
    BY <1>4 DEF Work, Prepare, Lookup, Render, Store, Parse, cacheVars
  <2>2. \E s \in Stages : stage' = [stage EXCEPT ![c] = s]
    <3>1. {"lookup", "render", "store", "parse", "done"} \subseteq Stages
      BY DEF Stages
    <3> QED BY <1>4, <3>1
            DEF Work, Prepare, Lookup, Render, Store, Parse, Works
  <2>3. request[c] \in Requests
    BY <1>4 DEF Work, Prepare, Lookup, Render, Store, Parse, Works, PodInv,
       WorkInv
  <2>4. \E o \in Outputs \cup {Failure} :
          out' = [out EXCEPT ![c] = o] \/ out' = out
    <3>1. out[c] \in Outputs \cup {Failure}
      BY <1>0 DEF WorkTypes
    <3>2. CASE Lookup(c)
      <4>1. \A k \in DOMAIN items : items[k].value \in Outputs \cup {Failure}
        BY <1>0 DEF CP!CInv, CP!TypeOK, CP!Entry
      <4> QED BY <3>2, <4>1 DEF Lookup, renderKey, C!Touch, C!Live
    <3>3. CASE Render(c)
      <4>1. Rendered(request[c]) \in Outputs
        <5>1. upstream \in 0 .. MaxVersion /\ 0 \in 0 .. MaxVersion
          BY PodAssumption DEF PodInv, WorkInv
        <5> QED BY <2>3, <5>1 DEF Rendered, Outputs
      <4> QED BY <3>3, <4>1 DEF Render
    <3>4. CASE Parse(c)
      BY <3>1, <3>4 DEF Parse
    <3>5. CASE Prepare(c) \/ Store(c)
      BY <3>5 DEF Prepare, Store
    <3> QED BY <1>4, <3>2, <3>3, <3>4, <3>5 DEF Work
  <2>5. WorkTypes'
    BY <1>0, <2>1, <2>2, <2>4 DEF WorkTypes
  <2>6. CASE Lookup(c)
    BY <1>0, <2>3, <2>5, <2>6, PodLookup DEF Lookup, renderKey, CacheInv
  <2>7. CASE Store(c)
    <3>1. out[c] \in Outputs \cup {Failure}
      BY <1>0 DEF WorkTypes
    <3> QED BY <1>0, <2>3, <2>5, <2>7, <3>1, PodStore
            DEF Store, renderKey, CacheInv
  <2>8. CASE Prepare(c) \/ Render(c) \/ Parse(c)
    BY <1>1, <2>5, <2>8 DEF Prepare, Render, Parse, cacheVars, CacheInv
  <2> QED BY <1>4, <2>6, <2>7, <2>8 DEF Work
<1>5. CASE Watchdog \/ Publish \/ UNCHANGED vars
  BY <1>1, <1>2, <1>5 DEF Watchdog, Publish, vars, cacheVars, CacheInv
<1>6. CASE PassTime
  BY <1>0, <1>2, <1>6, PodGrow DEF PassTime, CacheInv
<1>7. CASE Restart
  <2>1. WorkTypes'
    <3>1. 0 \in 0 .. MaxVersion /\ "none" \in Stages
      BY PodAssumption DEF Stages
    <3>2. /\ request' = [c \in Calls |-> NoRequest]
          /\ stage' = [c \in Calls |-> "none"]
          /\ out' = [c \in Calls |-> Failure]
          /\ asked' = [c \in Calls |-> 0]
          /\ cacheOn' = cacheOn
      BY <1>7 DEF Restart
    <3> QED BY <1>0, <3>1, <3>2 DEF WorkTypes
  <2>2. CP!CInv'
    BY <1>7, EmptyCacheNext DEF Restart
  <2> QED BY <2>1, <2>2 DEF CacheInv
<1> QED BY <1>3, <1>4, <1>5, <1>6, <1>7 DEF Next

(* List and map of the cache agree in a pod too, for concurrent lookups    *)
(* and stores in any order, and every variable of the pod keeps its type.  *)
THEOREM PodTypeCorrect == Safety => []TypeOK
<1>1. PodInv /\ RecyclerInv /\ CacheInv => TypeOK
  <2> SUFFICES ASSUME PodInv, RecyclerInv, CacheInv PROVE TypeOK
    OBVIOUS
  <2>1. R!TypeOK
    BY DEF RecyclerInv, RP!IInv, RP!TypeOK, R!TypeOK, R!RSSReadings,
       RP!RSSReadings, R!LockerStates, RP!LockerStates, R!CallStates,
       RP!CallStates, R!WatchStates, RP!WatchStates, R!Reasons, RP!Reasons
  <2>2. C!ListMatchesMap /\ \A k \in DOMAIN items : items[k] \in C!Entry
    BY SameCache DEF CacheInv, CP!CInv, CP!TypeOK
  <2> QED BY <2>1, <2>2 DEF TypeOK, CacheInv, WorkTypes, PodInv, WorkInv
<1>2. Safety => []CacheInv
  BY InitCache, PodCache, PodInvariant, PTL DEF Safety
<1> QED BY PodInvariant, RecyclerInPod, <1>1, <1>2, PTL

-----------------------------------------------------------------------------
(* The cache of a pod as a memo.                                           *)

LEMMA SameMemo ==
  /\ \A k, v : CP!M!Put(k, v) => C!M!Put(k, v)
  /\ \A k : CP!M!Miss(k) => C!M!Miss(k)
  /\ CP!M!Age => C!M!Age
<1>1. \A S : CP!M!Cardinality(S) = C!M!Cardinality(S)
  BY DEF CP!M!Cardinality, C!M!Cardinality
<1>2. CP!M!Known = C!M!Known
  BY DEF CP!M!Known, C!M!Known
<1>3. \A k, v : CP!M!Put(k, v) => C!M!Put(k, v)
  BY <1>1, <1>2 DEF CP!M!Put, C!M!Put
<1>4. \A k : CP!M!Miss(k) => C!M!Miss(k)
  BY <1>2 DEF CP!M!Miss, C!M!Miss, CP!M!Expired, C!M!Expired, CP!M!Keep,
              C!M!Keep
<1>5. CP!M!Age => C!M!Age
  BY <1>2 DEF CP!M!Age, C!M!Age
<1> QED BY <1>3, <1>4, <1>5

LEMMA StoreIsPut ==
  ASSUME CP!CInv, NEW k \in Requests, NEW v \in Outputs \cup {Failure},
         C!Put(k, v)
  PROVE  C!M!Put(k, v)
<1>1. C!Overwrite(k, v) => CP!Overwrite(k, v)
  BY SameCache DEF C!Overwrite, CP!Overwrite, C!Fresh, CP!Fresh
<1>2. C!Insert(k, v) => CP!Insert(k, v)
  BY SameCache
<1>3. UNCHANGED NoRequest
  BY DEF NoRequest
<1>4. CP!M!Put(k, v)
  BY <1>1, <1>2, <1>3, CP!OverwriteIsPut, CP!InsertIsPut, CacheAssumptions
     DEF C!Put
<1> QED BY <1>4, SameMemo

LEMMA LookupIsMiss ==
  ASSUME NEW k \in Requests, C!Touch(k) \/ C!Drop(k) \/ C!Absent(k)
  PROVE  UNCHANGED items \/ C!M!Miss(k)
<1>1. C!Drop(k) => C!M!Miss(k)
  BY DEF C!Drop, C!Expired, C!M!Miss, C!M!Known, C!M!Expired, C!M!Keep,
         NoRequest
<1> QED BY <1>1 DEF C!Touch, C!Absent

LEMMA StepRemembers == PodInv /\ CacheInv /\ [Next]_vars => [MemoStep]_items
<1> SUFFICES ASSUME PodInv, CacheInv, [Next]_vars PROVE [MemoStep]_items
  OBVIOUS
<1>1. ASSUME NEW c \in Calls, CallStep(c), ~Work(c) PROVE [MemoStep]_items
  <2>1. UNCHANGED cacheVars
    BY <1>1 DEF CallStep, Arrive, Enter, StartWork, Finish, Leave, Reply
  <2> QED BY <2>1 DEF cacheVars
<1>2. ASSUME NEW c \in Calls, Work(c) PROVE [MemoStep]_items
  <2>1. request[c] \in Requests
    BY <1>2 DEF Work, Prepare, Lookup, Render, Store, Parse, Works, PodInv,
       WorkInv
  <2>2. CASE Lookup(c)
    <3>1. UNCHANGED items \/ C!M!Miss(request[c])
      BY <2>1, <2>2, LookupIsMiss DEF Lookup, renderKey
    <3> QED BY <2>1, <3>1 DEF MemoStep
  <2>3. CASE Store(c)
    <3>1. stage[c] = "store" /\ C!Put(request[c], out[c])
      BY <2>3 DEF Store, Works, renderKey
    <3>2. out[c] \in Outputs \cup {Failure}
      BY DEF CacheInv, WorkTypes
    <3>3. C!M!Put(request[c], out[c])
      BY <2>1, <3>1, <3>2, StoreIsPut DEF CacheInv
    <3>4. out[c] # Failure
      BY <3>1 DEF PodInv, WorkInv
    <3> QED BY <3>1, <3>3, <3>4 DEF Remember, MemoStep
  <2>4. CASE Prepare(c) \/ Render(c) \/ Parse(c)
    BY <2>4 DEF Prepare, Render, Parse, cacheVars
  <2> QED BY <1>2, <2>2, <2>3, <2>4 DEF Work
<1>3. CASE Watchdog \/ Publish \/ UNCHANGED vars
  BY <1>3 DEF Watchdog, Publish, vars, cacheVars
<1>4. CASE PassTime
  <2>1. C!M!Age
    BY <1>4 DEF PassTime, C!Grow, C!M!Age, C!M!Known, NoRequest
  <2> QED BY <2>1 DEF MemoStep
<1>5. CASE Restart
  BY <1>5 DEF MemoStep
<1> QED BY <1>1, <1>2, <1>3, <1>4, <1>5 DEF Next

(* With any number of calls that look up, render and store at once an      *)
(* output enters the cache only by the store of the call that rendered it, *)
(* and leaves it by age, for room or with its process.                     *)
THEOREM PodRemembers == Safety => CacheRemembers
<1>1. Safety => []CacheInv
  BY InitCache, PodCache, PodInvariant, PTL DEF Safety
<1> QED BY PodInvariant, <1>1, StepRemembers, PTL DEF Safety, CacheRemembers

=============================================================================
