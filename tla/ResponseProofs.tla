--------------------------- MODULE ResponseProofs ---------------------------
(***************************************************************************)
(* Theorems about Response, for every set of requests and outputs: a call  *)
(* that ends early says so with one Fatal result, and one that ends well   *)
(* hands over what ProcessResources computed.                              *)
(***************************************************************************)
EXTENDS Response, ProcessProofs

(* Steps of ProcessResources are the only ones that change its variables.  *)
LEMMA ProcessOrStutter ==
  [RNext]_rvars => [Next]_vars
BY DEF RNext, rvars, Process, Render, ProcessFails, SetRequirements,
       SetCondition, ConditionsSetAll, SetEvent, EventsSetAll, SetContext,
       SetXR, SetComposed

-----------------------------------------------------------------------------
(* The response: what each step does to its results and its desired state. *)
ResponseFields ==
  {"results", "conditions", "extra", "required", "desired", "xr", "connection",
   "context"}
Early == {"render", "process", "conditions", "events", "context", "xr"}
Open == Early \cup {"composed"}
Added(r, t) == r.results = Append(rsp.results, t)
KeepsState(r) ==
  r.desired = rsp.desired /\ r.xr = rsp.xr /\ r.connection = rsp.connection

(* A step that goes on, one that adds an event, and an early return.       *)
GoesOn ==
  /\ rsp'.results = rsp.results
  /\ at' \in Open \cup {"complete"}
  /\ at' \in Early => at \in Early /\ KeepsState(rsp')
AddsEvent ==
  /\ \E t \in EventTypes : Added(rsp', t)
  /\ at' = at
  /\ KeepsState(rsp')
EndsEarly ==
  /\ at' = "failed"
  /\ Added(rsp', "Fatal")
  /\ at \notin {"xr", "composed"} => KeepsState(rsp')

LEMMA FatalWrites ==
  ASSUME NEW r, DOMAIN r = ResponseFields, ReturnFatal(r), r.results = rsp.results
  PROVE  /\ at' = "failed" /\ Added(rsp', "Fatal") /\ DOMAIN rsp' = ResponseFields
         /\ rsp'.desired = r.desired /\ rsp'.xr = r.xr
         /\ rsp'.connection = r.connection
BY DEF ReturnFatal, Fatal, Added, ResponseFields

LEMMA ResponseWrites ==
  ASSUME DOMAIN rsp = ResponseFields, [RNext]_rvars
  PROVE  /\ DOMAIN rsp' = ResponseFields
         /\ \/ Process
            \/ UNCHANGED rvars
            \/ /\ UNCHANGED vars
               /\ at \in Open /\ (GoesOn \/ AddsEvent \/ EndsEarly)
<1> USE DEF Open, Early
<1>0. Process \/ UNCHANGED vars
  BY DEF RNext, rvars, Render, ProcessFails, SetRequirements, SetCondition,
     ConditionsSetAll, SetEvent, EventsSetAll, SetContext, SetXR, SetComposed
<1>1. CASE Render
  BY <1>1, FatalWrites DEF Render, Goes, GoesOn, EndsEarly, KeepsState
<1>2. CASE Process
  BY <1>2 DEF Process
<1>3. CASE ProcessFails
  BY <1>3, FatalWrites DEF ProcessFails, EndsEarly, KeepsState
<1>4. CASE SetRequirements
  <2>1. /\ DOMAIN rsp' = ResponseFields
        /\ rsp'.results = rsp.results /\ KeepsState(rsp')
    BY <1>4 DEF SetRequirements, KeepsState, ResponseFields
  <2> QED BY <1>4, <2>1 DEF SetRequirements, Goes, GoesOn
<1>5. CASE SetCondition
  <2>1. CASE Condition.type \in Reserved
    BY <1>5, <2>1, FatalWrites
       DEF SetCondition, HasCondition, EndsEarly, KeepsState
  <2>2. CASE Condition.type \notin Reserved
    BY <1>5, <2>2 DEF SetCondition, HasCondition, GoesOn, KeepsState, ResponseFields
  <2> QED BY <2>1, <2>2
<1>6. CASE ConditionsSetAll
  BY <1>6 DEF ConditionsSetAll, Goes, GoesOn, KeepsState
<1>7. CASE SetEvent
  <2>1. CASE TypeOf(Event) \notin EventTypes
    BY <1>7, <2>1, FatalWrites DEF SetEvent, EndsEarly, KeepsState
  <2>2. CASE TypeOf(Event) \in EventTypes
    <3>1. /\ at = "events" /\ at' = at
          /\ rsp' = [rsp EXCEPT !.results = Append(@, TypeOf(Event))]
      BY <1>7, <2>2 DEF SetEvent
    <3>2. DOMAIN rsp' = ResponseFields /\ Added(rsp', TypeOf(Event)) /\ KeepsState(rsp')
      BY <3>1 DEF Added, KeepsState, ResponseFields
    <3> QED BY <1>0, <2>2, <3>1, <3>2 DEF AddsEvent
  <2> QED BY <2>1, <2>2
<1>8. CASE EventsSetAll
  BY <1>8 DEF EventsSetAll, Goes, GoesOn, KeepsState
<1>9. CASE SetContext
  <2>1. CASE /\ Goes("context", "xr")
             /\ rsp' = [rsp EXCEPT !.context = IF context = Nothing THEN @
                                        ELSE Graft(context, request.context)]
    BY <1>0, <2>1 DEF Goes, GoesOn, KeepsState, ResponseFields
  <2>2. ASSUME at = "context", NEW c,
               ReturnFatal([rsp EXCEPT !.context = Graft(c, @)])
        PROVE  DOMAIN rsp' = ResponseFields /\ EndsEarly
    <3> DEFINE r == [rsp EXCEPT !.context = Graft(c, @)]
    <3>1. DOMAIN r = ResponseFields /\ r.results = rsp.results /\ KeepsState(r)
      BY DEF KeepsState, ResponseFields
    <3> HIDE DEF r
    <3> QED BY <2>2, <3>1, FatalWrites DEF EndsEarly, KeepsState, r
  <2> QED BY <1>9, <2>1, <2>2 DEF SetContext
<1>10. CASE SetXR
  <2>1. CASE /\ Goes("xr", "composed")
             /\ rsp' = [rsp EXCEPT !.xr = dxr, !.connection = connection]
    BY <1>0, <2>1 DEF Goes, GoesOn, ResponseFields
  <2>2. CASE at = "xr" /\ ReturnFatal(rsp)
    BY <1>0, <2>2, FatalWrites DEF EndsEarly
  <2> QED BY <1>10, <2>1, <2>2 DEF SetXR
<1>11. CASE SetComposed
  <2>1. CASE /\ Goes("composed", "complete")
             /\ rsp' = [rsp EXCEPT !.desired = Onto(desired, @)]
    BY <1>0, <2>1 DEF Goes, GoesOn, ResponseFields
  <2>2. ASSUME at = "composed", NEW S,
               ReturnFatal([rsp EXCEPT !.desired =
                                         Onto(Restrict(desired, S), @)])
        PROVE  DOMAIN rsp' = ResponseFields /\ EndsEarly
    <3> DEFINE r == [rsp EXCEPT !.desired = Onto(Restrict(desired, S), @)]
    <3>1. DOMAIN r = ResponseFields /\ r.results = rsp.results
      BY DEF ResponseFields
    <3> HIDE DEF r
    <3> QED BY <2>2, <3>1, FatalWrites DEF EndsEarly, r
  <2> QED BY <1>11, <2>1, <2>2 DEF SetComposed
<1>12. CASE UNCHANGED rvars
  BY <1>12 DEF rvars
<1> QED BY <1>0, <1>1, <1>2, <1>3, <1>4, <1>5, <1>6, <1>7, <1>8, <1>9, <1>10, <1>11,
           <1>12 DEF RNext

(* The results end with a Fatal one just when the call failed; until the   *)
(* desired state is written the response holds the request's, but for the  *)
(* connection details it shares with dxr.                                  *)
ResponseInv ==
  /\ DOMAIN rsp = ResponseFields
  /\ at \in Open \cup {"complete", "failed"}
  /\ rsp.results \in Seq(EventTypes \cup {"Fatal"})
  /\ EarlyReturnsAreFatal
  /\ at \in Early =>
       /\ rsp.desired = request.desired /\ rsp.xr = request.xr
       /\ rsp.connection = IF Shared THEN connection ELSE Nothing

LEMMA ResponseInitially == RInit => ResponseInv
BY DEF RInit, Init, To, ResponseInv, EarlyReturnsAreFatal, ResponseFields,
       Open, Early, Shared

LEMMA AppendFatal ==
  ASSUME NEW s \in Seq(EventTypes \cup {"Fatal"}),
         NEW t \in EventTypes \cup {"Fatal"}
  PROVE  LET fatal(r) == {i \in DOMAIN r : r[i] = "Fatal"}
             r == Append(s, t)
         IN /\ r \in Seq(EventTypes \cup {"Fatal"})
            /\ t # "Fatal" => fatal(r) = fatal(s)
            /\ t = "Fatal" => fatal(r) = fatal(s) \cup {Len(r)}
OBVIOUS

LEMMA ResponseStep == ResponseInv /\ [RNext]_rvars => ResponseInv'
<1> SUFFICES ASSUME ResponseInv, [RNext]_rvars PROVE ResponseInv'
  OBVIOUS
<1> DEFINE fatal(r) == {i \in DOMAIN r : r[i] = "Fatal"}
<1>1. request' = request /\ (Shared' <=> Shared)
  BY ProcessOrStutter, RequestStays DEF Shared
<1>2. DOMAIN rsp = ResponseFields /\ DOMAIN rsp' = ResponseFields
  BY ResponseWrites DEF ResponseInv
<1>3. /\ rsp.results \in Seq(EventTypes \cup {"Fatal"})
      /\ fatal(rsp.results) = IF at = "failed" THEN {Len(rsp.results)} ELSE {}
  BY DEF ResponseInv, EarlyReturnsAreFatal
<1>4. CASE UNCHANGED rvars
  BY <1>1, <1>4 DEF ResponseInv, EarlyReturnsAreFatal, rvars, vars, metaVars
<1>8. CASE Process
  <2>1. /\ at = "process" /\ at' = at
        /\ rsp' = IF Shared THEN [rsp EXCEPT !.connection = connection'] ELSE rsp
    BY <1>8 DEF Process
  <2>2. /\ rsp'.results = rsp.results
        /\ rsp'.desired = rsp.desired /\ rsp'.xr = rsp.xr
        /\ rsp'.connection = IF Shared THEN connection' ELSE rsp.connection
    BY <1>2, <2>1 DEF ResponseFields
  <2> QED
    BY <1>1, <1>2, <2>1, <2>2 DEF ResponseInv, EarlyReturnsAreFatal, Early
<1>5. CASE UNCHANGED vars /\ at \in Open /\ GoesOn
  <2>1. EarlyReturnsAreFatal'
    BY <1>3, <1>5 DEF GoesOn, EarlyReturnsAreFatal, Open, Early
  <2> QED BY <1>1, <1>2, <1>3, <1>5, <2>1
          DEF GoesOn, ResponseInv, KeepsState, vars, metaVars
<1>6. CASE UNCHANGED vars /\ at \in Open /\ AddsEvent
  <2>1. PICK t \in EventTypes : Added(rsp', t)
    BY <1>6 DEF AddsEvent
  <2>2. t # "Fatal" /\ at # "failed"
    BY <1>6 DEF EventTypes, Open, Early
  <2>3. /\ rsp'.results \in Seq(EventTypes \cup {"Fatal"})
        /\ fatal(rsp'.results) = {}
    BY <1>3, <2>1, <2>2, AppendFatal DEF Added
  <2> QED BY <1>1, <1>2, <1>6, <2>2, <2>3
          DEF AddsEvent, ResponseInv, KeepsState, EarlyReturnsAreFatal,
              vars, metaVars
<1>7. CASE UNCHANGED vars /\ at \in Open /\ EndsEarly
  <2>1. at # "failed"
    BY <1>7 DEF Open, Early
  <2>2. /\ rsp'.results \in Seq(EventTypes \cup {"Fatal"})
        /\ fatal(rsp'.results) = {Len(rsp'.results)}
    BY <1>3, <1>7, <2>1, AppendFatal DEF EndsEarly, Added
  <2> QED BY <1>2, <1>7, <2>2
          DEF EndsEarly, ResponseInv, EarlyReturnsAreFatal, Open, Early
<1> QED BY <1>4, <1>5, <1>6, <1>7, <1>8, ResponseWrites DEF ResponseInv

(* A call that ends early has one Fatal result, its last, and a call that  *)
(* ends well has none, for every request, output and failing stage.        *)
THEOREM FailuresAreFatal == RSpec => []EarlyReturnsAreFatal
<1>1. ResponseInv => EarlyReturnsAreFatal
  BY DEF ResponseInv
<1> QED BY <1>1, ResponseInitially, ResponseStep, PTL DEF RSpec

-----------------------------------------------------------------------------
(* A RunFunction call runs ProcessResources and nothing else writes what   *)
(* it computes: what is true of ProcessResources is true inside the call.  *)
THEOREM CallsProcess == RSpec => Spec
<1>1. RInit => Init
  BY DEF RInit
<1> QED
  BY <1>1, ProcessOrStutter, PTL DEF RSpec, Spec

(* Only objects of the Default target change connection details.           *)
DetailsInv == target # "Default" => connection = request.connection

LEMMA DetailsKept ==
  /\ Init => DetailsInv
  /\ DetailsInv /\ [Next]_vars => DetailsInv'
<1>1. Init => DetailsInv
  BY DEF Init, DetailsInv
<1>2. ASSUME [Next]_vars, target # "Default"
      PROVE  connection' = connection
  BY <1>2 DEF Next, vars, metaVars, target, SetDataOnXR, AddResource,
     MatchResources, PatchDesired, Apply, ToReady, ReadyAnnotation, PatchStatus,
     ConnectionDetails, ExtraResources, RequiredResources, Conditions, Events,
     Context, SetDesired, RejectObject, Finish, Fail, Takes
<1> QED
  BY <1>1, <1>2, RequestStays DEF DetailsInv, target

(* A call that fails before the desired state is written hands on the XR   *)
(* and the resources that earlier functions desired, whatever was merged   *)
(* when it failed, and connection details just where the request has some: *)
(* its own along with those of the objects taken before (fn.go:64, 130,    *)
(* res.go:504).                                                            *)
THEOREM FailuresKeepDesired == RSpec => FailureKeepsDesired
<1> DEFINE Keeps == /\ rsp'.desired = request.desired
                    /\ rsp'.xr = request.xr
                    /\ IF target = "Default" /\ Shared
                         THEN LastDetails(rsp'.connection)
                         ELSE rsp'.connection = request.connection
<1>1. ResponseInv /\ DetailsInv /\ MetaInv /\ [RNext]_rvars =>
        [at' = "failed" /\ at \notin {"xr", "composed"} => Keeps]_rvars
  <2> SUFFICES ASSUME ResponseInv, DetailsInv, MetaInv, RNext, rvars' # rvars,
                      at' = "failed", at \notin {"xr", "composed"}
               PROVE  Keeps
    OBVIOUS
  <2>1. at # "failed"
    BY DEF RNext, Render, Process, ProcessFails, SetRequirements,
           SetCondition, HasCondition, ConditionsSetAll, SetEvent,
           EventsSetAll, SetContext, SetXR, SetComposed, Goes
  <2>2. ~Process
    BY <2>1 DEF Process
  <2>3. at \in Open /\ EndsEarly
    BY <2>1, <2>2, ResponseWrites
       DEF ResponseInv, GoesOn, AddsEvent, Open, Early
  <2>4. /\ rsp.desired = request.desired /\ rsp.xr = request.xr
        /\ rsp.connection = IF Shared THEN connection ELSE Nothing
    BY <2>3 DEF ResponseInv, Open, Early
  <2>5. /\ rsp'.desired = request.desired /\ rsp'.xr = request.xr
        /\ rsp'.connection = IF Shared THEN connection ELSE request.connection
    BY <2>3, <2>4 DEF EndsEarly, KeepsState, Shared
  <2>6. CASE target = "Default" /\ Shared
    BY <2>5, <2>6 DEF MetaInv
  <2>7. CASE ~(target = "Default" /\ Shared)
    BY <2>5, <2>7 DEF DetailsInv
  <2> QED
    BY <2>5, <2>6, <2>7
<1>2. RSpec => [](DetailsInv /\ MetaInv)
  <2>1. Spec => [](DetailsInv /\ MetaInv)
    BY DetailsKept, RequirementsInitially, RequirementsStep, MetaInitially,
       MetaStep, PTL DEF Spec
  <2> QED
    BY <2>1, CallsProcess, PTL
<1> QED BY <1>1, <1>2, ResponseInitially, ResponseStep, PTL
        DEF RSpec, FailureKeepsDesired

(* XRAllLands, MetaAllLand, EarlierStateIsKept, ItemsAllLand and          *)
(* PatchesAllLand, in every RunFunction call.                              *)
THEOREM CallsKeepWhatIsDesired ==
  RSpec => /\ []XRLands
           /\ []MetaLand
           /\ []EarlierStateKept
           /\ []ItemsLand
           /\ []PatchesLand
BY CallsProcess, XRAllLands, MetaAllLand, EarlierStateIsKept,
   ItemsAllLand, PatchesAllLand, PTL

-----------------------------------------------------------------------------
(* pos counts.                                                             *)
PosType == pos \in Nat

LEMMA PosWrites ==
  [RNext]_rvars => pos' \in {pos, pos + 1, 1}
BY DEF RNext, rvars, Render, Process, ProcessFails, SetRequirements,
       SetCondition, ConditionsSetAll, SetEvent, EventsSetAll, SetContext,
       SetXR, SetComposed, ReturnFatal

LEMMA PosStep == PosType /\ [RNext]_rvars => PosType'
BY PosWrites DEF PosType

(* The response and what it is made from have their types.                 *)
THEOREM ResponseTyped == RSpec => []RTypeOK
<1>1. RInit => PosType
  BY DEF RInit, PosType
<1>2. ResponseInv /\ ProcessType /\ PosType => RTypeOK
  <2> SUFFICES ASSUME ResponseInv, ProcessType, PosType
               PROVE  RTypeOK
    OBVIOUS
  <2>1. ToSet(rsp.results) \subseteq EventTypes \cup {"Fatal"}
    BY DEF ResponseInv, ToSet
  <2>2. at \in Open \cup {"complete", "failed"}
    BY DEF ResponseInv
  <2>3. \A n \in DOMAIN desired : desired[n].ready \in ReadyValues \cup {""}
    BY DEF ProcessType, ResourcesType, IsResource
  <2> QED
    BY <2>1, <2>2, <2>3 DEF RTypeOK, ProcessType, StageInv, PosType, Open, Early
<1>3. RSpec => []ProcessType
  BY CallsProcess, ProcessTyped
<1> QED
  BY <1>1, <1>2, <1>3, ResponseInitially, ResponseStep, PosStep, PTL DEF RSpec

-----------------------------------------------------------------------------
(* What each stage that has been passed has put into the response.         *)
After == {"conditions", "events", "context", "xr", "composed", "complete"}

ContextCarried ==
  /\ \A p \in DOMAIN context : rsp.context[p] = context[p]
  /\ \A p \in DOMAIN request.context \ DOMAIN context :
       ~Near(p, DOMAIN context) => rsp.context[p] = request.context[p]

CarryInv ==
  /\ at \in {"render", "process"} =>
       rsp.extra = Nothing /\ rsp.required = Nothing
  /\ at \in After => rsp.extra = extra /\ rsp.required = required
  /\ at \in Early \ {"xr"} => rsp.context = request.context
  /\ at \in {"xr", "composed", "complete"} => ContextCarried
  /\ at \in {"composed", "complete"} =>
       rsp.xr = dxr /\ rsp.connection = connection
  /\ at \in Open => rsp.desired = request.desired
  /\ at = "complete" => rsp.desired = desired

LEMMA CarryInitially == RInit => CarryInv
BY DEF RInit, Init, To, CarryInv, After, Early, Open

(* Nothing that was desired is missing, so that all of it is written.      *)
LEMMA AllWritten ==
  ASSUME ProcessType, EarlierStateKept
  PROVE  Onto(desired, request.desired) = desired
<1>1. DOMAIN request.desired \subseteq DOMAIN desired
  BY DEF EarlierStateKept
<1>2. desired = [n \in DOMAIN desired |-> desired[n]]
  BY DEF ProcessType, ResourcesType
<1> QED
  BY <1>1, <1>2 DEF Onto

LEMMA CarryStep ==
  ProcessType /\ EarlierStateKept /\ DOMAIN rsp = ResponseFields /\ CarryInv
    /\ [RNext]_rvars => CarryInv'
<1> SUFFICES ASSUME ProcessType, EarlierStateKept, DOMAIN rsp = ResponseFields,
                    CarryInv, [RNext]_rvars
             PROVE  CarryInv'
  OBVIOUS
<1> USE DEF After, Early, Open
<1>1. CASE at' = "failed"
  BY <1>1 DEF CarryInv
<1>2. CASE Render /\ at' # "failed"
  BY <1>2 DEF Render, Goes, ReturnFatal, CarryInv, vars, metaVars
<1>3. CASE Process
  <2>1. /\ at = "process" /\ at' = at /\ request' = request
        /\ rsp' = rsp \/ rsp' = [rsp EXCEPT !.connection = connection']
    BY <1>3, RequestStays DEF Process
  <2>2. /\ rsp'.extra = rsp.extra /\ rsp'.required = rsp.required
        /\ rsp'.context = rsp.context /\ rsp'.desired = rsp.desired
    BY <2>1 DEF ResponseFields
  <2> QED
    BY <2>1, <2>2 DEF CarryInv
<1>4. CASE SetRequirements
  <2>1. /\ at = "process" /\ at' = "conditions"
        /\ UNCHANGED vars
        /\ \/ rsp' = [rsp EXCEPT !.extra = extra, !.required = required]
           \/ rsp' = rsp /\ extra = Nothing /\ required = Nothing
    BY <1>4 DEF SetRequirements, Goes
  <2>2. /\ rsp'.extra = extra /\ rsp'.required = required
        /\ rsp'.context = rsp.context /\ rsp'.desired = rsp.desired
    BY <2>1 DEF CarryInv, ResponseFields
  <2> QED
    BY <2>1, <2>2 DEF CarryInv, vars, metaVars
<1>5. CASE SetCondition /\ at' # "failed"
  <2>1. /\ at = "conditions" /\ at' = at
        /\ UNCHANGED vars
        /\ rsp' = rsp \/ \E s : rsp' = [rsp EXCEPT !.conditions = s]
    BY <1>5 DEF SetCondition, HasCondition, ReturnFatal
  <2>2. /\ rsp'.extra = rsp.extra /\ rsp'.required = rsp.required
        /\ rsp'.context = rsp.context /\ rsp'.desired = rsp.desired
    BY <2>1 DEF ResponseFields
  <2> QED
    BY <2>1, <2>2 DEF CarryInv, vars, metaVars
<1>6. CASE ConditionsSetAll
  BY <1>6 DEF ConditionsSetAll, Goes, CarryInv, vars, metaVars
<1>7. CASE SetEvent /\ at' # "failed"
  <2>1. /\ at = "events" /\ at' = at
        /\ UNCHANGED vars
        /\ \E s : rsp' = [rsp EXCEPT !.results = s]
    BY <1>7 DEF SetEvent, ReturnFatal
  <2>2. /\ rsp'.extra = rsp.extra /\ rsp'.required = rsp.required
        /\ rsp'.context = rsp.context /\ rsp'.desired = rsp.desired
    BY <2>1 DEF ResponseFields
  <2> QED
    BY <2>1, <2>2 DEF CarryInv, vars, metaVars
<1>8. CASE EventsSetAll
  BY <1>8 DEF EventsSetAll, Goes, CarryInv, vars, metaVars
<1>9. CASE SetContext /\ at' # "failed"
  <2>1. /\ at = "context" /\ at' = "xr"
        /\ UNCHANGED vars
        /\ rsp' = [rsp EXCEPT !.context = IF context = Nothing THEN @
                                          ELSE Graft(context, request.context)]
    BY <1>9 DEF SetContext, Goes, ReturnFatal
  <2>2. /\ rsp'.extra = rsp.extra /\ rsp'.required = rsp.required
        /\ rsp'.desired = rsp.desired
        /\ rsp'.context = IF context = Nothing THEN request.context
                          ELSE Graft(context, request.context)
    BY <2>1 DEF CarryInv, ResponseFields
  <2>3. ContextCarried'
    BY <2>1, <2>2, GraftIs DEF ContextCarried, Nothing, vars, metaVars
  <2> QED
    BY <2>1, <2>2, <2>3 DEF CarryInv, vars, metaVars
<1>10. CASE SetXR /\ at' # "failed"
  <2>1. /\ at = "xr" /\ at' = "composed"
        /\ UNCHANGED vars
        /\ rsp' = [rsp EXCEPT !.xr = dxr, !.connection = connection]
    BY <1>10 DEF SetXR, Goes, ReturnFatal
  <2>2. /\ rsp'.extra = rsp.extra /\ rsp'.required = rsp.required
        /\ rsp'.desired = rsp.desired /\ rsp'.context = rsp.context
        /\ rsp'.xr = dxr /\ rsp'.connection = connection
    BY <2>1 DEF ResponseFields
  <2> QED
    BY <2>1, <2>2 DEF CarryInv, ContextCarried, vars, metaVars
<1>11. CASE SetComposed /\ at' # "failed"
  <2>1. /\ at = "composed" /\ at' = "complete"
        /\ UNCHANGED vars
        /\ rsp' = [rsp EXCEPT !.desired = Onto(desired, @)]
    BY <1>11 DEF SetComposed, Goes, ReturnFatal
  <2>2. /\ rsp'.extra = rsp.extra /\ rsp'.required = rsp.required
        /\ rsp'.xr = rsp.xr /\ rsp'.connection = rsp.connection
        /\ rsp'.context = rsp.context
        /\ rsp'.desired = Onto(desired, rsp.desired)
    BY <2>1 DEF ResponseFields
  <2>3. rsp'.desired = desired
    BY <2>1, <2>2, AllWritten DEF CarryInv
  <2> QED
    BY <2>1, <2>2, <2>3 DEF CarryInv, ContextCarried, vars, metaVars
<1>12. CASE UNCHANGED rvars
  BY <1>12 DEF rvars, vars, metaVars, CarryInv, ContextCarried
<1>13. ProcessFails => at' = "failed"
  BY DEF ProcessFails, ReturnFatal
<1> QED
  BY <1>1, <1>2, <1>3, <1>4, <1>5, <1>6, <1>7, <1>8, <1>9, <1>10, <1>11,
     <1>12, <1>13 DEF RNext

-----------------------------------------------------------------------------
(* Events.  What ProcessResources decoded is a sequence.                   *)
EventsType == events.len \in Nat

LEMMA EventWrites ==
  ASSUME [Next]_vars
  PROVE  \/ events' = events
         \/ HasObject /\ events' = Decode(Object.list, events)
BY DEF Next, vars, metaVars, SetDataOnXR, AddResource, MatchResources,
       PatchDesired, Apply, ToReady, ReadyAnnotation, PatchStatus,
       ConnectionDetails, ExtraResources, RequiredResources, Conditions,
       Events, Context, SetDesired, RejectObject, Finish, Fail, Takes

LEMMA ListTyped ==
  ASSUME ProcessType, HasObject, NEW old
  PROVE  Decode(Object.list, old).len \in Nat
<1>1. next \in DOMAIN data
  BY DataFacts DEF ProcessType, StageInv, HasObject
<1>2. Object \in ToSet(data) /\ request \in Requests
  BY <1>1 DEF Object, ToSet, ProcessType
<1>3. Object.list \in Seq(ToSet(Object.list))
  BY <1>2, RequestsAssumption DEF data
<1> QED
  BY <1>3 DEF Decode

LEMMA EventsTyped == Spec => []EventsType
<1>1. Init => EventsType
  BY DEF Init, NoSlots, EventsType
<1>2. ProcessType /\ EventsType /\ [Next]_vars => EventsType'
  BY EventWrites, ListTyped DEF EventsType
<1> QED
  BY <1>1, <1>2, ProcessTyped, PTL DEF Spec

(* The results of the first k events.                                      *)
Results(k) == [i \in 1 .. k |-> TypeOf(Decoded(events)[i])]

LEMMA OneMoreResult ==
  ASSUME NEW k \in Nat
  PROVE  Append(Results(k), TypeOf(Decoded(events)[k + 1])) = Results(k + 1)
<1> DEFINE f(i) == TypeOf(Decoded(events)[i])
<1> HIDE DEF f
<1>1. Append([i \in 1 .. k |-> f(i)], f(k + 1)) = [i \in 1 .. k + 1 |-> f(i)]
  OBVIOUS
<1> QED
  BY <1>1 DEF f, Results

ResultsInv ==
  /\ at \in {"render", "process", "conditions"} => rsp.results = <<>>
  /\ at = "events" =>
       /\ pos \in 1 .. events.len + 1
       /\ rsp.results = Results(pos - 1)
  /\ at \in {"context", "xr", "composed", "complete"} =>
       rsp.results = Results(events.len)

LEMMA ResultsInitially == RInit => ResultsInv
BY DEF RInit, To, ResultsInv

LEMMA ResultsStep ==
  EventsType /\ DOMAIN rsp = ResponseFields /\ ResultsInv /\ [RNext]_rvars
    => ResultsInv'
<1> SUFFICES ASSUME EventsType, DOMAIN rsp = ResponseFields, ResultsInv,
                    [RNext]_rvars
             PROVE  ResultsInv'
  OBVIOUS
<1>1. CASE at' = "failed"
  BY <1>1 DEF ResultsInv
<1>2. CASE Render /\ at' # "failed"
  BY <1>2 DEF Render, Goes, ReturnFatal, ResultsInv
<1>3. CASE Process
  BY <1>3 DEF Process, ResultsInv
<1>4. CASE SetRequirements
  <2>1. /\ at = "process" /\ at' = "conditions"
        /\ rsp'.results = rsp.results
    BY <1>4 DEF SetRequirements, Goes, ResponseFields
  <2> QED
    BY <2>1 DEF ResultsInv
<1>5. CASE SetCondition /\ at' # "failed"
  <2>1. /\ at = "conditions" /\ at' = at
        /\ rsp'.results = rsp.results
    BY <1>5 DEF SetCondition, HasCondition, ReturnFatal, ResponseFields
  <2> QED
    BY <2>1 DEF ResultsInv
<1>6. CASE ConditionsSetAll
  <2>1. /\ at = "conditions" /\ at' = "events"
        /\ pos' = 1 /\ rsp' = rsp /\ events' = events
    BY <1>6 DEF ConditionsSetAll, Goes, vars, metaVars
  <2>2. Results(0) = <<>>
    BY DEF Results
  <2>3. Results(pos - 1)' = Results(0)
    BY <2>1 DEF Results
  <2> QED
    BY <2>1, <2>2, <2>3 DEF ResultsInv, EventsType
<1>7. CASE SetEvent /\ at' # "failed"
  <2>1. /\ at = "events" /\ at' = at
        /\ pos <= events.len /\ pos' = pos + 1
        /\ events' = events
        /\ rsp'.results = Append(rsp.results, TypeOf(Event))
    BY <1>7 DEF SetEvent, ReturnFatal, vars, metaVars, ResponseFields
  <2>2. /\ pos \in 1 .. events.len + 1
        /\ rsp.results = Results(pos - 1)
    BY <2>1 DEF ResultsInv
  <2>3. pos - 1 \in Nat /\ pos - 1 + 1 = pos /\ pos' - 1 = pos
        /\ pos' \in 1 .. events.len + 1
    BY <2>1, <2>2 DEF EventsType
  <2>4. rsp'.results = Results(pos)
    BY <2>1, <2>2, <2>3, OneMoreResult DEF Event
  <2>5. Results(pos - 1)' = Results(pos)
    BY <2>1, <2>3 DEF Results
  <2> QED
    BY <2>1, <2>3, <2>4, <2>5 DEF ResultsInv
<1>8. CASE EventsSetAll
  <2>1. /\ at = "events" /\ at' = "context"
        /\ pos > events.len /\ rsp' = rsp /\ events' = events
    BY <1>8 DEF EventsSetAll, Goes, vars, metaVars
  <2>2. pos - 1 = events.len /\ rsp.results = Results(pos - 1)
    BY <2>1 DEF ResultsInv, EventsType
  <2>3. Results(events.len)' = Results(events.len)
    BY <2>1 DEF Results
  <2> QED
    BY <2>1, <2>2, <2>3 DEF ResultsInv
<1>9. ASSUME \/ SetContext \/ SetXR \/ SetComposed, at' # "failed"
      PROVE  ResultsInv'
  <2>1. /\ at \in {"context", "xr", "composed"}
        /\ at' \in {"xr", "composed", "complete"}
        /\ rsp'.results = rsp.results /\ events' = events
    BY <1>9 DEF SetContext, SetXR, SetComposed, Goes, ReturnFatal, vars,
       metaVars, ResponseFields
  <2>2. Results(events.len)' = Results(events.len)
    BY <2>1 DEF Results
  <2> QED
    BY <2>1, <2>2 DEF ResultsInv
<1>10. CASE UNCHANGED rvars
  <2>1. UNCHANGED <<at, pos, rsp, events>>
    BY <1>10 DEF rvars, vars, metaVars
  <2> QED
    BY <2>1 DEF ResultsInv, Results
<1>11. ProcessFails => at' = "failed"
  BY DEF ProcessFails, ReturnFatal
<1> QED
  BY <1>1, <1>2, <1>3, <1>4, <1>5, <1>6, <1>7, <1>8, <1>9, <1>10, <1>11
     DEF RNext

(* A call that ends well hands over the desired state, the XR, the         *)
(* connection details, the requirements, the events and the context it     *)
(* computed, with nothing of the request's context lost (fn.go, from       *)
(* ProcessResources to the end of RunFunction).                            *)
THEOREM CompleteCallsCarryAll == RSpec => []CompleteCarriesAll
<1>1. CarryInv /\ ResultsInv => CompleteCarriesAll
  BY DEF CarryInv, ResultsInv, Results, CompleteCarriesAll, ContextCarried, After
<1>2. RSpec => []ProcessType /\ []EarlierStateKept /\ []EventsType
  BY CallsProcess, ProcessTyped, EarlierStateIsKept, EventsTyped, PTL
<1>3. ResponseInv => DOMAIN rsp = ResponseFields
  BY DEF ResponseInv
<1> QED
  BY <1>1, <1>2, <1>3, ResponseInitially, ResponseStep, CarryInitially,
     CarryStep, ResultsInitially, ResultsStep, PTL DEF RSpec

-----------------------------------------------------------------------------
(* Conditions.  What ProcessResources decoded is a sequence.               *)
LenType == conditions.len \in Nat

LEMMA ConditionWrites ==
  ASSUME [Next]_vars
  PROVE  \/ conditions' = conditions
         \/ HasObject /\ conditions' = Decode(Object.list, conditions)
BY DEF Next, vars, metaVars, SetDataOnXR, AddResource, MatchResources,
       PatchDesired, Apply, ToReady, ReadyAnnotation, PatchStatus,
       ConnectionDetails, ExtraResources, RequiredResources, Conditions,
       Events, Context, SetDesired, RejectObject, Finish, Fail, Takes

LEMMA LenStep == ProcessType /\ LenType /\ [Next]_vars => LenType'
BY ConditionWrites, ListTyped DEF LenType

LEMMA LenTyped == Spec => []LenType
<1>1. Init => LenType
  BY DEF Init, NoSlots, LenType
<1> QED
  BY <1>1, LenStep, ProcessTyped, PTL DEF Spec

(* Of the first k conditions cs[w] is the one of its type that stays: the  *)
(* last forced one, or the first if no later one is.                       *)
Wins(cs, w, k) ==
  /\ w \in 1 .. k
  /\ \A i \in 1 .. k : cs[i].type = cs[w].type /\ Forced(cs[i]) => i <= w
  /\ \/ Forced(cs[w])
     \/ \A i \in 1 .. k : cs[i].type = cs[w].type => w <= i

(* The last condition of type t that the response sets is the one that won *)
(* among the first k.                                                      *)
Settled(cs, r, t, k) ==
  \E w \in 1 .. k, l \in DOMAIN r :
    /\ Wins(cs, w, k) /\ cs[w].type = t
    /\ r[l] = cs[w]
    /\ \A j \in DOMAIN r : r[j].type = t => j <= l

Decided(cs, r, k) ==
  /\ r \in Seq(ToSet(cs))
  /\ \A i \in 1 .. k : cs[i].type \notin Reserved
  /\ {c.type : c \in ToSet(r)} = {cs[i].type : i \in 1 .. k}
  /\ \A i \in 1 .. k : Settled(cs, r, cs[i].type, k)

ConditionInv ==
  LET cs == Decoded(conditions)
  IN /\ at \in {"render", "process"} => pos = 1 /\ rsp.conditions = <<>>
     /\ at = "conditions" =>
          /\ pos \in 1 .. conditions.len + 1
          /\ Decided(cs, rsp.conditions, pos - 1)
     /\ at \in After \ {"conditions"} =>
          Decided(cs, rsp.conditions, conditions.len)

(* A condition of a type that is set already and is not forced changes     *)
(* nothing.                                                                *)
LEMMA SkippedDecided ==
  ASSUME NEW cs, NEW r, NEW k \in Nat \ {0}, Decided(cs, r, k - 1),
         cs[k].type \notin Reserved, ~Forced(cs[k]),
         cs[k].type \in {c.type : c \in ToSet(r)}
  PROVE  Decided(cs, r, k)
<1>1. PICK h \in 1 .. k - 1 : cs[h].type = cs[k].type
  BY DEF Decided
<1>2. \A w : Wins(cs, w, k - 1) => Wins(cs, w, k)
  BY DEF Wins
<1>3. \A t : Settled(cs, r, t, k - 1) => Settled(cs, r, t, k)
  BY <1>2 DEF Settled
<1>4. \A i \in 1 .. k : i \in 1 .. k - 1 \/ i = k
  OBVIOUS
<1>5. \A i \in 1 .. k : Settled(cs, r, cs[i].type, k)
  BY <1>1, <1>3, <1>4 DEF Decided
<1>6. {cs[i].type : i \in 1 .. k} = {cs[i].type : i \in 1 .. k - 1}
  BY <1>1, <1>4
<1> QED
  BY <1>4, <1>5, <1>6 DEF Decided

(* Any other condition is set, and wins its type.                          *)
LEMMA SetDecided ==
  ASSUME NEW cs, NEW r, NEW k \in Nat \ {0}, Decided(cs, r, k - 1),
         cs[k] \in ToSet(cs), cs[k].type \notin Reserved,
         Forced(cs[k]) \/ cs[k].type \notin {c.type : c \in ToSet(r)}
  PROVE  Decided(cs, Append(r, cs[k]), k)
<1> DEFINE s == Append(r, cs[k])
<1>1. /\ r \in Seq(ToSet(cs)) /\ s \in Seq(ToSet(cs))
      /\ Len(r) \in Nat
      /\ DOMAIN r = 1 .. Len(r) /\ DOMAIN s = 1 .. Len(r) + 1
      /\ \A j \in 1 .. Len(r) : s[j] = r[j]
      /\ s[Len(r) + 1] = cs[k]
  BY DEF Decided
<1>2. \A i \in 1 .. k : i \in 1 .. k - 1 \/ i = k
  OBVIOUS
<1>3. {c.type : c \in ToSet(r)} = {cs[i].type : i \in 1 .. k - 1}
  BY DEF Decided
<1> HIDE DEF s
<1>4. ToSet(s) = ToSet(r) \cup {cs[k]}
  BY <1>1 DEF ToSet
<1>5. {c.type : c \in ToSet(s)} = {cs[i].type : i \in 1 .. k}
  <2>1. {c.type : c \in ToSet(s)} = {c.type : c \in ToSet(r)} \cup {cs[k].type}
    BY <1>4
  <2>2. {cs[i].type : i \in 1 .. k} =
          {cs[i].type : i \in 1 .. k - 1} \cup {cs[k].type}
    BY <1>2
  <2> QED
    BY <1>3, <2>1, <2>2
<1>6. Settled(cs, s, cs[k].type, k)
  <2>1. Wins(cs, k, k)
    <3>1. Forced(cs[k]) \/ \A i \in 1 .. k - 1 : cs[i].type # cs[k].type
      BY <1>3
    <3> QED
      BY <1>2, <3>1 DEF Wins
  <2> QED
    BY <1>1, <2>1 DEF Settled
<1>7. ASSUME NEW i \in 1 .. k - 1, cs[i].type # cs[k].type
      PROVE  Settled(cs, s, cs[i].type, k)
  <2>1. PICK w \in 1 .. k - 1, l \in DOMAIN r :
          /\ Wins(cs, w, k - 1) /\ cs[w].type = cs[i].type
          /\ r[l] = cs[w]
          /\ \A j \in DOMAIN r : r[j].type = cs[i].type => j <= l
    BY DEF Decided, Settled
  <2>2. Wins(cs, w, k)
    BY <1>2, <1>7, <2>1 DEF Wins
  <2>3. \A j \in DOMAIN s : s[j].type = cs[i].type => j <= l
    BY <1>1, <1>7, <2>1
  <2> QED
    BY <1>1, <2>1, <2>2, <2>3 DEF Settled
<1>8. \A i \in 1 .. k : Settled(cs, s, cs[i].type, k)
  BY <1>2, <1>6, <1>7
<1> QED
  BY <1>1, <1>2, <1>5, <1>8 DEF Decided, s

LEMMA NoneDecided == \A cs : Decided(cs, <<>>, 0)
BY DEF Decided, ToSet

LEMMA ConditionInitially == RInit => ConditionInv
BY DEF RInit, To, ConditionInv, After

LEMMA ConditionStep ==
  LenType /\ DOMAIN rsp = ResponseFields /\ ConditionInv /\ [RNext]_rvars
    => ConditionInv'
<1> SUFFICES ASSUME LenType, DOMAIN rsp = ResponseFields, ConditionInv, [RNext]_rvars
             PROVE  ConditionInv'
  OBVIOUS
<1> USE DEF After
<1> DEFINE cs == Decoded(conditions)
<1>1. CASE at' = "failed"
  BY <1>1 DEF ConditionInv
<1>2. CASE Render /\ at' # "failed"
  BY <1>2 DEF Render, Goes, ReturnFatal, ConditionInv
<1>3. CASE Process
  BY <1>3 DEF Process, ConditionInv
<1>4. CASE SetRequirements
  <2>1. /\ at = "process" /\ at' = "conditions"
        /\ pos' = pos /\ UNCHANGED vars
        /\ \/ rsp' = [rsp EXCEPT !.extra = extra, !.required = required]
           \/ rsp' = rsp
    BY <1>4 DEF SetRequirements, Goes
  <2>2. pos' = 1 /\ rsp'.conditions = <<>>
    BY <2>1 DEF ConditionInv, ResponseFields
  <2>3. conditions' = conditions /\ conditions.len \in Nat
    BY <2>1 DEF vars, metaVars, LenType
  <2>4. pos' \in 1 .. conditions.len + 1 /\ pos' - 1 = 0
    BY <2>2, <2>3
  <2>5. Decided(cs, rsp'.conditions, pos' - 1)
    BY <2>2, <2>4, NoneDecided
  <2>6. cs' = cs
    BY <2>3
  <2> HIDE DEF cs
  <2> QED
    BY <2>1, <2>3, <2>4, <2>5, <2>6 DEF ConditionInv, cs
<1>5. CASE SetCondition /\ at' # "failed"
  <2>1. /\ at = "conditions" /\ at' = at
        /\ pos <= conditions.len
        /\ pos' = pos + 1
        /\ UNCHANGED vars
        /\ cs[pos].type \notin Reserved
        /\ rsp' = IF Skipped(cs[pos]) THEN rsp
                  ELSE [rsp EXCEPT !.conditions = Append(@, cs[pos])]
    BY <1>5 DEF SetCondition, HasCondition, ReturnFatal, Condition
  <2>2. rsp'.conditions = IF Skipped(cs[pos]) THEN rsp.conditions
                          ELSE Append(rsp.conditions, cs[pos])
    BY <2>1 DEF ResponseFields
  <2>3. /\ conditions' = conditions /\ conditions.len \in Nat
        /\ pos \in 1 .. conditions.len
        /\ pos' \in 1 .. conditions.len + 1
        /\ pos \in Nat \ {0} /\ pos' - 1 = pos
    BY <2>1 DEF ConditionInv, vars, metaVars, LenType
  <2>4. cs[pos] \in ToSet(cs)
    BY <2>3 DEF Decoded, ToSet
  <2>5. Decided(cs, rsp.conditions, pos - 1)
    BY <2>1 DEF ConditionInv
  <2>6. cs' = cs
    BY <2>3
  <2> HIDE DEF cs
  <2>7. ASSUME Skipped(cs[pos])
        PROVE  Decided(cs, rsp'.conditions, pos' - 1)
    BY <2>1, <2>2, <2>3, <2>5, <2>7, SkippedDecided
       DEF Skipped, ConditionsSet
  <2>8. ASSUME ~Skipped(cs[pos])
        PROVE  Decided(cs, rsp'.conditions, pos' - 1)
    BY <2>1, <2>2, <2>3, <2>4, <2>5, <2>8, SetDecided
       DEF Skipped, ConditionsSet
  <2>9. Decided(cs, rsp'.conditions, pos' - 1)
    BY <2>7, <2>8
  <2> QED
    BY <2>1, <2>3, <2>6, <2>9 DEF ConditionInv, cs
<1>6. CASE ConditionsSetAll
  <2>1. /\ at = "conditions" /\ at' = "events"
        /\ pos > conditions.len
        /\ rsp' = rsp /\ conditions' = conditions
    BY <1>6 DEF ConditionsSetAll, Goes, vars, metaVars
  <2>2. pos - 1 = conditions.len
    BY <2>1 DEF ConditionInv, LenType
  <2> QED
    BY <2>1, <2>2 DEF ConditionInv
<1>7. ASSUME at \in After \ {"conditions"}, at' \in After \ {"conditions"},
             rsp'.conditions = rsp.conditions, conditions' = conditions
      PROVE  ConditionInv'
  BY <1>7 DEF ConditionInv
<1>8. CASE SetEvent /\ at' # "failed"
  <2>1. /\ at = "events" /\ at' = at /\ conditions' = conditions
        /\ \E s : rsp' = [rsp EXCEPT !.results = s]
    BY <1>8 DEF SetEvent, ReturnFatal, vars, metaVars
  <2> QED
    BY <1>7, <2>1 DEF ResponseFields
<1>9. CASE EventsSetAll
  BY <1>7, <1>9 DEF EventsSetAll, Goes, vars, metaVars
<1>10. CASE SetContext /\ at' # "failed"
  <2>1. /\ at = "context" /\ at' = "xr" /\ conditions' = conditions
        /\ \E c : rsp' = [rsp EXCEPT !.context = c]
    BY <1>10 DEF SetContext, Goes, ReturnFatal, vars, metaVars
  <2> QED
    BY <1>7, <2>1 DEF ResponseFields
<1>11. CASE SetXR /\ at' # "failed"
  <2>1. /\ at = "xr" /\ at' = "composed" /\ conditions' = conditions
        /\ rsp' = [rsp EXCEPT !.xr = dxr, !.connection = connection]
    BY <1>11 DEF SetXR, Goes, ReturnFatal, vars, metaVars
  <2> QED
    BY <1>7, <2>1 DEF ResponseFields
<1>12. CASE SetComposed /\ at' # "failed"
  <2>1. /\ at = "composed" /\ at' = "complete" /\ conditions' = conditions
        /\ \E d : rsp' = [rsp EXCEPT !.desired = d]
    BY <1>12 DEF SetComposed, Goes, ReturnFatal, vars, metaVars
  <2> QED
    BY <1>7, <2>1 DEF ResponseFields
<1>13. CASE UNCHANGED rvars
  BY <1>13 DEF rvars, vars, metaVars, ConditionInv
<1>14. ProcessFails => at' = "failed"
  BY DEF ProcessFails, ReturnFatal
<1> QED
  BY <1>1, <1>2, <1>3, <1>4, <1>5, <1>6, <1>8, <1>9, <1>10, <1>11, <1>12,
     <1>13, <1>14 DEF RNext

(* What the invariant says is what ForceDecides names by Min and Max.      *)
OfType(s, t) == {i \in DOMAIN s : s[i].type = t}
Winner(cs, t) == Max({Min(OfType(cs, t))}
                       \cup {i \in OfType(cs, t) : Forced(cs[i])})

LEMMA SettledWins ==
  ASSUME NEW k \in Nat, NEW cs, DOMAIN cs = 1 .. k, NEW r,
         r \in Seq(ToSet(cs)), NEW t, Settled(cs, r, t, k)
  PROVE  r[Max(OfType(r, t))] = cs[Winner(cs, t)]
<1> DEFINE of(s) == OfType(s, t)
           forced == {i \in of(cs) : Forced(cs[i])}
<1> USE DEF OfType
<1>1. PICK w \in 1 .. k, l \in DOMAIN r :
        /\ Wins(cs, w, k) /\ cs[w].type = t
        /\ r[l] = cs[w]
        /\ \A j \in DOMAIN r : r[j].type = t => j <= l
  BY DEF Settled
<1>2. Max(of(r)) = l
  <2>1. of(r) \in SUBSET Nat
    OBVIOUS
  <2>2. l \in of(r) /\ \A j \in of(r) : j <= l
    BY <1>1
  <2> HIDE DEF of
  <2> QED
    BY <2>1, <2>2, GreatestIs
<1>3. of(cs) \in SUBSET Nat /\ w \in of(cs)
  BY <1>1
<1>4. Min(of(cs)) \in of(cs) /\ \A i \in of(cs) : Min(of(cs)) <= i
  <2> HIDE DEF of
  <2> QED
    BY <1>3, LeastExists
<1>5. /\ \A i \in forced : i <= w
      /\ Forced(cs[w]) \/ \A i \in of(cs) : w <= i
  BY <1>1 DEF Wins
<1>6. w \in {Min(of(cs))} \cup forced
  <2>1. CASE Forced(cs[w])
    BY <1>3, <2>1
  <2>2. CASE \A i \in of(cs) : w <= i
    <3>1. w <= Min(of(cs)) /\ Min(of(cs)) <= w
      BY <1>3, <1>4, <2>2
    <3> HIDE DEF of
    <3> QED
      BY <1>3, <1>4, <3>1
  <2> QED
    BY <1>5, <2>1, <2>2
<1>7. \A i \in {Min(of(cs))} \cup forced : i <= w
  BY <1>3, <1>4, <1>5
<1>8. {Min(of(cs))} \cup forced \in SUBSET Nat
  BY <1>3, <1>4
<1>9. Max({Min(of(cs))} \cup forced) = w
  <2> HIDE DEF of, forced
  <2> QED
    BY <1>6, <1>7, <1>8, GreatestIs
<1> QED
  BY <1>1, <1>2, <1>9 DEF Winner

(* Of each type Crossplane ends up with the last condition that was        *)
(* forced, or the first when none after it was, and with none it keeps for *)
(* itself (conditions.go:85-107).                                          *)
THEOREM ForcedConditionsWin == RSpec => []ForceDecides
<1>1. ConditionInv /\ LenType => ForceDecides
  <2> SUFFICES ASSUME ConditionInv, LenType, at \in {"events", "complete"}
               PROVE  ForceDecides
    BY DEF ForceDecides
  <2> DEFINE cs == Decoded(conditions)
             k == conditions.len
             types == {c.type : c \in ToSet(cs)}
  <2>1. Decided(cs, rsp.conditions, k)
    BY DEF ConditionInv, After
  <2>2. DOMAIN cs = 1 .. k /\ k \in Nat
    BY DEF Decoded, LenType
  <2> HIDE DEF cs, k
  <2>3. types = {cs[i].type : i \in 1 .. k}
    BY <2>2 DEF ToSet
  <2>4. types \cap Reserved = {} /\ ConditionsSet = types
    <3> HIDE DEF types
    <3>1. ConditionsSet = types
      BY <2>1, <2>3 DEF Decided, ConditionsSet
    <3>2. types \cap Reserved = {}
      BY <2>1, <2>3 DEF Decided
    <3> QED
      BY <3>1, <3>2
  <2>5. ASSUME NEW t \in types
        PROVE  rsp.conditions[Max(OfType(rsp.conditions, t))] = cs[Winner(cs, t)]
    <3>1. Settled(cs, rsp.conditions, t, k)
      BY <2>1, <2>3 DEF Decided
    <3>2. rsp.conditions \in Seq(ToSet(cs))
      BY <2>1 DEF Decided
    <3> QED
      BY <2>2, <3>1, <3>2, SettledWins
  <2> QED
    BY <2>4, <2>5 DEF ForceDecides, OfType, Winner, cs
<1>2. RSpec => []LenType
  BY CallsProcess, LenTyped
<1>3. ResponseInv => DOMAIN rsp = ResponseFields
  BY DEF ResponseInv
<1> QED
  BY <1>1, <1>2, <1>3, ResponseInitially, ResponseStep, ConditionInitially,
     ConditionStep, PTL DEF RSpec
=============================================================================
