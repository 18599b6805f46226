------------------------------ MODULE Response ------------------------------
(***************************************************************************)
(* The response of one RunFunction call (fn.go): what it starts from, what *)
(* each stage adds once ProcessResources has returned, and what a stage    *)
(* that fails leaves behind.  SetConditions, SetEvents and the setters of  *)
(* the SDK write into the response as they go, and connection details are  *)
(* in it as they are computed; the rest of the desired state is written    *)
(* last.                                                                   *)
(***************************************************************************)
EXTENDS ProcessResources

CONSTANT Reserved  \* condition types that belong to Crossplane

VARIABLES at,   \* the stage of RunFunction
          pos,  \* the condition or event whose turn it is
          rsp   \* the response

rvars == <<vars, at, pos, rsp>>

EventTypes == {"Normal", "Warning"}

(* response.To(): the desired state and the context of the request.        *)
To(req) == [results |-> <<>>, conditions |-> <<>>,
            extra |-> Nothing, required |-> Nothing,
            desired |-> req.desired, xr |-> req.xr,
            connection |-> req.connection, context |-> req.context]

RInit ==
  /\ Init
  /\ at = "render"
  /\ pos = 1
  /\ rsp = To(request)

-----------------------------------------------------------------------------
Fatal(r) == [r EXCEPT !.results = Append(@, "Fatal")]

(* An early return of RunFunction with a Fatal result.                     *)
ReturnFatal(r) ==
  /\ at' = "failed"
  /\ rsp' = Fatal(r)
  /\ UNCHANGED pos

Goes(from, to) == at = from /\ at' = to

(* Everything before ProcessResources: reading the request, rendering and  *)
(* parsing the output either give it its arguments or end the call.        *)
Render ==
  /\ \/ Goes("render", "process") /\ UNCHANGED <<pos, rsp>>
     \/ at = "render" /\ ReturnFatal(rsp)
  /\ UNCHANGED vars

(* The connection details of dxr are the map of the request itself, which  *)
(* is in the response already, unless the request has none.                *)
Shared == request.connection # Nothing

Process ==
  /\ at = "process"
  /\ Next
  /\ rsp' = IF Shared THEN [rsp EXCEPT !.connection = connection'] ELSE rsp
  /\ UNCHANGED <<at, pos>>

\* Mutant: what was processed before the error is set in the response.
ProcessPartly ==
  /\ at = "process" /\ stage = "error"
  /\ ReturnFatal([rsp EXCEPT !.desired = desired])
  /\ UNCHANGED vars

ProcessFails ==
  /\ at = "process" /\ stage = "error"
  /\ ReturnFatal(rsp)
  /\ UNCHANGED vars

\* Mutant: required resources are set only along with extra ones.
SetExtraOnly ==
  /\ stage = "done"
  /\ Goes("process", "conditions")
  /\ rsp' = IF extra # Nothing
              THEN [rsp EXCEPT !.extra = extra, !.required = required] ELSE rsp
  /\ UNCHANGED <<vars, pos>>

SetRequirements ==
  /\ stage = "done"
  /\ Goes("process", "conditions")
  /\ rsp' = IF extra # Nothing \/ required # Nothing
              THEN [rsp EXCEPT !.extra = extra, !.required = required] ELSE rsp
  /\ UNCHANGED <<vars, pos>>

-----------------------------------------------------------------------------
(* SetConditions, one condition at a time; conditionsSet holds the types   *)
(* of the conditions in the response.                                      *)

Condition == Decoded(conditions)[pos]
HasCondition == at = "conditions" /\ pos <= conditions.len

Forced(c) == "force" \in DOMAIN c /\ c.force
ConditionsSet == {c.type : c \in ToSet(rsp.conditions)}
NeverSkipped(c) == FALSE  \* mutant: conditionsSet is not looked at
Skipped(c) == c.type \in ConditionsSet /\ ~Forced(c)

SetCondition ==
  /\ HasCondition
  /\ IF Condition.type \in Reserved
       THEN ReturnFatal(rsp)
       ELSE /\ rsp' = IF Skipped(Condition) THEN rsp
                      ELSE [rsp EXCEPT !.conditions = Append(@, Condition)]
            /\ pos' = pos + 1
            /\ UNCHANGED at
  /\ UNCHANGED vars

ConditionsSetAll ==
  /\ pos > conditions.len
  /\ Goes("conditions", "events")
  /\ pos' = 1
  /\ UNCHANGED <<vars, rsp>>

(* SetEvents, one event at a time; a type left out is Normal.              *)
Event == Decoded(events)[pos]
TypeOf(e) == IF "type" \in DOMAIN e THEN e.type ELSE "Normal"

\* Mutant: the helper returns its error without a Fatal result.
SilentEvent ==
  /\ at = "events" /\ pos <= events.len
  /\ IF TypeOf(Event) \notin EventTypes
       THEN at' = "failed" /\ UNCHANGED <<pos, rsp>>
       ELSE /\ rsp' = [rsp EXCEPT !.results = Append(@, TypeOf(Event))]
            /\ pos' = pos + 1
            /\ UNCHANGED at
  /\ UNCHANGED vars

SetEvent ==
  /\ at = "events" /\ pos <= events.len
  /\ IF TypeOf(Event) \notin EventTypes
       THEN ReturnFatal(rsp)
       ELSE /\ rsp' = [rsp EXCEPT !.results = Append(@, TypeOf(Event))]
            /\ pos' = pos + 1
            /\ UNCHANGED at
  /\ UNCHANGED vars

EventsSetAll ==
  /\ pos > events.len
  /\ Goes("events", "context")
  /\ UNCHANGED <<vars, pos, rsp>>

-----------------------------------------------------------------------------
(* The context and the desired state.                                      *)

(* MergeContext merges leaf by leaf into the context of the request.  When *)
(* a value cannot be converted, some keys may have been set before it.     *)
SetContext ==
  /\ \/ /\ Goes("context", "xr")
        /\ rsp' = [rsp EXCEPT !.context = IF context = Nothing THEN @
                                            ELSE Graft(context, request.context)]
        /\ UNCHANGED pos
     \/ /\ at = "context" /\ context # Nothing
        /\ \E keys \in SUBSET Tops(context) :
             LET merged == Restrict(context, Under(keys, context))
             IN ReturnFatal([rsp EXCEPT !.context = Graft(merged, @)])
  /\ UNCHANGED vars

SetXR ==
  /\ \/ /\ Goes("xr", "composed")
        /\ rsp' = [rsp EXCEPT !.xr = dxr, !.connection = connection]
        /\ UNCHANGED pos
     \/ at = "xr" /\ ReturnFatal(rsp)
  /\ UNCHANGED vars

(* SetDesiredComposedResources converts and sets one resource after the    *)
(* other, in any order: a failure leaves some of them set.                 *)
SetComposed ==
  /\ \/ /\ Goes("composed", "complete")
        /\ rsp' = [rsp EXCEPT !.desired = Onto(desired, @)]
        /\ UNCHANGED pos
     \/ /\ at = "composed"
        /\ \E S \in SUBSET DOMAIN desired :
             /\ S # DOMAIN desired
             /\ ReturnFatal([rsp EXCEPT !.desired = Onto(Restrict(desired, S), @)])
  /\ UNCHANGED vars

RNext ==
  \/ Render
  \/ Process
  \/ ProcessFails
  \/ SetRequirements
  \/ SetCondition
  \/ ConditionsSetAll
  \/ SetEvent
  \/ EventsSetAll
  \/ SetContext
  \/ SetXR
  \/ SetComposed

RSpec == RInit /\ [][RNext]_rvars

-----------------------------------------------------------------------------
(* Properties.                                                             *)

(* The type invariant of the response and of what it is made from.         *)
RTypeOK ==
  /\ stage \in {"objects", "patch", "ready", "done", "error"}
  /\ next \in 1 .. Len(data) + 1
  /\ \A n \in DOMAIN desired : desired[n].ready \in ReadyValues \cup {""}
  /\ \A n \in DOMAIN patches : patches[n] # {}
  /\ at \in {"render", "process", "conditions", "events", "context", "xr",
             "composed", "complete", "failed"}
  /\ pos \in Nat
  /\ ToSet(rsp.results) \subseteq EventTypes \cup {"Fatal"}

(* The handler returns no gRPC error, so that a call which ends early must *)
(* say so with a Fatal result, once and last, and one that ends well must  *)
(* have none: Crossplane would apply half of the state, or none of it.     *)
EarlyReturnsAreFatal ==
  LET fatal == {i \in DOMAIN rsp.results : rsp.results[i] = "Fatal"}
  IN fatal = IF at = "failed" THEN {Len(rsp.results)} ELSE {}

(* A call that fails before the desired state is written passes on the XR  *)
(* and the resources that earlier functions desired as it got them,        *)
(* whatever of them ProcessResources had already merged or patched when it *)
(* met the error.  Connection details it does not: if the request has any, *)
(* those of all objects taken before the error are among them; if it has   *)
(* none, neither has the response.                                         *)
FailureKeepsDesired ==
  [][at' = "failed" /\ at \notin {"xr", "composed"} =>
       /\ rsp'.desired = request.desired
       /\ rsp'.xr = request.xr
       /\ IF target = "Default" /\ Shared
            THEN LastDetails(rsp'.connection)
            ELSE rsp'.connection = request.connection]_rvars

(* A call that ends well hands over everything that was computed, one      *)
(* result per event in their order.                                        *)
CompleteCarriesAll ==
  at = "complete" =>
    /\ rsp.desired = desired
    /\ rsp.xr = dxr /\ rsp.connection = connection
    /\ rsp.extra = extra /\ rsp.required = required
    /\ rsp.results = [i \in 1 .. events.len |-> TypeOf(Decoded(events)[i])]
    /\ \A p \in DOMAIN context : rsp.context[p] = context[p]
    /\ \A p \in DOMAIN request.context \ DOMAIN context :
         ~Near(p, DOMAIN context) => rsp.context[p] = request.context[p]

(* Crossplane applies the conditions of a response in order.  Of each type *)
(* it ends up with the last one that was forced, or the first when none    *)
(* after it was, and with none Crossplane keeps for itself.                *)
ForceDecides ==
  at \in {"events", "complete"} =>
    LET cs       == Decoded(conditions)
        of(s, t) == {i \in DOMAIN s : s[i].type = t}
        wins(t)  == Max({Min(of(cs, t))} \cup {i \in of(cs, t) : Forced(cs[i])})
        types    == {c.type : c \in ToSet(cs)}
    IN /\ types \cap Reserved = {}
       /\ ConditionsSet = types
       /\ \A t \in types :
            rsp.conditions[Max(of(rsp.conditions, t))] = cs[wins(t)]
=============================================================================
