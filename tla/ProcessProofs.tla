--------------------------- MODULE ProcessProofs ---------------------------
(***************************************************************************)
(* Theorems about ProcessResources, for every set of requests and outputs: *)
(* what KCL returns arrives, and what earlier functions desired, the XR's  *)
(* spec and the other requirements survive it.                             *)
(***************************************************************************)
EXTENDS ProcessResources, WellFoundedInduction, TLAPS

(* The arguments of ProcessResources stay what they are.                   *)
LEMMA RequestStays == [Next]_vars => request' = request
BY DEF Next, vars, SetDataOnXR, AddResource, MatchResources,
       PatchDesired, Apply, ToReady, ReadyAnnotation, PatchStatus, ConnectionDetails,
       ExtraResources, RequiredResources, Conditions, Events, Context,
       SetDesired, RejectObject, Finish, Fail, Takes

-----------------------------------------------------------------------------
(* The smallest and the greatest index of a set.                           *)
LEMMA LeastExists ==
  ASSUME NEW S \in SUBSET Nat, S # {}
  PROVE  Min(S) \in S /\ \A k \in S : Min(S) <= k
<1>1. PICK m \in S : \A k \in S : ~(<<k, m>> \in OpToRel(<, Nat))
  BY NatLessThanWellFounded, WFMin
<1>2. ASSUME NEW k \in S
      PROVE  m <= k
  <2>1. ~(k < m)
    BY <1>1 DEF OpToRel
  <2> QED
    BY <2>1
<1> QED
  BY <1>2 DEF Min

LEMMA GreatestIs ==
  ASSUME NEW S \in SUBSET Nat, NEW m \in S, \A k \in S : k <= m
  PROVE  Max(S) = m
<1>1. \A x \in S : (\A y \in S : x >= y) => x = m
  OBVIOUS
<1> QED
  BY <1>1 DEF Max

-----------------------------------------------------------------------------
(* Objects that give fields, one after the other.                          *)

(* Tree new holds what the objects of indices A, in their order, leave of  *)
(* old.                                                                    *)
Leaves(new, old, A) ==
  /\ DOMAIN new = Fields(A, old)
  /\ \A x \in DOMAIN new : new[x] \in Contents(A, old, x)

(* f holds the fields that object i gives.                                 *)
Given(f, i) == DOMAIN f = Gives(i) /\ \A x \in DOMAIN f : f[x] \in Says(i, x)

LEMMA GraftIs ==
  ASSUME NEW f, NEW old, NEW new, new = Graft(f, old)
  PROVE  /\ \A x : x \in DOMAIN new <=>
                  \/ x \in DOMAIN f
                  \/ x \in DOMAIN old /\ ~Near(x, DOMAIN f)
         /\ \A x \in DOMAIN f : new[x] = f[x]
         /\ \A x \in DOMAIN new \ DOMAIN f : new[x] = old[x]
BY DEF Graft, Onto, Drop, Restrict

LEMMA NothingLeft ==
  ASSUME NEW old
  PROVE  Leaves(old, old, {})
BY DEF Leaves, Fields, Contents, Givers, Replaced

(* One more object, the last of all, that gives fields.                    *)
LEMMA LeavesMore ==
  ASSUME NEW A \in SUBSET Nat, NEW i \in Nat, \A a \in A : a < i,
         NEW old, NEW cur, Leaves(cur, old, A), NEW f, Given(f, i)
  PROVE  Leaves(Graft(f, cur), old, A \cup {i})
<1>0. PICK B, new : B = A \cup {i} /\ new = Graft(f, cur)
  OBVIOUS
<1>1. /\ DOMAIN f = Gives(i)
      /\ \A x \in Gives(i) : f[x] \in Says(i, x)
  BY DEF Given
<1>2. /\ \A x : x \in DOMAIN new <=>
               \/ x \in Gives(i)
               \/ x \in DOMAIN cur /\ ~Near(x, Gives(i))
      /\ \A x \in Gives(i) : new[x] \in Says(i, x)
      /\ \A x \in DOMAIN new \ Gives(i) : new[x] = cur[x]
  BY <1>0, <1>1, GraftIs
<1>3. ASSUME NEW x \in Gives(i)
      PROVE  /\ Givers(B, x) # {} /\ Max(Givers(B, x)) = i
             /\ ~Replaced(B, x)
  <2>1. Givers(B, x) \in SUBSET Nat
    BY <1>0 DEF Givers
  <2>2. i \in Givers(B, x)
    BY <1>0, <1>3 DEF Givers
  <2>3. \A k \in B : k <= i
    BY <1>0
  <2>4. \A k \in Givers(B, x) : k <= i
    BY <2>3 DEF Givers
  <2>5. Max(Givers(B, x)) = i
    BY <2>1, <2>2, <2>4, GreatestIs
  <2>6. \A k \in B : ~(i < k)
    BY <1>0
  <2> QED
    BY <2>2, <2>5, <2>6 DEF Replaced
<1>4. ASSUME NEW x, x \notin Gives(i)
      PROVE  /\ Givers(B, x) = Givers(A, x)
             /\ Replaced(B, x) <=> Replaced(A, x) \/ Near(x, Gives(i))
  <2>1. Givers(B, x) = Givers(A, x)
    BY <1>0, <1>4 DEF Givers
  <2>2. \A k \in Givers(A, x) : k < i
    BY DEF Givers
  <2> QED
    BY <1>0, <2>1, <2>2 DEF Replaced
<1>5. /\ DOMAIN cur = Fields(A, old)
      /\ \A x \in DOMAIN cur : cur[x] \in Contents(A, old, x)
  BY DEF Leaves
<1>6. /\ \A x : x \in Fields(A, old) <=>
               /\ x \in DOMAIN old \/ \E k \in A : x \in Gives(k)
               /\ ~Replaced(A, x)
      /\ \A x : x \in Fields(B, old) <=>
               /\ x \in DOMAIN old \/ \E k \in B : x \in Gives(k)
               /\ ~Replaced(B, x)
  BY DEF Fields
<1>7. ASSUME NEW x
      PROVE  x \in DOMAIN new <=> x \in Fields(B, old)
  <2>1. CASE x \in Gives(i)
    BY <1>0, <1>2, <1>3, <1>6, <2>1
  <2>2. CASE x \notin Gives(i)
    <3>1. (\E k \in B : x \in Gives(k)) <=> \E k \in A : x \in Gives(k)
      BY <1>0, <2>2
    <3> QED
      BY <1>2, <1>4, <1>5, <1>6, <2>2, <3>1
  <2> QED
    BY <2>1, <2>2
<1>8. ASSUME NEW x \in DOMAIN new
      PROVE  new[x] \in Contents(B, old, x)
  <2>1. CASE x \in Gives(i)
    BY <1>2, <1>3, <2>1 DEF Contents
  <2>2. CASE x \notin Gives(i)
    BY <1>2, <1>4, <1>5, <1>8, <2>2 DEF Contents
  <2> QED
    BY <2>1, <2>2
<1>9. DOMAIN new = Fields(B, old)
  <2>1. \A x : x \in DOMAIN new <=> x \in Fields(B, old)
    BY <1>7
  <2> QED
    BY <2>1
<1> QED
  BY <1>0, <1>8, <1>9 DEF Leaves

(* One more object that gives none.                                        *)
LEMMA LeavesSame ==
  ASSUME NEW A, NEW i, Gives(i) = {}, NEW old, NEW cur, Leaves(cur, old, A)
  PROVE  Leaves(cur, old, A \cup {i})
<1>1. \A x : Givers(A \cup {i}, x) = Givers(A, x)
  BY DEF Givers
<1>2. \A x : ~Near(x, Gives(i))
  BY DEF Near
<1>3. \A x : Replaced(A \cup {i}, x) <=> Replaced(A, x)
  BY <1>1, <1>2 DEF Replaced
<1>4. UNION {Gives(k) : k \in A \cup {i}} = UNION {Gives(k) : k \in A}
  OBVIOUS
<1>5. Fields(A \cup {i}, old) = Fields(A, old)
  BY <1>3, <1>4 DEF Fields
<1>6. \A x : Contents(A \cup {i}, old, x) = Contents(A, old, x)
  BY <1>1 DEF Contents
<1> QED
  BY <1>5, <1>6 DEF Leaves

(* SetData grafts what is left of an object at the paths it is written to. *)
LEMMA SetDataGrafts ==
  ASSUME NEW b, NEW skip, NEW old, NEW new \in SetData(b, skip, old)
  PROVE  \E f : /\ DOMAIN f = Topmost(Paths(b, skip))
                /\ \A x \in DOMAIN f : f[x] \in Values(b, x)
                /\ new = Graft(f, old)
<1> DEFINE top == Topmost(Paths(b, skip))
<1>1. PICK f \in [top -> Range(b)] : /\ \A x \in top : f[x] \in Values(b, x)
                                     /\ new = Graft(f, old)
  BY DEF SetData
<1> HIDE DEF top
<1>2. DOMAIN f = top
  OBVIOUS
<1> QED
  BY <1>1, <1>2 DEF top

(* What objects give is in the arguments, which stay what they are.        *)
LEMMA FieldsStay ==
  ASSUME request' = request, NEW B, NEW old, NEW x
  PROVE  /\ Fields(B, old)' = Fields(B, old)
         /\ Contents(B, old, x)' = Contents(B, old, x)
<1>1. data' = data /\ target' = target
  BY DEF data, target
<1>2. \A i, p : Gives(i)' = Gives(i) /\ Says(i, p)' = Says(i, p)
  BY <1>1 DEF Gives, Says
<1>3. \A p : Givers(B, p)' = Givers(B, p)
  BY <1>2 DEF Givers
<1>4. \A p : Replaced(B, p)' <=> Replaced(B, p)
  BY <1>2, <1>3 DEF Replaced
<1>5. UNION {Gives(i)' : i \in B} = UNION {Gives(i) : i \in B}
  BY <1>2
<1>6. Fields(B, old)' = Fields(B, old)
  BY <1>4, <1>5 DEF Fields
<1> QED
  BY <1>2, <1>3, <1>6 DEF Contents

-----------------------------------------------------------------------------
(* What the actions do to the XR: nothing, or all that one more object     *)
(* gives it.                                                               *)
LEMMA XRWrites ==
  ASSUME [Next]_vars
  PROVE  \/ next' = next /\ dxr' = dxr
         \/ /\ next' = next + 1
            /\ \/ Gives(next) = {} /\ dxr' = dxr
               \/ \E f : Given(f, next) /\ dxr' = Graft(f, dxr)
<1>1. CASE SetDataOnXR
  <2>1. CASE Fail
    BY <2>1 DEF Fail
  <2>2. CASE ~Fail
    <3>1. /\ target = "XR" /\ next' = next + 1
          /\ dxr' \in SetData(data[next].body, {}, dxr)
      BY <1>1, <2>2 DEF SetDataOnXR, Object
    <3>2. PICK f : /\ DOMAIN f = Topmost(Paths(data[next].body, {}))
                   /\ \A x \in DOMAIN f : f[x] \in Values(data[next].body, x)
                   /\ dxr' = Graft(f, dxr)
      BY <3>1, SetDataGrafts
    <3>3. Given(f, next)
      BY <3>1, <3>2 DEF Given, Gives, Says
    <3> QED
      BY <3>1, <3>2, <3>3
  <2> QED
    BY <2>1, <2>2
<1>2. CASE PatchStatus
  <2> DEFINE f == StatusOf(Object.body)
  <2>1. /\ target = "Default" /\ data[next].kind = "XR"
        /\ next' = next + 1 /\ dxr' = Graft(f, dxr)
    BY <1>2 DEF PatchStatus, Takes, Object
  <2>2. Given(f, next)
    <3>1. /\ DOMAIN f = {p \in DOMAIN data[next].body : Head(p) = "status"}
          /\ \A p \in DOMAIN f : f[p] = data[next].body[p]
      BY DEF StatusOf, Restrict, Object
    <3> HIDE DEF f
    <3> QED
      BY <2>1, <3>1 DEF Given, Gives, Says
  <2> QED
    BY <2>1, <2>2
<1>3. CASE AddResource
  BY <1>3 DEF AddResource, Gives, Fail
<1>4. ASSUME NEW kind, Takes(kind), kind # "XR"
      PROVE  next' = next + 1 /\ Gives(next) = {}
  BY <1>4 DEF Takes, Gives, Object
<1>5. CASE \/ ConnectionDetails \/ ExtraResources \/ RequiredResources
           \/ Conditions \/ Events \/ Context \/ SetDesired
  BY <1>4, <1>5 DEF ConnectionDetails, ExtraResources, RequiredResources,
     Conditions, Events, Context, SetDesired
<1>6. CASE \/ MatchResources \/ ToReady \/ RejectObject \/ Finish
           \/ \E n \in DOMAIN patches : PatchDesired(n)
           \/ \E n \in DOMAIN desired : ReadyAnnotation(n)
           \/ UNCHANGED vars
  BY <1>6 DEF MatchResources, ToReady, RejectObject, Finish, PatchDesired,
     Apply, ReadyAnnotation, Fail, vars
<1> QED
  BY <1>1, <1>2, <1>3, <1>5, <1>6 DEF Next

XRInv == next \in Nat \ {0} /\ XRLands

LEMMA XRInitially == Init => XRInv
<1> SUFFICES ASSUME Init PROVE XRInv
  OBVIOUS
<1>1. next = 1 /\ dxr = request.xr /\ 1 .. next - 1 = {}
  BY DEF Init
<1> QED
  BY <1>1, NothingLeft DEF XRInv, XRLands, Leaves

LEMMA XRStep == XRInv /\ [Next]_vars => XRInv'
<1> SUFFICES ASSUME XRInv, [Next]_vars PROVE XRInv'
  OBVIOUS
<1> DEFINE A == 1 .. next - 1
<1>1. /\ request' = request
      /\ \A B, old, x : /\ Fields(B, old)' = Fields(B, old)
                        /\ Contents(B, old, x)' = Contents(B, old, x)
  BY RequestStays, FieldsStay
<1>2. next \in Nat \ {0} /\ Leaves(dxr, request.xr, A)
  BY DEF XRInv, XRLands, Leaves
<1>3. next' = next + 1 => 1 .. next' - 1 = A \cup {next}
  BY <1>2
<1>4. Leaves(dxr', request.xr, 1 .. next' - 1)
  <2>1. A \in SUBSET Nat /\ \A a \in A : a < next
    BY <1>2
  <2>2. CASE next' = next /\ dxr' = dxr
    BY <1>2, <2>2
  <2>3. CASE next' = next + 1 /\ Gives(next) = {} /\ dxr' = dxr
    BY <1>2, <1>3, <2>3, LeavesSame
  <2>4. ASSUME next' = next + 1, NEW f, Given(f, next), dxr' = Graft(f, dxr)
        PROVE  Leaves(dxr', request.xr, 1 .. next' - 1)
    BY <1>2, <1>3, <2>1, <2>4, LeavesMore
  <2> QED
    BY <2>2, <2>3, <2>4, XRWrites
<1>5. next' \in Nat \ {0}
  BY <1>2, XRWrites
<1> QED
  BY <1>1, <1>4, <1>5 DEF XRInv, XRLands, Leaves

(* Each field of the XR is what the last object that gives it says, or     *)
(* else what it was, unless one above or below it was given since; under   *)
(* the target XR a field is given at the path its leaf is written to, and  *)
(* under Default only fields of the status are (res.go:303-392, 404-409,   *)
(* 479-496).                                                               *)
THEOREM XRAllLands == Spec => []XRLands
<1>1. XRInv => XRLands
  BY DEF XRInv
<1> QED
  BY <1>1, XRInitially, XRStep, PTL DEF Spec

-----------------------------------------------------------------------------
(* What the actions do to the requirements, the data and the position.     *)
LEMMA RequirementWrites ==
  ASSUME [Next]_vars
  PROVE  \/ next' = next /\ extra' = extra /\ required' = required
         \/ /\ next' = next + 1
            /\ target # "Default"
            /\ extra' = extra /\ required' = required
         \/ /\ next' = next + 1
            /\ Object.kind \notin {"ExtraResources", "RequiredResources"}
            /\ extra' = extra /\ required' = required
         \/ /\ next' = next + 1
            /\ Object.kind = "ExtraResources" /\ ~Clash(Object.body, extra)
            /\ extra' = Onto(Selectors(Object.body), extra) /\ required' = required
         \/ /\ next' = next + 1
            /\ Object.kind = "RequiredResources"
            /\ ~Clash(Object.body, required)
            /\ required' = Onto(Selectors(Object.body), required) /\ extra' = extra
BY DEF Next, vars, metaVars, target, SetDataOnXR, AddResource, MatchResources,
       PatchDesired, Apply, ToReady, ReadyAnnotation, PatchStatus,
       ConnectionDetails, ExtraResources, RequiredResources, Conditions,
       Events, Context, SetDesired, RejectObject, Finish, Fail, Takes

Carried(f, b) ==
  DOMAIN b \subseteq DOMAIN f /\ \A k \in DOMAIN b : f[k] = Selector(b[k])

(* The maps hold the keys of the objects taken.                            *)
RequirementsInv ==
  /\ next \in Nat \ {0}
  /\ target = "Default" =>
       \A i \in 1 .. next - 1 :
         /\ data[i].kind = "ExtraResources" => Carried(extra, data[i].body)
         /\ data[i].kind = "RequiredResources" =>
              Carried(required, data[i].body)

LEMMA RequirementsInitially == Init => RequirementsInv
BY DEF Init, RequirementsInv

LEMMA RequirementsStep == RequirementsInv /\ [Next]_vars => RequirementsInv'
<1> SUFFICES ASSUME RequirementsInv, [Next]_vars PROVE RequirementsInv'
  OBVIOUS
<1>2. data' = data /\ target' = target
  BY RequestStays DEF data, target
<1> DEFINE Held(e, r, n) ==
      target = "Default" =>
        \A i \in 1 .. n - 1 :
          /\ data[i].kind = "ExtraResources" => Carried(e, data[i].body)
          /\ data[i].kind = "RequiredResources" => Carried(r, data[i].body)
<1>3. next \in Nat \ {0} /\ Held(extra, required, next)
  BY DEF RequirementsInv
<1>4. SUFFICES next' \in Nat \ {0} /\ Held(extra', required', next')
  BY <1>2 DEF RequirementsInv
<1>5. CASE next' = next /\ extra' = extra /\ required' = required
  BY <1>3, <1>5
<1>6. CASE next' = next + 1 /\ target # "Default"
  BY <1>3, <1>6
<1>7. CASE /\ next' = next + 1
           /\ Object.kind \notin {"ExtraResources", "RequiredResources"}
           /\ extra' = extra /\ required' = required
  BY <1>3, <1>7 DEF Object
<1>8. CASE /\ next' = next + 1
           /\ Object.kind = "ExtraResources" /\ ~Clash(Object.body, extra)
           /\ extra' = Onto(Selectors(Object.body), extra) /\ required' = required
  <2>3. /\ DOMAIN extra' = DOMAIN Object.body \cup DOMAIN extra
        /\ \A k \in DOMAIN extra : extra'[k] = extra[k]
        /\ \A k \in DOMAIN Object.body : extra'[k] = Selector(Object.body[k])
    BY <1>8 DEF Onto, Clash, Selectors
  <2>1. \A b : Carried(extra, b) => Carried(extra', b)
    BY <2>3 DEF Carried
  <2>2. Carried(extra', data[next].body)
    BY <2>3 DEF Carried, Object
  <2> QED BY <1>3, <1>8, <2>1, <2>2 DEF Object
<1>9. CASE /\ next' = next + 1
           /\ Object.kind = "RequiredResources"
           /\ ~Clash(Object.body, required)
           /\ required' = Onto(Selectors(Object.body), required) /\ extra' = extra
  <2>3. /\ DOMAIN required' = DOMAIN Object.body \cup DOMAIN required
        /\ \A k \in DOMAIN required : required'[k] = required[k]
        /\ \A k \in DOMAIN Object.body : required'[k] = Selector(Object.body[k])
    BY <1>9 DEF Onto, Clash, Selectors
  <2>1. \A b : Carried(required, b) => Carried(required', b)
    BY <2>3 DEF Carried
  <2>2. Carried(required', data[next].body)
    BY <2>3 DEF Carried, Object
  <2> QED BY <1>3, <1>9, <2>1, <2>2 DEF Object
<1> QED BY <1>5, <1>6, <1>7, <1>8, <1>9, RequirementWrites

(* What the actions do to the connection details and the context.          *)
LEMMA MetaWrites ==
  ASSUME [Next]_vars, target = "Default"
  PROVE  \/ next' = next /\ connection' = connection /\ context' = context
         \/ /\ next' = next + 1
            /\ Object.wellFormed =>
                 Object.kind \notin {"CompositeConnectionDetails", "Context"}
            /\ connection' = connection /\ context' = context
         \/ /\ next' = next + 1
            /\ Object.kind = "CompositeConnectionDetails" /\ Object.wellFormed
            /\ connection' = Onto(Object.body, connection)
            /\ context' = context
         \/ /\ next' = next + 1
            /\ Object.kind = "Context" /\ Object.wellFormed
            /\ connection' = connection
            /\ context' = Onto(Object.body,
                              Drop(context, Under(Tops(Object.body), context)))
BY DEF Next, vars, metaVars, target, SetDataOnXR, AddResource, MatchResources,
       PatchDesired, Apply, ToReady, ReadyAnnotation, PatchStatus,
       ConnectionDetails, ExtraResources, RequiredResources, Conditions,
       Events, Context, SetDesired, RejectObject, Finish, Fail, Takes

(* An object that is taken comes after all that have been.                 *)
LEMMA TakenGrows ==
  ASSUME next \in Nat \ {0}, data' = data, NEW kind
  PROVE  /\ Taken(kind) \in SUBSET Nat
         /\ \A i \in Taken(kind) : i < next
         /\ next' = next => Taken(kind)' = Taken(kind)
         /\ next' = next + 1 =>
              Taken(kind)' = IF Object.kind = kind /\ Object.wellFormed
                               THEN Taken(kind) \cup {next} ELSE Taken(kind)
<1>1. next' = next + 1 => 1 .. next' - 1 = (1 .. next - 1) \cup {next}
  OBVIOUS
<1>2. next' = next + 1 =>
        Taken(kind)' = {i \in (1 .. next - 1) \cup {next} :
                          data[i].kind = kind /\ data[i].wellFormed}
  BY <1>1 DEF Taken
<1> QED
  BY <1>2 DEF Taken, Object

MetaInv == target = "Default" => LastDetails(connection) /\ LastContext

LEMMA MetaInitially == Init => MetaInv
<1> SUFFICES ASSUME Init PROVE MetaInv
  OBVIOUS
<1>1. \A kind : Taken(kind) = {}
  BY DEF Init, Taken
<1>2. \A k : WithKey(k) = {}
  BY <1>1 DEF WithKey
<1> QED
  BY <1>1, <1>2 DEF Init, MetaInv, LastDetails, LastContext, Nothing

(* A key of the details of one more object is the one it gives.            *)
LEMMA DetailsTaken ==
  ASSUME next \in Nat \ {0}, request' = request, target = "Default", MetaInv,
         next' = next + 1,
         Object.kind = "CompositeConnectionDetails", Object.wellFormed,
         connection' = Onto(Object.body, connection), context' = context
  PROVE  MetaInv'
<1> DEFINE b == Object.body
           D == Taken("CompositeConnectionDetails")
<1>1. data' = data /\ target' = target
  BY DEF data, target
<1>2. /\ D \in SUBSET Nat
      /\ \A i \in D : i < next
      /\ D' = D \cup {next}
      /\ Taken("Context")' = Taken("Context")
  BY <1>1, TakenGrows
<1>3. /\ DOMAIN connection' = DOMAIN b \cup DOMAIN connection
      /\ \A k \in DOMAIN b : connection'[k] = b[k]
      /\ \A k \in DOMAIN connection \ DOMAIN b : connection'[k] = connection[k]
  BY DEF Onto
<1>4. data[next].body = b
  BY DEF Object
<1>5. ASSUME NEW k \in DOMAIN b
      PROVE  WithKey(k)' # {} /\ Max(WithKey(k)') = next
  <2>1. WithKey(k)' \in SUBSET Nat /\ next \in WithKey(k)'
    BY <1>1, <1>2, <1>4, <1>5 DEF WithKey
  <2>2. \A i \in WithKey(k)' : i <= next
    BY <1>2 DEF WithKey
  <2> QED
    BY <2>1, <2>2, GreatestIs
<1>6. ASSUME NEW k, k \notin DOMAIN b
      PROVE  WithKey(k)' = WithKey(k)
  BY <1>1, <1>2, <1>4, <1>6 DEF WithKey
<1>7. /\ DOMAIN connection = DOMAIN request.connection \cup
           UNION {DOMAIN data[i].body : i \in D}
      /\ \A k \in DOMAIN connection :
           connection[k] = IF WithKey(k) = {} THEN request.connection[k]
                           ELSE data[Max(WithKey(k))].body[k]
  BY DEF MetaInv, LastDetails
<1> HIDE DEF b, D
<1>8. DOMAIN connection' = DOMAIN request.connection \cup
        UNION {DOMAIN data[i].body : i \in D'}
  BY <1>2, <1>3, <1>4, <1>7
<1>9. ASSUME NEW k \in DOMAIN connection'
      PROVE  connection'[k] = IF WithKey(k)' = {} THEN request.connection[k]
                              ELSE data[Max(WithKey(k)')].body[k]
  <2>1. CASE k \in DOMAIN b
    BY <1>3, <1>4, <1>5, <2>1
  <2>2. CASE k \notin DOMAIN b
    BY <1>3, <1>6, <1>7, <1>9, <2>2
  <2> QED
    BY <2>1, <2>2
<1>10. \A t : WithTop(t)' = WithTop(t)
  BY <1>1, <1>2 DEF WithTop
<1>11. LastContext'
  BY <1>1, <1>2, <1>10 DEF MetaInv, LastContext
<1>12. LastDetails(connection)'
  BY <1>1, <1>8, <1>9 DEF LastDetails, D
<1> QED
  BY <1>11, <1>12 DEF MetaInv

(* A top-level field of one more Context object is all it gives of it.     *)
LEMMA ContextTaken ==
  ASSUME next \in Nat \ {0}, request' = request, target = "Default", MetaInv,
         next' = next + 1, Object.kind = "Context", Object.wellFormed,
         connection' = connection,
         context' = Onto(Object.body,
                         Drop(context, Under(Tops(Object.body), context)))
  PROVE  MetaInv'
<1> DEFINE b    == Object.body
           C    == Taken("Context")
           rest == Drop(context, Under(Tops(b), context))
<1>1. data' = data /\ target' = target
  BY DEF data, target
<1>2. /\ C \in SUBSET Nat
      /\ \A i \in C : i < next
      /\ C' = C \cup {next}
      /\ Taken("CompositeConnectionDetails")' = Taken("CompositeConnectionDetails")
  BY <1>1, TakenGrows
<1>3. /\ DOMAIN rest = {p \in DOMAIN context : Head(p) \notin Tops(b)}
      /\ \A p \in DOMAIN rest : rest[p] = context[p]
  BY DEF Drop, Restrict, Under
<1>4. \A p \in DOMAIN b : Head(p) \in Tops(b)
  BY DEF Tops
<1>5. data[next].body = b
  BY DEF Object
<1>6. ASSUME NEW t \in Tops(b)
      PROVE  Max(WithTop(t)') = next
  <2>1. WithTop(t)' \in SUBSET Nat /\ next \in WithTop(t)'
    BY <1>1, <1>2, <1>5, <1>6 DEF WithTop
  <2>2. \A i \in WithTop(t)' : i <= next
    BY <1>2 DEF WithTop
  <2> QED
    BY <2>1, <2>2, GreatestIs
<1>7. ASSUME NEW t, t \notin Tops(b)
      PROVE  WithTop(t)' = WithTop(t)
  BY <1>1, <1>2, <1>5, <1>7 DEF WithTop
<1>8. /\ DOMAIN context =
           UNION {{p \in DOMAIN data[i].body : Max(WithTop(Head(p))) = i} : i \in C}
      /\ \A p \in DOMAIN context :
           context[p] = data[Max(WithTop(Head(p)))].body[p]
  BY DEF MetaInv, LastContext
<1>9. context' = Onto(b, rest)
  OBVIOUS
<1> HIDE DEF b, C, rest
<1>10. /\ DOMAIN context' = DOMAIN b \cup DOMAIN rest
       /\ \A p \in DOMAIN b : context'[p] = b[p]
       /\ \A p \in DOMAIN rest : context'[p] = context[p]
  BY <1>3, <1>4, <1>9 DEF Onto
<1>11. ASSUME NEW p
       PROVE  p \in DOMAIN context' <=>
                \E i \in C' : p \in DOMAIN data[i].body /\ Max(WithTop(Head(p))') = i
  <2>1. CASE Head(p) \in Tops(b)
    BY <1>2, <1>3, <1>5, <1>6, <1>10, <2>1
  <2>2. CASE Head(p) \notin Tops(b)
    <3>1. p \in DOMAIN context' <=> p \in DOMAIN context
      BY <1>3, <1>4, <1>10, <2>2
    <3>2. p \notin DOMAIN data[next].body
      BY <1>4, <1>5, <2>2
    <3> QED
      BY <1>2, <1>7, <1>8, <2>2, <3>1, <3>2
  <2> QED
    BY <2>1, <2>2
<1>12. DOMAIN context' =
         UNION {{p \in DOMAIN data[i].body : Max(WithTop(Head(p))') = i} : i \in C'}
  <2> DEFINE last(p) == Max(WithTop(Head(p))')
             of(i)   == {p \in DOMAIN data[i].body : last(p) = i}
  <2>1. \A p : p \in DOMAIN context' <=> \E i \in C' : p \in of(i)
    BY <1>11
  <2> HIDE DEF of
  <2>2. DOMAIN context' = UNION {of(i) : i \in C'}
    BY <2>1
  <2> QED
    BY <2>2 DEF of
<1>13. ASSUME NEW p \in DOMAIN context'
       PROVE  context'[p] = data[Max(WithTop(Head(p))')].body[p]
  <2>1. CASE p \in DOMAIN b
    BY <1>4, <1>5, <1>6, <1>10, <2>1
  <2>2. CASE p \in DOMAIN rest
    BY <1>3, <1>7, <1>8, <1>10, <2>2
  <2> QED
    BY <1>10, <1>13, <2>1, <2>2
<1>14. \A k : WithKey(k)' = WithKey(k)
  BY <1>1, <1>2 DEF WithKey
<1>15. LastDetails(connection)'
  BY <1>1, <1>2, <1>14 DEF MetaInv, LastDetails
<1>16. LastContext'
  BY <1>1, <1>12, <1>13 DEF LastContext, C
<1> QED
  BY <1>15, <1>16 DEF MetaInv

LEMMA MetaStep == RequirementsInv /\ MetaInv /\ [Next]_vars => MetaInv'
<1> SUFFICES ASSUME RequirementsInv, MetaInv, [Next]_vars, target' = "Default"
             PROVE  MetaInv'
  BY DEF MetaInv
<1>1. /\ request' = request /\ data' = data /\ target = "Default"
      /\ next \in Nat \ {0}
  BY RequestStays DEF data, target, RequirementsInv
<1>2. ASSUME UNCHANGED <<connection, context>>,
             \/ next' = next
             \/ /\ next' = next + 1
                /\ Object.wellFormed =>
                     Object.kind \notin {"CompositeConnectionDetails", "Context"}
      PROVE  MetaInv'
  <2>1. \A kind \in {"CompositeConnectionDetails", "Context"} :
          Taken(kind)' = Taken(kind)
    BY <1>1, <1>2, TakenGrows
  <2>2. /\ \A k : WithKey(k)' = WithKey(k)
        /\ \A t : WithTop(t)' = WithTop(t)
    BY <1>1, <2>1 DEF WithKey, WithTop
  <2>3. LastDetails(connection)' /\ LastContext'
    BY <1>1, <1>2, <2>1, <2>2 DEF MetaInv, LastDetails, LastContext
  <2> QED
    BY <2>3 DEF MetaInv
<1> QED
  BY <1>1, <1>2, MetaWrites, DetailsTaken, ContextTaken

(* Objects of a meta kind add up, however many there are: no requirement   *)
(* replaces another, and each connection detail and each top-level field   *)
(* of the context is the one of the last object that has it                *)
(* (res.go:500-546).                                                       *)
THEOREM MetaAllLand == Spec => []MetaLand
<1>1. RequirementsInv /\ MetaInv => MetaLand
  <2> SUFFICES ASSUME RequirementsInv, MetaInv, target = "Default"
               PROVE  MetaLand
    BY DEF MetaLand
  <2>1. \A i \in 1 .. next - 1 :
          /\ data[i].kind = "ExtraResources" => Carried(extra, data[i].body)
          /\ data[i].kind = "RequiredResources" => Carried(required, data[i].body)
    BY DEF RequirementsInv
  <2>2. \A r : Selects(Selector(r), r) /\ NameDecides(Selector(r), r)
    BY DEF Selector, Selects, NameDecides
  <2> QED
    BY <2>1, <2>2 DEF MetaInv, MetaLand, Carried
<1> QED
  BY <1>1, RequirementsInitially, RequirementsStep, MetaInitially, MetaStep,
     PTL DEF Spec

-----------------------------------------------------------------------------
(* What the actions do to desired and to patches.                          *)
LEMMA DesiredWrites ==
  ASSUME [Next]_vars
  PROVE  \/ desired' = desired
         \/ /\ HasObject
            /\ target # "XR" /\ (target = "Default" => Object.kind = "Composed")
            /\ \E cd : desired' = Put(desired, NameOf(Object.body), cd)
         \/ desired' = Patchable
         \/ \E n \in DOMAIN patches :
              \E b : desired' = [desired EXCEPT ![n].body = b]
         \/ \E n \in DOMAIN desired :
              desired' = [desired EXCEPT ![n] = SetReady(@)]
BY DEF Next, vars, target, SetDataOnXR, AddResource, MatchResources,
       PatchDesired, Apply, ToReady, ReadyAnnotation, PatchStatus,
       ConnectionDetails, ExtraResources, RequiredResources, Conditions,
       Events, Context, SetDesired, RejectObject, Finish, Fail, Takes

LEMMA PatchWrites ==
  ASSUME [Next]_vars
  PROVE  \/ DOMAIN patches' \subseteq DOMAIN patches
         \/ /\ target \in {"PatchDesired", "PatchResources"}
            /\ DOMAIN patches' = {NameOf(o.body) : o \in ToSet(data)}
<1> SUFFICES ASSUME ~(DOMAIN patches' \subseteq DOMAIN patches)
             PROVE  /\ target \in {"PatchDesired", "PatchResources"}
                    /\ DOMAIN patches' = {NameOf(o.body) : o \in ToSet(data)}
  OBVIOUS
<1>1. \/ MatchResources
      \/ \E n \in DOMAIN patches : PatchDesired(n)
      \/ patches' = patches
  BY DEF Next, vars, target, SetDataOnXR, AddResource, ToReady,
         ReadyAnnotation, PatchStatus, ConnectionDetails, ExtraResources,
         RequiredResources, Conditions, Events, Context, SetDesired,
         RejectObject, Finish, Fail, Takes
<1>2. ASSUME NEW n \in DOMAIN patches, PatchDesired(n) PROVE FALSE
  BY <1>2 DEF PatchDesired, Apply, Fail, Drop, Restrict
<1>3. MatchResources
  BY <1>1, <1>2
<1> QED BY <1>3 DEF MatchResources, Fail

(* The ready annotation is consumed at once.                               *)
LEMMA SetReadyOnce == \A cd : SetReady(SetReady(cd)) = SetReady(cd)
BY DEF SetReady, Drop, Restrict

(* An object that is taken touches the resource of its name.               *)
KeptInv ==
  /\ request \in Requests
  /\ next \in Nat \ {0}
  /\ \A n \in DOMAIN patches : Naming(n) # {}
  /\ EarlierStateKept

LEMMA KeptInitially == Init => KeptInv
BY DEF Init, KeptInv, EarlierStateKept, Nothing

LEMMA KeptStep == KeptInv /\ [Next]_vars => KeptInv'
<1> SUFFICES ASSUME KeptInv, [Next]_vars PROVE KeptInv'
  OBVIOUS
<1>2. request' = request /\ data' = data /\ target' = target
  BY RequestStays DEF data, target
<1>3. \A n : Naming(n)' = Naming(n) /\ Touched(n)' = Touched(n)
  BY <1>2 DEF Naming, Composes, Touched, Bases
<1>4. data \in Seq(ToSet(data))
  BY RequestsAssumption DEF KeptInv, data
<1>5. next' \in Nat \ {0}
  BY RequirementWrites DEF KeptInv
<1>6. \A n \in DOMAIN patches' : Naming(n) # {}
  <2>1. CASE DOMAIN patches' \subseteq DOMAIN patches
    BY <2>1 DEF KeptInv
  <2>2. CASE /\ target \in {"PatchDesired", "PatchResources"}
             /\ DOMAIN patches' = {NameOf(o.body) : o \in ToSet(data)}
    BY <2>2 DEF Naming, Composes, ToSet
  <2> QED BY <2>1, <2>2, PatchWrites
<1> DEFINE Kept(d, n) ==
      /\ n \in DOMAIN d
      /\ ~Touched(n) => d[n] \in {request.desired[n], SetReady(request.desired[n])}
<1>7. \A n \in DOMAIN request.desired : Kept(desired, n)
  BY DEF KeptInv, EarlierStateKept
<1>8. ASSUME NEW n \in DOMAIN request.desired PROVE Kept(desired', n)
  <2>1. CASE desired' = desired
    BY <1>7, <2>1
  <2>2. ASSUME HasObject, target # "XR",
               target = "Default" => Object.kind = "Composed",
               NEW cd, desired' = Put(desired, NameOf(Object.body), cd)
        PROVE  Kept(desired', n)
    <3>1. next \in DOMAIN data
      BY <2>2, <1>4 DEF HasObject, KeptInv
    <3>2. Touched(NameOf(Object.body))
      BY <2>2, <3>1 DEF Touched, Naming, Composes, Object
    <3> QED BY <1>7, <2>2, <3>2 DEF Put
  <2>3. CASE desired' = Patchable
    <3>1. CASE target = "PatchResources"
      <4>1. \A m \in DOMAIN Bases : Touched(m)
        BY <3>1 DEF Touched
      <4> QED BY <1>7, <2>3, <3>1, <4>1 DEF Patchable, Onto
    <3> QED BY <1>7, <2>3, <3>1 DEF Patchable
  <2>4. ASSUME NEW m \in DOMAIN patches, NEW b,
               desired' = [desired EXCEPT ![m].body = b]
        PROVE  Kept(desired', n)
    <3>1. Touched(m)
      BY DEF KeptInv, Touched
    <3> QED BY <1>7, <2>4, <3>1
  <2>5. ASSUME NEW m \in DOMAIN desired,
               desired' = [desired EXCEPT ![m] = SetReady(@)]
        PROVE  Kept(desired', n)
    BY <1>7, <2>5, SetReadyOnce
  <2> QED BY <2>1, <2>2, <2>3, <2>4, <2>5, DesiredWrites
<1>9. ASSUME NEW n \in DOMAIN desired', n \notin DOMAIN request.desired
      PROVE  Touched(n)
  <2>1. n \in DOMAIN desired => Touched(n)
    BY <1>9 DEF KeptInv, EarlierStateKept
  <2>2. CASE desired' = desired
    BY <1>9, <2>1, <2>2
  <2>3. ASSUME HasObject, target # "XR",
               target = "Default" => Object.kind = "Composed",
               NEW cd, desired' = Put(desired, NameOf(Object.body), cd)
        PROVE  Touched(n)
    <3>1. next \in DOMAIN data
      BY <2>3, <1>4 DEF HasObject, KeptInv
    <3>2. Touched(NameOf(Object.body))
      BY <2>3, <3>1 DEF Touched, Naming, Composes, Object
    <3> QED BY <1>9, <2>1, <2>3, <3>2 DEF Put
  <2>4. CASE desired' = Patchable
    BY <1>9, <2>1, <2>4 DEF Patchable, Onto, Touched
  <2>5. ASSUME NEW m, NEW v, desired' = [desired EXCEPT ![m] = v]
        PROVE  Touched(n)
    BY <1>9, <2>1, <2>5
  <2> QED BY <2>2, <2>3, <2>4, <2>5, DesiredWrites
<1>10. EarlierStateKept'
  BY <1>2, <1>3, <1>8, <1>9 DEF EarlierStateKept
<1> QED BY <1>2, <1>3, <1>5, <1>6, <1>10 DEF KeptInv

(* What earlier functions of the pipeline desired is still desired, and    *)
(* unchanged where KCL does not name it, under every target and for every  *)
(* output.                                                                 *)
THEOREM EarlierStateIsKept == Spec => []EarlierStateKept
<1>1. KeptInv => EarlierStateKept
  BY DEF KeptInv
<1> QED BY <1>1, KeptInitially, KeptStep, PTL DEF Spec

-----------------------------------------------------------------------------
(* The steps, by what they do to the resources.                            *)
PatchTargets == {"PatchDesired", "PatchResources"}
Names == {NameOf(o.body) : o \in ToSet(data)}

(* A step of another target or kind.                                       *)
Skips ==
  /\ UNCHANGED <<request, desired, seen, patches, stage>>
  /\ \/ next' = next
     \/ HasObject /\ next' = next + 1 /\ ~Composes(next)

LEMMA StepKinds ==
  ASSUME [Next]_vars
  PROVE  \/ Fail
         \/ Skips
         \/ AddResource /\ ~Duplicate(Object.body)
         \/ SetDesired
         \/ MatchResources /\ Names \subseteq DOMAIN Patchable
         \/ \E n \in DOMAIN patches : PatchDesired(n) /\ ~Fail
         \/ ToReady
         \/ \E n \in DOMAIN desired :
              ReadyAnnotation(n) /\ ~BadReady(desired[n].body)
         \/ Finish
<1>1. CASE SetDataOnXR
  BY <1>1 DEF SetDataOnXR, Skips, Composes
<1>2. CASE AddResource
  BY <1>2 DEF AddResource
<1>3. CASE MatchResources
  BY <1>3 DEF MatchResources, Names
<1>5. ASSUME NEW n \in DOMAIN desired, ReadyAnnotation(n)
      PROVE  Fail \/ ~BadReady(desired[n].body)
  BY <1>5 DEF ReadyAnnotation
<1>6. ASSUME NEW kind, Takes(kind), kind # "Composed"
      PROVE  /\ UNCHANGED <<request, patches, stage>>
             /\ HasObject /\ next' = next + 1 /\ ~Composes(next)
  BY <1>6 DEF Takes, Composes, Object
<1>7. CASE \/ PatchStatus \/ ConnectionDetails \/ ExtraResources
           \/ RequiredResources \/ Conditions \/ Events \/ Context
  BY <1>6, <1>7 DEF PatchStatus, ConnectionDetails, ExtraResources,
     RequiredResources, Conditions, Events, Context, Skips
<1>8. CASE RejectObject
  BY <1>8 DEF RejectObject
<1>9. CASE UNCHANGED vars
  BY <1>9 DEF vars, Skips
<1> QED
  BY <1>1, <1>2, <1>3, <1>5, <1>7, <1>8, <1>9 DEF Next

-----------------------------------------------------------------------------
(* The types of the resources, and where in ProcessResources which target  *)
(* can be.                                                                 *)
IsResource(r) ==
  /\ r = [body |-> r.body, ready |-> r.ready]
  /\ r.ready \in ReadyValues \cup {""}

ResourcesType(d) ==
  /\ d = [n \in DOMAIN d |-> d[n]]
  /\ \A n \in DOMAIN d : IsResource(d[n])

StageInv ==
  /\ stage \in {"objects", "patch", "ready", "done", "error"}
  /\ next \in 1 .. Len(data) + 1
  /\ \A n \in DOMAIN patches : patches[n] # {}
  /\ stage = "patch" => target \in PatchTargets
  /\ stage = "ready" => target \in PatchTargets \cup {"Resources"}
  /\ stage \in {"ready", "done"} =>
       /\ target \in {"Default", "Resources"} => next > Len(data)
       /\ target \in PatchTargets => DOMAIN patches = {}
  /\ stage = "done" /\ target \in PatchTargets \cup {"Resources"} =>
       \A n \in DOMAIN desired : Ready \notin DOMAIN desired[n].body

ProcessType ==
  /\ request \in Requests
  /\ ResourcesType(desired)
  /\ StageInv

(* What Put, an EXCEPT and Onto make of a map of resources.                *)
LEMMA ResourceMaps ==
  /\ \A f, x, v : ResourcesType(f) /\ IsResource(v)
                    => ResourcesType(Put(f, x, v))
  /\ \A f, g : ResourcesType(f) /\ ResourcesType(g)
                 => ResourcesType(Onto(f, g))
<1>1. ASSUME NEW f, NEW x, NEW v, ResourcesType(f), IsResource(v)
      PROVE  ResourcesType(Put(f, x, v))
  BY <1>1 DEF ResourcesType, Put
<1>2. ASSUME NEW f, NEW g, ResourcesType(f), ResourcesType(g)
      PROVE  ResourcesType(Onto(f, g))
  BY <1>2 DEF ResourcesType, Onto
<1> QED
  BY <1>1, <1>2

LEMMA SetReadyResource ==
  ASSUME NEW r, IsResource(r), ~BadReady(r.body)
  PROVE  IsResource(SetReady(r))
BY DEF IsResource, SetReady, BadReady

LEMMA ChangeBody ==
  ASSUME NEW f, ResourcesType(f), NEW n \in DOMAIN f, NEW b
  PROVE  LET g == [f EXCEPT ![n].body = b]
         IN /\ ResourcesType(g)
            /\ DOMAIN g = DOMAIN f
            /\ g[n].body = b
            /\ g[n].ready = f[n].ready
            /\ \A m \in DOMAIN f \ {n} : g[m] = f[m]
<1> DEFINE g == [f EXCEPT ![n].body = b]
<1>1. f[n] = [body |-> f[n].body, ready |-> f[n].ready]
  BY DEF ResourcesType, IsResource
<1>2. g = [m \in DOMAIN f |-> IF m = n THEN [f[n] EXCEPT !.body = b] ELSE f[m]]
  OBVIOUS
<1>3. [f[n] EXCEPT !.body = b] = [body |-> b, ready |-> f[n].ready]
  BY <1>1
<1>4. g[n] = [body |-> b, ready |-> f[n].ready]
  BY <1>2, <1>3
<1>5. /\ g = [m \in DOMAIN g |-> g[m]]
      /\ DOMAIN g = DOMAIN f
      /\ \A m \in DOMAIN f \ {n} : g[m] = f[m]
  BY <1>2
<1> HIDE DEF g
<1>6. IsResource(g[n])
  <2>1. f[n].ready \in ReadyValues \cup {""}
    BY DEF ResourcesType, IsResource
  <2>2. g[n].body = b /\ g[n].ready = f[n].ready
    BY <1>4
  <2>3. g[n] = [body |-> g[n].body, ready |-> g[n].ready]
    BY <1>4, <2>2
  <2> QED
    BY <2>1, <2>2, <2>3 DEF IsResource
<1>7. ResourcesType(g)
  <2>1. \A m \in DOMAIN f \ {n} : IsResource(g[m])
    BY <1>5 DEF ResourcesType
  <2> QED
    BY <1>5, <1>6, <2>1 DEF ResourcesType
<1> QED
  BY <1>4, <1>5, <1>7 DEF g

LEMMA DataFacts ==
  ASSUME request \in Requests
  PROVE  /\ Len(data) \in Nat
         /\ DOMAIN data = 1 .. Len(data)
         /\ \A i \in DOMAIN data : data[i] \in ToSet(data)
         /\ \A o \in ToSet(data) : \E i \in DOMAIN data : data[i] = o
         /\ ResourcesType(request.desired)
         /\ target \in Targets
<1>1. data \in Seq(ToSet(data)) /\ target \in Targets
  BY RequestsAssumption DEF data, target
<1>2. ResourcesType(request.desired)
  <2> DEFINE d == request.desired
             bodies == {d[n].body : n \in DOMAIN d}
  <2>1. d \in DesiredMap(DOMAIN d, bodies)
    BY RequestsAssumption
  <2> QED
    BY <2>1 DEF ResourcesType, IsResource, DesiredMap
<1> QED
  BY <1>1, <1>2 DEF ToSet

LEMMA PatchableType ==
  ASSUME ResourcesType(desired)
  PROVE  ResourcesType(Patchable)
<1>1. ResourcesType(Bases)
  BY DEF Bases, ResourcesType, IsResource
<1> QED
  BY <1>1, ResourceMaps DEF Patchable

LEMMA TypeInitially == Init => ProcessType
<1> SUFFICES ASSUME Init
             PROVE  ProcessType
  OBVIOUS
<1>1. /\ request \in Requests
      /\ desired = request.desired
      /\ stage = "objects"
      /\ next = 1
      /\ DOMAIN patches = {}
  BY DEF Init, Nothing
<1>2. next \in 1 .. Len(data) + 1
  BY <1>1, DataFacts
<1> QED
  BY <1>1, <1>2, DataFacts DEF ProcessType, StageInv

LEMMA TypeStep == ProcessType /\ [Next]_vars => ProcessType'
<1> SUFFICES ASSUME ProcessType, [Next]_vars
             PROVE  ProcessType'
  OBVIOUS
<1>1. request' = request /\ data' = data /\ target' = target
  BY RequestStays DEF data, target
<1>2. /\ request \in Requests
      /\ ResourcesType(desired)
      /\ StageInv
      /\ Len(data) \in Nat
  BY DataFacts DEF ProcessType
<1>3. HasObject => next + 1 \in 1 .. Len(data) + 1
  BY <1>2 DEF HasObject, StageInv
<1>4. CASE Fail
  BY <1>1, <1>2, <1>4 DEF Fail, ProcessType, StageInv
<1>5. CASE Skips
  BY <1>1, <1>2, <1>3, <1>5 DEF Skips, ProcessType, StageInv, HasObject
<1>6. CASE AddResource /\ ~Duplicate(Object.body)
  <2>1. /\ HasObject
        /\ next' = next + 1
        /\ \E b : desired' = Put(desired, NameOf(Object.body),
                                 [body |-> b, ready |-> ""])
        /\ UNCHANGED <<patches, stage>>
    BY <1>6 DEF AddResource
  <2>2. \A b : IsResource([body |-> b, ready |-> ""])
    BY DEF IsResource
  <2>3. ResourcesType(desired')
    BY <1>2, <2>1, <2>2, ResourceMaps
  <2> QED
    BY <1>1, <1>2, <1>3, <2>1, <2>3 DEF ProcessType, StageInv, HasObject
<1>7. CASE SetDesired
  <2> DEFINE cd == [body |-> Anonymous(Object.body), ready |-> ""]
  <2>1. /\ HasObject
        /\ next' = next + 1
        /\ desired' = Put(desired, NameOf(Object.body), SetReady(cd))
        /\ ~BadReady(Object.body)
        /\ UNCHANGED <<patches, stage>>
    BY <1>7 DEF SetDesired, Takes
  <2>2. IsResource(cd)
    BY DEF IsResource
  <2>3. ~BadReady(cd.body)
    BY <2>1 DEF BadReady, Anonymous, Drop, Restrict, Alias, Ready
  <2> HIDE DEF cd
  <2>4. ResourcesType(desired')
    BY <1>2, <2>1, <2>2, <2>3, ResourceMaps, SetReadyResource
  <2> QED
    BY <1>1, <1>2, <1>3, <2>1, <2>4 DEF ProcessType, StageInv, HasObject
<1>8. CASE MatchResources /\ Names \subseteq DOMAIN Patchable
  <2>1. /\ target \in PatchTargets
        /\ desired' = Patchable
        /\ patches' = [n \in Names |->
                         {i \in DOMAIN data : NameOf(data[i].body) = n}]
        /\ stage' = "patch"
        /\ next' = next
    BY <1>8 DEF MatchResources, Names, PatchTargets
  <2>2. \A n \in Names : {i \in DOMAIN data : NameOf(data[i].body) = n} # {}
    BY <1>2, DataFacts DEF Names
  <2>3. ResourcesType(desired')
    BY <1>2, <2>1, PatchableType
  <2> QED
    BY <1>1, <1>2, <2>1, <2>2, <2>3 DEF ProcessType, StageInv
<1>9. ASSUME NEW n \in DOMAIN patches, PatchDesired(n), ~Fail
      PROVE  ProcessType'
  <2>1. /\ stage = "patch"
        /\ \E b : desired' = [desired EXCEPT ![n].body = b]
        /\ \E i : patches' = IF patches[n] = {i} THEN Drop(patches, {n})
                             ELSE [patches EXCEPT ![n] = @ \ {i}]
        /\ stage' = stage
        /\ next' = next
    BY <1>9 DEF PatchDesired, Apply
  <2>2. \A m \in DOMAIN patches' : patches'[m] # {}
    BY <1>2, <2>1 DEF StageInv, Drop, Restrict
  <2>3. ResourcesType(desired')
    <3>1. CASE n \in DOMAIN desired
      <4>1. \A b : ResourcesType([desired EXCEPT ![n].body = b])
        BY <1>2, <3>1, ChangeBody
      <4> QED
        BY <2>1, <4>1
    <3>2. CASE n \notin DOMAIN desired
      <4>1. \A b : [desired EXCEPT ![n].body = b] =
                     [m \in DOMAIN desired |-> desired[m]]
        BY <3>2
      <4>2. desired' = desired
        BY <1>2, <2>1, <4>1 DEF ResourcesType
      <4> QED
        BY <1>2, <4>2
    <3> QED
      BY <3>1, <3>2
  <2> QED
    BY <1>1, <1>2, <2>1, <2>2, <2>3 DEF ProcessType, StageInv
<1>10. CASE ToReady
  BY <1>1, <1>2, <1>10
     DEF ToReady, ProcessType, StageInv, Nothing, PatchTargets
<1>11. ASSUME NEW n \in DOMAIN desired, ReadyAnnotation(n),
              ~BadReady(desired[n].body)
       PROVE  ProcessType'
  <2>1. /\ desired' = [desired EXCEPT ![n] = SetReady(@)]
        /\ stage = "ready"
        /\ UNCHANGED <<patches, next, stage>>
    BY <1>11 DEF ReadyAnnotation
  <2>2. IsResource(SetReady(desired[n]))
    BY <1>2, <1>11, SetReadyResource DEF ResourcesType
  <2>3. ResourcesType(desired')
    BY <1>2, <2>1, <2>2 DEF ResourcesType
  <2> QED
    BY <1>1, <1>2, <2>1, <2>3 DEF ProcessType, StageInv
<1>12. CASE Finish
  BY <1>1, <1>2, <1>12
     DEF Finish, ProcessType, StageInv, PatchTargets
<1> QED
  BY <1>4, <1>5, <1>6, <1>7, <1>8, <1>9, <1>10, <1>11, <1>12, StepKinds

LEMMA ProcessTyped == Spec => []ProcessType
BY TypeInitially, TypeStep, PTL DEF Spec

-----------------------------------------------------------------------------
(* Items land.  An object that was taken is in desired under its name,     *)
(* which no other may have; its ready annotation is still there only until *)
(* the loop over the annotations comes to it.                              *)
FieldsLanded(b, n) ==
  /\ DOMAIN desired[n].body \ {Ready} =
       ((DOMAIN b \ {Alias}) \cup Left(b, n)) \ {Ready}
  /\ target = "Default" => Ready \notin DOMAIN desired[n].body
  /\ \A p \in DOMAIN b \ {Alias, Ready} : desired[n].body[p] = b[p]
  /\ \A p \in Left(b, n) \ {Ready} :
       desired[n].body[p] = request.desired[n].body[p]

ReadinessLanded(b, n) ==
  IF Ready \in DOMAIN desired[n].body
    THEN /\ target = "Resources"
         /\ Ready \in DOMAIN b
         /\ desired[n].body[Ready] = b[Ready]
    ELSE desired[n].ready = IF Ready \in DOMAIN b THEN b[Ready] ELSE ""

Replaces(b) ==
  "metadata" \in Tops(b) \/ NameOf(b) \notin DOMAIN request.desired

Landed(b) ==
  LET n == NameOf(b)
  IN /\ n \in seen \cap DOMAIN desired
     /\ FieldsLanded(b, n)
     /\ Replaces(b) => ReadinessLanded(b, n)

(* Until an object of its name comes, an earlier resource is as it was.    *)
EarlierAwaits ==
  \A n \in DOMAIN request.desired \ seen :
    n \in DOMAIN desired /\ desired[n] = request.desired[n]

LandInv ==
  target \in {"Default", "Resources"} =>
    /\ DOMAIN desired \subseteq DOMAIN request.desired \cup seen
    /\ stage = "objects" => EarlierAwaits
    /\ \A i \in 1 .. next - 1 : Composes(i) => Landed(data[i].body)

(* Three different paths of one top-level field.                           *)
LEMMA Annotations ==
  /\ Head(Alias) = "metadata"
  /\ Head(Ready) = "metadata"
  /\ Alias # Ready
BY DEF Alias, Ready

(* What Put, SetReady and Anonymous leave of an object.                    *)
LEMMA SetReadyBody ==
  ASSUME NEW r, IsResource(r)
  PROVE  /\ DOMAIN SetReady(r).body = DOMAIN r.body \ {Ready}
         /\ \A p \in DOMAIN r.body \ {Ready} :
              SetReady(r).body[p] = r.body[p]
         /\ SetReady(r).ready = IF Ready \in DOMAIN r.body
                                  THEN r.body[Ready] ELSE r.ready
BY DEF IsResource, SetReady, Drop, Restrict

LEMMA AnonymousBody ==
  ASSUME NEW b
  PROVE  /\ DOMAIN Anonymous(b) = DOMAIN b \ {Alias}
         /\ \A p \in DOMAIN b \ {Alias} : Anonymous(b)[p] = b[p]
BY DEF Anonymous, Drop, Restrict

(* Only the resource of its own name tells whether an object landed.       *)
LEMMA LandedStays ==
  ASSUME NEW b, Landed(b), request' = request,
         seen \subseteq seen', NameOf(b) \in DOMAIN desired',
         desired'[NameOf(b)] = desired[NameOf(b)]
  PROVE  Landed(b)'
<1>1. Left(b, NameOf(b))' = Left(b, NameOf(b)) /\ target' = target
  BY DEF Left, target
<1> QED
  BY <1>1 DEF Landed, FieldsLanded, ReadinessLanded, Replaces

(* An object of a new name, under Resources: what it does not replace of   *)
(* an earlier resource of this name are other top-level fields.            *)
LEMMA AddedLands ==
  ASSUME LandInv, NEW b, b = Object.body, AddResource, ~Duplicate(b)
  PROVE  Landed(b)'
<1> DEFINE n    == NameOf(b)
           new  == Anonymous(b)
           old  == desired[n].body
           rest == Drop(old, Under(Tops(b), old))
           body == IF n \in DOMAIN desired THEN Onto(new, rest) ELSE new
<1>1. /\ target = "Resources"
      /\ stage = "objects"
      /\ desired' = Put(desired, n, [body |-> body, ready |-> ""])
      /\ seen' = seen \cup {n}
      /\ n \notin seen
      /\ request' = request
      /\ target' = target
  BY DEF AddResource, HasObject, Duplicate, target
<1>2. /\ DOMAIN new = DOMAIN b \ {Alias}
      /\ \A p \in DOMAIN b \ {Alias} : new[p] = b[p]
  BY AnonymousBody
<1>3. /\ n \in DOMAIN desired <=> n \in DOMAIN request.desired
      /\ n \in DOMAIN desired => old = request.desired[n].body
  BY <1>1 DEF LandInv, EarlierAwaits
<1>4. n \in DOMAIN desired =>
        /\ DOMAIN rest = Left(b, n)
        /\ \A p \in Left(b, n) : rest[p] = request.desired[n].body[p]
  <2>1. /\ DOMAIN rest = {p \in DOMAIN old : Head(p) \notin Tops(b)}
        /\ \A p \in DOMAIN rest : rest[p] = old[p]
    BY DEF Drop, Restrict, Under
  <2> HIDE DEF rest
  <2> QED
    BY <1>1, <1>3, <2>1 DEF Left
<1>5. n \notin DOMAIN desired => Left(b, n) = {}
  BY <1>3 DEF Left
<1>6. /\ \A p \in Left(b, n) : p \notin DOMAIN b
      /\ Replaces(b) => Ready \notin Left(b, n)
  BY Annotations DEF Left, Tops, Replaces
<1> HIDE DEF new, rest
<1>7. /\ DOMAIN body = (DOMAIN b \ {Alias}) \cup Left(b, n)
      /\ \A p \in DOMAIN b \ {Alias} : body[p] = b[p]
      /\ \A p \in Left(b, n) : body[p] = request.desired[n].body[p]
  <2>1. CASE n \in DOMAIN desired
    <3>1. /\ DOMAIN body = DOMAIN new \cup DOMAIN rest
          /\ \A p \in DOMAIN new : body[p] = new[p]
          /\ \A p \in DOMAIN rest \ DOMAIN new : body[p] = rest[p]
      BY <2>1 DEF Onto
    <3> HIDE DEF body
    <3> QED
      BY <1>2, <1>4, <1>6, <2>1, <3>1
  <2>2. CASE n \notin DOMAIN desired
    BY <1>2, <1>5, <2>2
  <2> QED
    BY <2>1, <2>2
<1> HIDE DEF body
<1>8. /\ n \in DOMAIN desired'
      /\ desired'[n].body = body
      /\ desired'[n].ready = ""
  BY <1>1 DEF Put
<1>9. Left(b, n)' = Left(b, n)
  BY <1>1 DEF Left
<1>10. FieldsLanded(b, n)'
  <2>1. DOMAIN desired'[n].body \ {Ready} =
          ((DOMAIN b \ {Alias}) \cup Left(b, n)') \ {Ready}
    BY <1>7, <1>8, <1>9
  <2>2. \A p \in DOMAIN b \ {Alias, Ready} : desired'[n].body[p] = b[p]
    BY <1>7, <1>8
  <2>3. \A p \in Left(b, n)' \ {Ready} :
          desired'[n].body[p] = request'.desired[n].body[p]
    BY <1>1, <1>7, <1>8, <1>9
  <2>4. target' # "Default"
    BY <1>1
  <2> QED
    BY <2>1, <2>2, <2>3, <2>4 DEF FieldsLanded
<1>11. Replaces(b) => ReadinessLanded(b, n)'
  <2>1. Ready \in DOMAIN b => body[Ready] = b[Ready]
    <3>1. Ready \in DOMAIN b => Ready \in DOMAIN b \ {Alias}
      BY Annotations
    <3> QED
      BY <1>7, <3>1
  <2>2. Replaces(b) => (Ready \in DOMAIN body <=> Ready \in DOMAIN b)
    BY <1>6, <1>7, Annotations
  <2> QED
    BY <1>1, <1>8, <2>1, <2>2 DEF ReadinessLanded
<1>12. Replaces(b)' => Replaces(b)
  BY <1>1 DEF Replaces
<1> QED
  BY <1>1, <1>8, <1>10, <1>11, <1>12 DEF Landed

(* An object of a new name, under Default, takes the place of an earlier   *)
(* resource, its ready annotation already made its readiness.              *)
LEMMA SetLands ==
  ASSUME NEW b, b = Object.body, SetDesired
  PROVE  Landed(b)'
<1> DEFINE n  == NameOf(b)
           cd == [body |-> Anonymous(b), ready |-> ""]
<1>1. /\ desired' = Put(desired, n, SetReady(cd))
      /\ seen' = seen \cup {n}
      /\ n \notin seen
      /\ request' = request
      /\ target = "Default" /\ target' = target
  BY DEF SetDesired, Takes, Duplicate, target
<1>2. IsResource(cd)
  BY DEF IsResource
<1>3. /\ DOMAIN cd.body = DOMAIN b \ {Alias}
      /\ \A p \in DOMAIN b \ {Alias} : cd.body[p] = b[p]
      /\ cd.ready = ""
  BY AnonymousBody
<1> HIDE DEF cd
<1>4. n \in DOMAIN desired' /\ desired'[n] = SetReady(cd)
  BY <1>1 DEF Put
<1>5. /\ DOMAIN desired'[n].body = DOMAIN b \ {Alias, Ready}
      /\ \A p \in DOMAIN b \ {Alias, Ready} : desired'[n].body[p] = b[p]
      /\ desired'[n].ready = IF Ready \in DOMAIN b THEN b[Ready] ELSE ""
  <2>1. /\ DOMAIN SetReady(cd).body = DOMAIN cd.body \ {Ready}
        /\ \A p \in DOMAIN cd.body \ {Ready} :
             SetReady(cd).body[p] = cd.body[p]
        /\ SetReady(cd).ready = IF Ready \in DOMAIN cd.body
                                  THEN cd.body[Ready] ELSE cd.ready
    BY <1>2, SetReadyBody
  <2>2. Ready \in DOMAIN b \ {Alias} <=> Ready \in DOMAIN b
    BY Annotations
  <2> QED
    BY <1>3, <1>4, <2>1, <2>2
<1>6. Left(b, n)' = {}
  BY <1>1 DEF Left
<1>7. FieldsLanded(b, n)' /\ ReadinessLanded(b, n)'
  BY <1>1, <1>5, <1>6 DEF FieldsLanded, ReadinessLanded
<1> QED
  BY <1>1, <1>4, <1>7 DEF Landed

(* The loop over the ready annotations takes an annotation and makes it    *)
(* the readiness.                                                          *)
LEMMA ReadyLands ==
  ASSUME ProcessType, NEW b, Landed(b), NEW m \in DOMAIN desired,
         desired' = [desired EXCEPT ![m] = SetReady(@)],
         UNCHANGED <<request, seen>>
  PROVE  Landed(b)'
<1> DEFINE n == NameOf(b)
<1>1. target' = target /\ DOMAIN desired' = DOMAIN desired
  BY DEF target
<1>2. CASE m # n
  <2>1. n \in DOMAIN desired' /\ desired'[n] = desired[n]
    BY <1>1, <1>2 DEF Landed
  <2> QED
    BY <2>1, LandedStays
<1>3. CASE m = n
  <2>1. IsResource(desired[n]) /\ desired'[n] = SetReady(desired[n])
    BY <1>3 DEF ProcessType, ResourcesType
  <2>2. /\ DOMAIN desired'[n].body = DOMAIN desired[n].body \ {Ready}
        /\ \A p \in DOMAIN desired[n].body \ {Ready} :
             desired'[n].body[p] = desired[n].body[p]
        /\ desired'[n].ready = IF Ready \in DOMAIN desired[n].body
                                 THEN desired[n].body[Ready]
                                 ELSE desired[n].ready
    BY <2>1, SetReadyBody
  <2>3. FieldsLanded(b, n)'
    <3>1. Left(b, n)' = Left(b, n)
      BY <1>1 DEF Left
    <3>2. FieldsLanded(b, n)
      BY DEF Landed
    <3> QED
      BY <2>2, <3>1, <3>2 DEF FieldsLanded
  <2>4. ReadinessLanded(b, n) => ReadinessLanded(b, n)'
    BY <2>2 DEF ReadinessLanded
  <2>5. Replaces(b)' => Replaces(b)
    BY DEF Replaces
  <2> QED
    BY <1>1, <2>2, <2>3, <2>4, <2>5 DEF Landed
<1> QED
  BY <1>2, <1>3

LEMMA LandInitially == Init => LandInv
BY DEF Init, LandInv, EarlierAwaits

(* Objects that were taken stay where they are while the next one lands.   *)
LEMMA OthersStay ==
  ASSUME ProcessType, LandInv, target \in {"Default", "Resources"},
         NEW b, ~Duplicate(b), NEW r,
         desired' = Put(desired, NameOf(b), r),
         seen' = seen \cup {NameOf(b)}, request' = request
  PROVE  /\ DOMAIN desired' \subseteq DOMAIN request.desired \cup seen'
         /\ stage = "objects" => EarlierAwaits'
         /\ \A i \in 1 .. next - 1 : Composes(i) => Landed(data[i].body)'
<1>1. DOMAIN desired' = DOMAIN desired \cup {NameOf(b)}
  BY DEF Put
<1>2. ASSUME NEW i \in 1 .. next - 1, Composes(i)
      PROVE  Landed(data[i].body)'
  <2>1. Landed(data[i].body)
    BY <1>2 DEF LandInv
  <2>2. NameOf(data[i].body) # NameOf(b)
    BY <2>1 DEF Landed, Duplicate
  <2>3. /\ NameOf(data[i].body) \in DOMAIN desired'
        /\ desired'[NameOf(data[i].body)] = desired[NameOf(data[i].body)]
    BY <1>1, <2>1, <2>2 DEF Landed, Put
  <2>4. data' = data
    BY DEF data
  <2> QED
    BY <2>1, <2>3, <2>4, LandedStays
<1>3. stage = "objects" => EarlierAwaits'
  BY DEF LandInv, EarlierAwaits, Put
<1> QED
  BY <1>1, <1>2, <1>3 DEF LandInv

LEMMA LandStep == ProcessType /\ LandInv /\ [Next]_vars => LandInv'
<1> SUFFICES ASSUME ProcessType, LandInv, [Next]_vars,
                    target' \in {"Default", "Resources"}
             PROVE  /\ DOMAIN desired' \subseteq DOMAIN request'.desired \cup seen'
                    /\ stage' = "objects" => EarlierAwaits'
                    /\ \A i \in 1 .. next' - 1 :
                         Composes(i)' => Landed(data[i].body)'
  BY DEF LandInv
<1>1. request' = request /\ data' = data /\ target' = target
  BY RequestStays DEF data, target
<1>2. \A i : Composes(i)' <=> Composes(i)
  BY <1>1 DEF Composes
<1>3. /\ DOMAIN desired \subseteq DOMAIN request.desired \cup seen
      /\ stage = "objects" => EarlierAwaits
      /\ \A i \in 1 .. next - 1 : Composes(i) => Landed(data[i].body)
      /\ next \in Nat
  <2>1. next \in Nat
    BY DataFacts DEF ProcessType, StageInv
  <2> QED
    BY <1>1, <2>1 DEF LandInv
<1>4. ASSUME NEW i \in 1 .. next - 1, Composes(i), desired' = desired,
             seen' = seen
      PROVE  Landed(data[i].body)'
  BY <1>1, <1>3, <1>4, LandedStays DEF Landed
<1>5. CASE Fail \/ ToReady \/ Finish
  <2>1. /\ desired' = desired /\ seen' = seen /\ next' = next
        /\ stage' # "objects"
    BY <1>5 DEF Fail, ToReady, Finish
  <2> QED
    BY <1>1, <1>2, <1>3, <1>4, <2>1
<1>6. CASE Skips
  <2>1. /\ desired' = desired
        /\ seen' = seen
        /\ stage' = stage
        /\ \/ next' = next
           \/ next' = next + 1 /\ ~Composes(next)
    BY <1>6 DEF Skips
  <2>2. \A i \in 1 .. next' - 1 : Composes(i) => i \in 1 .. next - 1
    BY <1>3, <2>1
  <2>3. stage' = "objects" => EarlierAwaits'
    BY <1>1, <1>3, <2>1 DEF EarlierAwaits
  <2> QED
    BY <1>1, <1>2, <1>3, <1>4, <2>1, <2>2, <2>3
<1>7. ASSUME NEW b, b = Object.body, ~Duplicate(b), NEW r, Landed(b)',
             desired' = Put(desired, NameOf(b), r),
             seen' = seen \cup {NameOf(b)}, next' = next + 1, stage' = stage
      PROVE  LandInv'
  <2>1. /\ DOMAIN desired' \subseteq DOMAIN request.desired \cup seen'
        /\ stage = "objects" => EarlierAwaits'
        /\ \A i \in 1 .. next - 1 : Composes(i) => Landed(data[i].body)'
    BY <1>1, <1>7, OthersStay
  <2>2. data'[next].body = b
    BY <1>1, <1>7 DEF Object
  <2>3. ASSUME NEW i \in 1 .. next' - 1, Composes(i)
        PROVE  Landed(data[i].body)'
    <3>1. i \in 1 .. next - 1 \/ i = next
      BY <1>3, <1>7
    <3>2. CASE i = next
      <4>1. (data[i].body)' = b
        BY <2>2, <3>2
      <4> QED
        BY <1>7, <4>1
    <3> QED
      BY <2>1, <2>3, <3>1, <3>2
  <2>4. stage' = "objects" => EarlierAwaits'
    BY <1>7, <2>1
  <2> QED
    BY <1>1, <1>2, <2>1, <2>3, <2>4 DEF LandInv
<1>8. CASE AddResource /\ ~Duplicate(Object.body)
  <2>1. PICK b : b = Object.body
    OBVIOUS
  <2>2. /\ \E r : desired' = Put(desired, NameOf(b), r)
        /\ seen' = seen \cup {NameOf(b)}
        /\ next' = next + 1
        /\ stage' = stage
    BY <1>8, <2>1 DEF AddResource
  <2>3. Landed(b)'
    BY <1>8, <2>1, AddedLands
  <2> QED
    BY <1>1, <1>7, <1>8, <2>1, <2>2, <2>3 DEF LandInv
<1>9. CASE SetDesired
  <2>1. PICK b : b = Object.body
    OBVIOUS
  <2>2. /\ \E r : desired' = Put(desired, NameOf(b), r)
        /\ seen' = seen \cup {NameOf(b)}
        /\ next' = next + 1
        /\ stage' = stage
        /\ ~Duplicate(b)
    BY <1>9, <2>1 DEF SetDesired, Takes
  <2>3. Landed(b)'
    BY <1>9, <2>1, SetLands
  <2> QED
    BY <1>1, <1>7, <2>1, <2>2, <2>3 DEF LandInv
<1>10. CASE MatchResources
  BY <1>1, <1>10 DEF MatchResources
<1>11. ASSUME NEW n \in DOMAIN patches, PatchDesired(n) PROVE FALSE
  BY <1>1, <1>11
     DEF PatchDesired, Apply, ProcessType, StageInv, PatchTargets
<1>12. ASSUME NEW n \in DOMAIN desired, ReadyAnnotation(n),
              ~BadReady(desired[n].body)
       PROVE  LandInv'
  <2>1. /\ desired' = [desired EXCEPT ![n] = SetReady(@)]
        /\ seen' = seen
        /\ next' = next
        /\ stage' # "objects"
    BY <1>12 DEF ReadyAnnotation
  <2>2. ASSUME NEW i \in 1 .. next - 1, Composes(i)
        PROVE  Landed(data[i].body)'
    <3>1. PICK b : b = data[i].body
      OBVIOUS
    <3>2. Landed(b)'
      BY <1>1, <1>3, <2>1, <2>2, <3>1, ReadyLands
    <3>3. (data[i].body)' = b
      BY <1>1, <3>1
    <3> QED
      BY <3>2, <3>3
  <2> QED
    BY <1>1, <1>2, <1>3, <2>1, <2>2 DEF LandInv
<1> QED
  BY <1>5, <1>6, <1>8, <1>9, <1>10, <1>11, <1>12, StepKinds DEF LandInv

(* Every composed resource KCL returns under Default and Resources is      *)
(* desired under its name with all its fields and the readiness it asks    *)
(* for, beside the other top-level fields of an earlier one and nothing    *)
(* else, or the call fails (res.go:251-285, 548-595).                      *)
THEOREM ItemsAllLand == Spec => []ItemsLand
<1>1. Spec => []LandInv
  BY LandInitially, LandStep, ProcessTyped, PTL DEF Spec
<1>2. ProcessType /\ LandInv => ItemsLand
  <2> SUFFICES ASSUME ProcessType, LandInv, stage = "done",
                      target \in {"Default", "Resources"},
                      NEW i \in DOMAIN data, Composes(i)
               PROVE  LET b == data[i].body
                          n == NameOf(b)
                      IN /\ n \in DOMAIN desired
                         /\ FieldsLanded(b, n)
                         /\ Ready \notin DOMAIN desired[n].body
                         /\ Replaces(b) =>
                              desired[n].ready =
                                IF Ready \in DOMAIN b THEN b[Ready] ELSE ""
    BY DEF ItemsLand, FieldsLanded, Replaces
  <2> DEFINE b == data[i].body
             n == NameOf(b)
  <2>1. i \in 1 .. next - 1
    BY DataFacts DEF ProcessType, StageInv
  <2>2. Landed(b)
    BY <2>1 DEF LandInv
  <2>3. Ready \notin DOMAIN desired[n].body
    <3>1. target = "Default" => Ready \notin DOMAIN desired[n].body
      BY <2>2 DEF Landed, FieldsLanded
    <3>2. target = "Resources" => Ready \notin DOMAIN desired[n].body
      BY <2>2 DEF ProcessType, StageInv, Landed
    <3> QED
      BY <3>1, <3>2
  <2>4. Replaces(b) => desired[n].ready = IF Ready \in DOMAIN b THEN b[Ready] ELSE ""
    BY <2>2, <2>3 DEF Landed, ReadinessLanded
  <2> QED
    BY <2>2, <2>3, <2>4 DEF Landed
<1> QED
  BY <1>1, <1>2, ProcessTyped, PTL

-----------------------------------------------------------------------------
(* Patches land.                                                           *)
(* Resource n once the objects of indices A have been applied to it, and   *)
(* once its ready annotation has become its readiness.                     *)
Applied(r, n, A) ==
  /\ Leaves(r.body, Unpatched(n).body, A)
  /\ r.ready = Unpatched(n).ready

Finished(r, n, A) ==
  LET old  == Unpatched(n).body
      kept == Fields(A, old)
  IN /\ DOMAIN r.body = kept \ {Ready}
     /\ \A p \in kept \ {Ready} : r.body[p] \in Contents(A, old, p)
     /\ r.ready \in IF Ready \in kept THEN Contents(A, old, Ready)
                                     ELSE {Unpatched(n).ready}

(* The objects of n that have not been applied come after all that have.   *)
Waiting(n) == IF n \in DOMAIN patches THEN patches[n] ELSE {}
InOrder(n, W) ==
  /\ W \subseteq Naming(n)
  /\ \A i \in Naming(n) \ W, j \in W : i < j

PatchInv ==
  target \in PatchTargets =>
    /\ stage = "objects" => desired = request.desired
    /\ stage = "patch" =>
         /\ DOMAIN patches \subseteq Names
         /\ \A n \in DOMAIN desired :
              /\ InOrder(n, Waiting(n))
              /\ Applied(desired[n], n, Naming(n) \ Waiting(n))
    /\ stage \in {"ready", "done"} =>
         \A n \in DOMAIN desired : \/ Applied(desired[n], n, Naming(n))
                                  \/ Finished(desired[n], n, Naming(n))
    /\ stage \in {"patch", "ready", "done"} => Names \subseteq DOMAIN desired

LEMMA NamingFacts ==
  ASSUME request \in Requests, target \in PatchTargets, NEW n
  PROVE  /\ Naming(n) = {i \in DOMAIN data : NameOf(data[i].body) = n}
         /\ Naming(n) \in SUBSET Nat
         /\ n \notin Names => Naming(n) = {}
<1>1. Naming(n) = {i \in DOMAIN data : NameOf(data[i].body) = n}
  BY DEF Naming, Composes, PatchTargets
<1> QED
  BY <1>1, DataFacts DEF Names

(* One patch, the next in the order of the data.                           *)
LEMMA AppliesOneMore ==
  ASSUME target \in PatchTargets,
         NEW r, NEW s, NEW n, NEW A \in SUBSET Nat, NEW i \in Nat,
         \A a \in A : a < i, Applied(r, n, A),
         s.body \in SetData(Anonymous(data[i].body), Identity, r.body),
         s.ready = r.ready
  PROVE  Applied(s, n, A \cup {i})
<1> DEFINE b == Anonymous(data[i].body)
<1>1. PICK f : /\ DOMAIN f = Topmost(Paths(b, Identity))
               /\ \A x \in DOMAIN f : f[x] \in Values(b, x)
               /\ s.body = Graft(f, r.body)
  BY SetDataGrafts
<1>2. Given(f, i)
  BY <1>1 DEF Given, Gives, Says, PatchTargets
<1> QED
  BY <1>1, <1>2, LeavesMore DEF Applied

(* Before any patch, a resource is its base or the earlier one.            *)
LEMMA NothingApplied ==
  ASSUME NEW n, desired = request.desired, n \in DOMAIN Patchable
  PROVE  Applied(Patchable[n], n, {})
<1>1. Patchable[n] = Unpatched(n)
  BY DEF Patchable, Unpatched, Onto
<1> QED
  BY <1>1, NothingLeft DEF Applied

LEMMA PatchInitially == Init => PatchInv
BY DEF Init, PatchInv

(* A patch of n is the first that waits, and the others keep waiting.      *)
LEMMA PatchOrder ==
  ASSUME ProcessType, PatchInv, NEW n \in DOMAIN patches, PatchDesired(n), ~Fail
  PROVE  LET i == Min(patches[n])
         IN /\ n \in Names
            /\ i \in Nat
            /\ \A a \in Naming(n) \ Waiting(n) : a < i
            /\ Waiting(n)' = Waiting(n) \ {i}
            /\ Naming(n) \ Waiting(n)' = (Naming(n) \ Waiting(n)) \cup {i}
            /\ InOrder(n, Waiting(n) \ {i})
            /\ \A m : m # n => Waiting(m)' = Waiting(m)
            /\ DOMAIN patches' \subseteq DOMAIN patches
<1> DEFINE i == Min(patches[n])
<1>1. /\ stage = "patch" /\ target \in PatchTargets
      /\ request \in Requests
      /\ patches[n] # {}
  BY DEF PatchDesired, Apply, ProcessType, StageInv
<1>2. /\ n \in Names
      /\ Waiting(n) = patches[n]
      /\ InOrder(n, Waiting(n))
  BY <1>1 DEF PatchInv, Waiting
<1>3. Naming(n) \in SUBSET Nat
  BY <1>1, NamingFacts
<1>4. /\ i \in patches[n]
      /\ \A j \in patches[n] : i <= j
  <2>1. patches[n] \in SUBSET Nat
    BY <1>2, <1>3 DEF InOrder
  <2> QED
    BY <1>1, <2>1, LeastExists
<1>5. patches' = IF patches[n] = {i} THEN Drop(patches, {n})
                 ELSE [patches EXCEPT ![n] = @ \ {i}]
  BY DEF PatchDesired, Apply
<1> HIDE DEF i
<1>6. /\ Waiting(n)' = Waiting(n) \ {i}
      /\ \A m : m # n => Waiting(m)' = Waiting(m)
      /\ DOMAIN patches' \subseteq DOMAIN patches
  <2>1. CASE patches[n] = {i}
    BY <1>5, <2>1 DEF Waiting, Drop, Restrict
  <2>2. CASE patches[n] # {i}
    BY <1>5, <2>2 DEF Waiting
  <2> QED
    BY <2>1, <2>2
<1>7. InOrder(n, Waiting(n) \ {i})
  <2>1. \A j \in Waiting(n) \ {i} : i < j
    BY <1>2, <1>3, <1>4 DEF InOrder
  <2> QED
    BY <1>2, <2>1 DEF InOrder
<1>8. /\ i \in Nat
      /\ \A a \in Naming(n) \ Waiting(n) : a < i
      /\ Naming(n) \ (Waiting(n) \ {i}) = (Naming(n) \ Waiting(n)) \cup {i}
  BY <1>2, <1>3, <1>4 DEF InOrder
<1> QED
  BY <1>2, <1>6, <1>7, <1>8 DEF i

(* The ready annotation of a patched resource becomes its readiness.       *)
LEMMA Finishes ==
  ASSUME NEW r, IsResource(r), Ready \in DOMAIN r.body, NEW n, NEW A,
         Applied(r, n, A)
  PROVE  Finished(SetReady(r), n, A)
<1>1. /\ DOMAIN SetReady(r).body = DOMAIN r.body \ {Ready}
      /\ \A p \in DOMAIN r.body \ {Ready} : SetReady(r).body[p] = r.body[p]
      /\ SetReady(r).ready = IF Ready \in DOMAIN r.body
                                THEN r.body[Ready] ELSE r.ready
  BY SetReadyBody
<1> QED
  BY <1>1 DEF Applied, Finished, Leaves

LEMMA PatchStep == ProcessType /\ PatchInv /\ [Next]_vars => PatchInv'
<1> SUFFICES ASSUME ProcessType, PatchInv, [Next]_vars,
                    target' \in PatchTargets
             PROVE  PatchInv'
  BY DEF PatchInv
<1>1. /\ request' = request /\ data' = data
      /\ target' = target /\ target \in PatchTargets
  BY RequestStays DEF data, target
<1>2. /\ Names' = Names
      /\ \A n : Naming(n)' = Naming(n)
      /\ \A r, n, A : Applied(r, n, A)' <=> Applied(r, n, A)
      /\ \A r, n, A : Finished(r, n, A)' <=> Finished(r, n, A)
      /\ \A n, W : InOrder(n, W)' <=> InOrder(n, W)
  BY <1>1 DEF Names, Naming, Composes, Applied, Finished, Leaves, Unpatched,
     Bases, Fields, Contents, Givers, Replaced, Gives, Says, InOrder
<1>3. /\ stage = "objects" => desired = request.desired
      /\ stage = "patch" =>
           /\ DOMAIN patches \subseteq Names
           /\ \A n \in DOMAIN desired :
                /\ InOrder(n, Waiting(n))
                /\ Applied(desired[n], n, Naming(n) \ Waiting(n))
      /\ stage \in {"ready", "done"} =>
           \A n \in DOMAIN desired : \/ Applied(desired[n], n, Naming(n))
                                    \/ Finished(desired[n], n, Naming(n))
      /\ stage \in {"patch", "ready", "done"} => Names \subseteq DOMAIN desired
      /\ request \in Requests
      /\ ResourcesType(desired)
  BY <1>1 DEF PatchInv, ProcessType
<1>4. CASE Fail
  BY <1>4 DEF Fail, PatchInv
<1>5. CASE Skips
  <2>1. \A n : Waiting(n)' = Waiting(n)
    BY <1>5 DEF Skips, Waiting
  <2> QED
    BY <1>1, <1>2, <1>3, <1>5, <2>1 DEF Skips, PatchInv
<1>6. ~AddResource /\ ~SetDesired
  BY <1>1 DEF AddResource, SetDesired, Takes, PatchTargets
<1>7. CASE MatchResources /\ Names \subseteq DOMAIN Patchable
  <2>1. /\ desired' = Patchable
        /\ patches' = [n \in Names |->
                         {i \in DOMAIN data : NameOf(data[i].body) = n}]
        /\ stage' = "patch"
        /\ stage = "objects"
    BY <1>7 DEF MatchResources, Names
  <2>2. ASSUME NEW n \in DOMAIN desired'
        PROVE  /\ InOrder(n, Waiting(n)')
               /\ Applied(desired'[n], n, Naming(n) \ Waiting(n)')
    <3>1. Waiting(n)' = Naming(n)
      BY <1>1, <1>3, <2>1, NamingFacts DEF Waiting
    <3>2. n \in DOMAIN Patchable /\ Applied(Patchable[n], n, {})
      BY <1>3, <2>1, <2>2, NothingApplied
    <3>3. Naming(n) \ Naming(n) = {}
      OBVIOUS
    <3> QED
      BY <2>1, <3>1, <3>2, <3>3 DEF InOrder
  <2> QED
    BY <1>2, <1>7, <2>1, <2>2 DEF PatchInv
<1>8. ASSUME NEW n \in DOMAIN patches, PatchDesired(n), ~Fail
      PROVE  PatchInv'
  <2> DEFINE i == Min(patches[n])
             A == Naming(n) \ Waiting(n)
  <2>1. /\ n \in Names
        /\ i \in Nat
        /\ \A a \in A : a < i
        /\ Waiting(n)' = Waiting(n) \ {i}
        /\ Naming(n) \ Waiting(n)' = A \cup {i}
        /\ InOrder(n, Waiting(n) \ {i})
        /\ \A m : m # n => Waiting(m)' = Waiting(m)
        /\ DOMAIN patches' \subseteq DOMAIN patches
    BY <1>8, PatchOrder
  <2>0. PICK b \in SetData(Anonymous(data[i].body), Identity, desired[n].body) :
          desired' = [desired EXCEPT ![n].body = b]
    BY <1>8 DEF PatchDesired, Apply
  <2>2. /\ stage = "patch" /\ stage' = "patch"
        /\ desired' = [desired EXCEPT ![n].body = b]
    BY <1>8, <2>0 DEF PatchDesired, Apply
  <2>3. A \in SUBSET Nat
    BY <1>1, <1>3, NamingFacts
  <2>4. n \in DOMAIN desired /\ Applied(desired[n], n, A)
    BY <1>3, <2>1, <2>2
  <2>5. /\ DOMAIN desired' = DOMAIN desired
        /\ desired'[n].body = b
        /\ desired'[n].ready = desired[n].ready
        /\ \A m \in DOMAIN desired \ {n} : desired'[m] = desired[m]
    <3> HIDE DEF i, A
    <3>1. ResourcesType(desired)
      BY <1>3
    <3>2. n \in DOMAIN desired
      BY <2>4
    <3>3. desired' = [desired EXCEPT ![n].body = b]
      BY <2>2
    <3> DEFINE g == [desired EXCEPT ![n].body = b]
    <3>4. /\ DOMAIN g = DOMAIN desired
          /\ g[n].body = b
          /\ g[n].ready = desired[n].ready
          /\ \A m \in DOMAIN desired \ {n} : g[m] = desired[m]
      <4> HIDE DEF g
      <4> QED BY <3>1, <3>2, ChangeBody DEF g
    <3> QED BY <3>3, <3>4
  <2>6. Applied(desired'[n], n, A \cup {i})
    BY <1>1, <2>0, <2>1, <2>3, <2>4, <2>5, AppliesOneMore
  <2> HIDE DEF i, A
  <2>7. ASSUME NEW m \in DOMAIN desired'
        PROVE  /\ InOrder(m, Waiting(m)')
               /\ Applied(desired'[m], m, Naming(m) \ Waiting(m)')
    <3>1. CASE m = n
      BY <2>1, <2>4, <2>5, <2>6, <3>1
    <3>2. CASE m # n
      BY <1>3, <2>1, <2>2, <2>5, <2>7, <3>2
    <3> QED
      BY <3>1, <3>2
  <2>8. DOMAIN patches' \subseteq Names /\ Names \subseteq DOMAIN desired'
    BY <1>3, <2>1, <2>2, <2>5
  <2> QED
    BY <1>2, <2>2, <2>7, <2>8 DEF PatchInv
<1>9. CASE ToReady
  <2>1. /\ stage = "patch"
        /\ patches = Nothing
        /\ stage' = "ready"
        /\ desired' = desired
    BY <1>1, <1>9 DEF ToReady, PatchTargets
  <2>2. \A n : Naming(n) \ Waiting(n) = Naming(n)
    BY <2>1 DEF Waiting, Nothing
  <2> QED
    BY <1>2, <1>3, <2>1, <2>2 DEF PatchInv
<1>10. ASSUME NEW n \in DOMAIN desired, ReadyAnnotation(n),
              ~BadReady(desired[n].body)
       PROVE  PatchInv'
  <2>1. /\ stage = "ready" /\ stage' = "ready"
        /\ desired' = [desired EXCEPT ![n] = SetReady(@)]
        /\ Ready \in DOMAIN desired[n].body
    BY <1>10 DEF ReadyAnnotation
  <2>2. ASSUME NEW m \in DOMAIN desired'
        PROVE  \/ Applied(desired'[m], m, Naming(m))
               \/ Finished(desired'[m], m, Naming(m))
    <3>1. CASE m # n
      BY <1>3, <2>1, <2>2, <3>1
    <3>2. CASE m = n
      <4>1. Applied(desired[n], n, Naming(n))
        BY <1>3, <2>1, <3>2 DEF Finished
      <4>2. IsResource(desired[n])
        BY <1>3 DEF ResourcesType
      <4>3. Finished(SetReady(desired[n]), n, Naming(n))
        BY <2>1, <4>1, <4>2, Finishes
      <4> QED
        BY <2>1, <3>2, <4>3
    <3> QED
      BY <3>1, <3>2
  <2>3. Names \subseteq DOMAIN desired'
    BY <1>3, <2>1
  <2> QED
    BY <1>2, <2>1, <2>2, <2>3 DEF PatchInv
<1>11. CASE Finish
  <2>1. /\ stage = "ready"
        /\ stage' = "done"
        /\ desired' = desired
    BY <1>1, <1>11 DEF Finish, PatchTargets
  <2> QED
    BY <1>2, <1>3, <2>1 DEF PatchInv
<1> QED
  BY <1>4, <1>5, <1>6, <1>7, <1>8, <1>9, <1>10, <1>11, StepKinds

(* In whatever order the matches are ranged over, every field of a         *)
(* resource ends as the last patch that sets it at the path its leaf is    *)
(* written to says, identity aside, and all others as they were unless     *)
(* one above or below them was set (res.go:160-187, 303-392, 428-469).     *)
THEOREM PatchesAllLand == Spec => []PatchesLand
<1>1. Spec => []PatchInv
  BY PatchInitially, PatchStep, ProcessTyped, PTL DEF Spec
<1>2. ProcessType /\ PatchInv => PatchesLand
  <2> SUFFICES ASSUME ProcessType, PatchInv, stage = "done",
                      target \in PatchTargets
               PROVE  /\ Names \subseteq DOMAIN desired
                      /\ \A n \in DOMAIN desired :
                           Finished(desired[n], n, Naming(n))
    BY DEF PatchesLand, Finished, Patched, Value, PatchTargets, Names
  <2>1. Names \subseteq DOMAIN desired
    BY DEF PatchInv
  <2>2. ASSUME NEW n \in DOMAIN desired
        PROVE  Finished(desired[n], n, Naming(n))
    <3>1. \/ Applied(desired[n], n, Naming(n))
          \/ Finished(desired[n], n, Naming(n))
      BY DEF PatchInv
    <3>2. Ready \notin DOMAIN desired[n].body
      BY DEF ProcessType, StageInv
    <3> QED
      BY <3>1, <3>2 DEF Applied, Finished, Leaves
  <2> QED
    BY <2>1, <2>2
<1> QED
  BY <1>1, <1>2, ProcessTyped, PTL
=============================================================================
