-------------------------- MODULE ProcessResources --------------------------
(***************************************************************************)
(* ProcessResources of pkg/resource/res.go: what becomes of the objects a  *)
(* KCL program returned.  Depending on the target they are merged into the *)
(* XR, added to the resources earlier functions of the pipeline desired,   *)
(* used as patches of those, or sorted by their kind.                      *)
(*                                                                         *)
(* An object's contents are a partial function from field paths to values. *)
(* One action is one iteration of a loop of the code; where the code       *)
(* ranges over a map the next key is any key.                              *)
(***************************************************************************)
EXTENDS Naturals, Sequences, SequencesExt, FiniteSets

CONSTANTS Requests,  \* what RunFunction calls ProcessResources with
          Split      \* keys with dots in them -> their parts

ASSUME SplitAssumption == \A k \in DOMAIN Split : Len(Split[k]) > 1

Name  == <<"metadata", "name">>
Alias == <<"metadata", "annotations", "krm.kcl.dev/composition-resource-name">>
Ready == <<"metadata", "annotations", "krm.kcl.dev/ready">>
Identity == {<<"apiVersion">>, <<"kind">>, Name}

ReadyValues == {"True", "False", "Unspecified"}
Targets == {"Default", "Resources", "PatchDesired", "PatchResources", "XR"}

(* The kinds of an object under the Default target: one of the XR's own    *)
(* kind, the meta kinds, an unknown one under the same apiVersion, and     *)
(* everything else.  An object that is not well-formed has a field of      *)
(* another type than the code reads or patches there.                      *)
Kinds == {"XR", "CompositeConnectionDetails", "ExtraResources",
          "RequiredResources", "Conditions", "Events", "Context", "Unknown",
          "Composed"}

(* Maps of desired resources, whose readiness is one the SDK knows.        *)
DesiredMap(names, bodies) ==
  [names -> [body : bodies, ready : ReadyValues \cup {""}]]

ASSUME RequestsAssumption ==
  \A r \in Requests :
    /\ r.target \in Targets
    /\ r.data \in Seq(ToSet(r.data))
    /\ \A o \in ToSet(r.data) : /\ o.kind \in Kinds
                                /\ o.wellFormed \in BOOLEAN
                                /\ o.list \in Seq(ToSet(o.list))
    /\ LET bodies == {r.desired[n].body : n \in DOMAIN r.desired}
       IN r.desired \in DesiredMap(DOMAIN r.desired, bodies)

VARIABLES
  request,     \* the arguments, which stay what they are
  desired,     \* desired: partial function from names to [body, ready]
  dxr,         \* dxr.Resource
  connection,  \* dxr.ConnectionDetails
  extra, required,     \* extraResources, requiredResources
  conditions, events,  \* *conditions, *events: [len, slots]
  context,     \* *contextData
  seen,        \* the names in the duplicateChecker
  patches,     \* DesiredMatch: names -> objects of data still to be applied
  next,        \* the object of data whose turn it is
  stage        \* where in ProcessResources

metaVars == <<connection, extra, required, conditions, events, context>>
vars == <<request, desired, dxr, metaVars, seen, patches, next, stage>>

data == request.data
target == request.target
Nothing == [p \in {} |-> {}]
NoSlots == [len |-> 0, slots |-> <<>>]

Init ==
  /\ request \in Requests
  /\ desired = request.desired
  /\ dxr = request.xr
  /\ connection = request.connection
  /\ extra = Nothing /\ required = Nothing
  /\ conditions = NoSlots /\ events = NoSlots
  /\ context = Nothing
  /\ seen = {}
  /\ patches = Nothing
  /\ next = 1
  /\ stage = "objects"

(* new written over old.                                                   *)
Onto(new, old) == [x \in DOMAIN new \cup DOMAIN old |->
                     IF x \in DOMAIN new THEN new[x] ELSE old[x]]
Put(f, x, v) == [y \in DOMAIN f \cup {x} |-> IF y = x THEN v ELSE f[y]]
Drop(f, S) == Restrict(f, DOMAIN f \ S)

(* Fields above or below one of F cannot be in an object along with it:    *)
(* what is grafted on a tree takes their place.                            *)
Near(x, F) == \E y \in F : IsStrictPrefix(x, y) \/ IsStrictPrefix(y, x)
Graft(new, old) ==
  Onto(new, Drop(old, {x \in DOMAIN old : Near(x, DOMAIN new)}))

(* GetResourceName: the name, and the object without the annotation.       *)
NameOf(b) == IF Alias \in DOMAIN b THEN b[Alias]
             ELSE IF Name \in DOMAIN b THEN b[Name] ELSE ""
Anonymous(b) == Drop(b, {Alias})

(* The ready annotation: an unknown value is an error; a known one becomes *)
(* the readiness of the resource and leaves the annotations.               *)
AnyReady(b) == FALSE  \* mutant: no check of the value
BadReady(b) == Ready \in DOMAIN b /\ b[Ready] \notin ReadyValues
SetReady(cd) ==
  IF Ready \in DOMAIN cd.body
    THEN [body |-> Drop(cd.body, {Ready}), ready |-> cd.body[Ready]]
    ELSE cd

Object == data[next]
HasObject == stage = "objects" /\ next <= Len(data)

Fail ==
  /\ stage' = "error"
  /\ UNCHANGED <<request, desired, dxr, metaVars, seen, patches, next>>

-----------------------------------------------------------------------------
(* SetData, leaf by leaf in the order of Go's maps.  The path of a leaf is *)
(* a string that fieldpath takes apart again: of a key with dots it makes  *)
(* several, except right under metadata.annotations and metadata.labels,   *)
(* where SetData puts it in brackets.                                      *)

Parts(k) == IF k \in DOMAIN Split THEN Split[k] ELSE <<k>>
Wraps(path) ==
  LET n == Len(path)
  IN n > 1 /\ path[n - 1] = "metadata" /\ path[n] \in {"annotations", "labels"}
Written(p) ==
  FoldLeft(LAMBDA path, k : path \o (IF Wraps(path) THEN <<k>> ELSE Parts(k)),
           <<>>, p)

(* Where object b is written, but for the paths SetData skips, and the     *)
(* fields that are left of it there: of two at the same path the one       *)
(* written last, and none below another.                                   *)
Paths(b, skip) == {Written(p) : p \in DOMAIN b} \ skip
Topmost(F) == {x \in F : \A y \in F : ~IsStrictPrefix(y, x)}
Values(b, x) == {b[p] : p \in {q \in DOMAIN b : Written(q) = x}}

(* GetValue fails on a path below a value, be it one of the object's own   *)
(* that was written first.                                                 *)
Blocked(b, skip, old) ==
  \E x \in Paths(b, skip), y \in DOMAIN old : IsStrictPrefix(y, x)
Tangled(b, skip) == Paths(b, skip) # Topmost(Paths(b, skip))
MayFail(b, skip, old) ==
  Blocked(b, skip, old) \/ Tangled(b, skip)

SetData(b, skip, old) ==
  LET top == Topmost(Paths(b, skip))
  IN {Graft(f, old) : f \in
        {g \in [top -> Range(b)] : \A x \in top : g[x] \in Values(b, x)}}

-----------------------------------------------------------------------------
(* Target XR: every object is copied onto the XR.                          *)

SetDataOnXR ==
  /\ target = "XR" /\ HasObject
  /\ \/ /\ Object.wellFormed /\ ~Blocked(Object.body, {}, dxr)
        /\ dxr' \in SetData(Object.body, {}, dxr)
        /\ next' = next + 1
        /\ UNCHANGED <<request, desired, metaVars, seen, patches, stage>>
     \/ /\ ~Object.wellFormed \/ MayFail(Object.body, {}, dxr)
        /\ Fail

-----------------------------------------------------------------------------
(* Target Resources: AddResourcesTo merges the top-level fields of the     *)
(* objects into the desired resources of their names.  A field that only   *)
(* held the removed annotation is still there, empty.                      *)

Tops(b) == {Head(p) : p \in DOMAIN b}
Under(tops, b) == {p \in DOMAIN b : Head(p) \in tops}

NeverDuplicate(b) == FALSE  \* mutant: no CheckDuplicateName
Duplicate(b) == NameOf(b) \in seen

AddResource ==
  /\ target = "Resources" /\ HasObject
  /\ LET name == NameOf(Object.body)
         new  == Anonymous(Object.body)
         old  == desired[name].body
         body == IF name \in DOMAIN desired
                   THEN Onto(new, Drop(old, Under(Tops(Object.body), old)))
                   ELSE new
     IN IF Duplicate(Object.body)
          THEN Fail
          ELSE /\ desired' = Put(desired, name, [body |-> body, ready |-> ""])
               /\ seen' = seen \cup {name}
               /\ next' = next + 1
               /\ UNCHANGED <<request, dxr, metaVars, patches, stage>>

-----------------------------------------------------------------------------
(* Targets PatchDesired and PatchResources.                                *)

(* The bases of spec.resources join the desired resources, or replace      *)
(* them; of two bases of a name the later one stays.                       *)
Bases ==
  LET rs      == request.resources
      last(n) == Max({i \in DOMAIN rs : rs[i].name = n})
  IN [n \in {r.name : r \in ToSet(rs)} |->
        [body |-> rs[last(n)].base, ready |-> ""]]

OnlyBases == Bases  \* mutant: the bases take the place of the whole map
Patchable == IF target = "PatchResources" THEN Onto(Bases, desired) ELSE desired

(* MatchResources: all objects name a resource, or nothing is patched.     *)
(* The patches of a resource keep the order of the data.                   *)
MatchResources ==
  LET names == {NameOf(o.body) : o \in ToSet(data)}
      of(n) == {i \in DOMAIN data : NameOf(data[i].body) = n}
  IN /\ target \in {"PatchDesired", "PatchResources"} /\ stage = "objects"
     /\ IF names \subseteq DOMAIN Patchable
          THEN /\ desired' = Patchable
               /\ patches' = [n \in names |-> of(n)]
               /\ stage' = "patch"
               /\ UNCHANGED <<request, dxr, metaVars, seen, next>>
          ELSE Fail

(* SetData of one patch, whose identity is skipped.                        *)
Apply(n, i) ==
  /\ stage = "patch" /\ n \in DOMAIN patches
  /\ LET new == Anonymous(data[i].body)
         old == desired[n].body
     IN \/ /\ data[i].wellFormed /\ ~Blocked(new, Identity, old)
           /\ \E b \in SetData(new, Identity, old) :
                desired' = [desired EXCEPT ![n].body = b]
           /\ patches' = IF patches[n] = {i} THEN Drop(patches, {n})
                         ELSE [patches EXCEPT ![n] = @ \ {i}]
           /\ UNCHANGED <<request, dxr, metaVars, seen, next, stage>>
        \/ /\ ~data[i].wellFormed \/ MayFail(new, Identity, old)
           /\ Fail

\* Mutant: the patches of a resource are applied last to first.
PatchBackwards(n) == Apply(n, Max(patches[n]))
PatchDesired(n) == Apply(n, Min(patches[n]))

-----------------------------------------------------------------------------
(* After Resources and both patch targets: the ready annotations of all    *)
(* desired resources, those of earlier functions included.                 *)

ToReady ==
  /\ \/ stage = "patch" /\ patches = Nothing
     \/ target = "Resources" /\ stage = "objects" /\ next > Len(data)
  /\ stage' = "ready"
  /\ UNCHANGED <<request, desired, dxr, metaVars, seen, patches, next>>

ReadyAnnotation(n) ==
  /\ stage = "ready"
  /\ n \in DOMAIN desired /\ Ready \in DOMAIN desired[n].body
  /\ IF BadReady(desired[n].body)
       THEN Fail
       ELSE /\ desired' = [desired EXCEPT ![n] = SetReady(@)]
            /\ UNCHANGED <<request, dxr, metaVars, seen, patches, next, stage>>

-----------------------------------------------------------------------------
(* Target Default: by the kind of the object.                              *)

Takes(kind) ==
  /\ target = "Default" /\ HasObject
  /\ Object.kind = kind
  /\ next' = next + 1
  /\ UNCHANGED <<request, patches, stage>>

WholeXR(b) == b  \* mutant: all of the object is merged, not its status
StatusOf(b) == Restrict(b, {p \in DOMAIN b : Head(p) = "status"})

PatchStatus ==
  /\ Takes("XR")
  /\ Object.wellFormed
  /\ dxr' = Graft(StatusOf(Object.body), dxr)
  /\ UNCHANGED <<desired, metaVars, seen>>

(* A value stands for the bytes it decodes to.  GetStringObject's error is *)
(* ignored, so that details of another type add nothing.                   *)
ConnectionDetails ==
  /\ Takes("CompositeConnectionDetails")
  /\ connection' = IF Object.wellFormed THEN Onto(Object.body, connection)
                                        ELSE connection
  /\ UNCHANGED <<desired, dxr, extra, required, conditions, events, context,
                 seen>>

(* ToResourceSelector, of both kinds: a name goes before labels, and a     *)
(* namespace is set only if there is one.                                  *)
Selector(r) ==
  [gvk |-> r.gvk, namespace |-> r.namespace,
   match |-> IF r.name = "" THEN [labels |-> r.labels] ELSE [name |-> r.name]]
Selectors(b) == [k \in DOMAIN b |-> Selector(b[k])]

NeverClash(b, old) == FALSE  \* mutant: a requirement key may come twice
Clash(b, old) == DOMAIN b \cap DOMAIN old # {}

ExtraResources ==
  /\ Takes("ExtraResources")
  /\ Object.wellFormed /\ ~Clash(Object.body, extra)
  /\ extra' = Onto(Selectors(Object.body), extra)
  /\ UNCHANGED <<desired, dxr, connection, required, conditions, events,
                 context, seen>>

RequiredResources ==
  /\ Takes("RequiredResources")
  /\ Object.wellFormed /\ ~Clash(Object.body, required)
  /\ required' = Onto(Selectors(Object.body), required)
  /\ UNCHANGED <<desired, dxr, connection, extra, conditions, events,
                 context, seen>>

(* json.Unmarshal decodes into the elements the slice already has, so that *)
(* a field the new element leaves out keeps its value, and then sets the   *)
(* length; the elements beyond it stay in the array.                       *)
Decode(list, old) ==
  [len   |-> Len(list),
   slots |-> [i \in DOMAIN list \cup DOMAIN old.slots |->
                IF i \notin DOMAIN list THEN old.slots[i]
                ELSE IF i \notin DOMAIN old.slots THEN list[i]
                ELSE Onto(list[i], old.slots[i])]]
Decoded(s) == [i \in 1 .. s.len |-> s.slots[i]]

Conditions ==
  /\ Takes("Conditions")
  /\ Object.wellFormed
  /\ conditions' = Decode(Object.list, conditions)
  /\ UNCHANGED <<desired, dxr, connection, extra, required, events, context,
                 seen>>

Events ==
  /\ Takes("Events")
  /\ Object.wellFormed
  /\ events' = Decode(Object.list, events)
  /\ UNCHANGED <<desired, dxr, connection, extra, required, conditions,
                 context, seen>>

Context ==
  /\ Takes("Context")
  /\ Object.wellFormed
  /\ context' = LET old == Under(Tops(Object.body), context)
                IN Onto(Object.body, Drop(context, old))
  /\ UNCHANGED <<desired, dxr, connection, extra, required, conditions,
                 events, seen>>

SetDesired ==
  LET name == NameOf(Object.body)
      cd   == [body |-> Anonymous(Object.body), ready |-> ""]
  IN /\ Takes("Composed")
     /\ ~BadReady(Object.body) /\ ~Duplicate(Object.body)
     /\ desired' = Put(desired, name, SetReady(cd))
     /\ seen' = seen \cup {name}
     /\ UNCHANGED <<dxr, metaVars>>

Rejected(o) ==
  \/ o.kind = "Unknown"
  \/ o.kind \notin {"Composed", "CompositeConnectionDetails"} /\ ~o.wellFormed
  \/ o.kind = "ExtraResources" /\ Clash(o.body, extra)
  \/ o.kind = "RequiredResources" /\ Clash(o.body, required)
  \/ o.kind = "Composed" /\ (BadReady(o.body) \/ Duplicate(o.body))

RejectObject ==
  /\ target = "Default" /\ HasObject
  /\ Rejected(Object)
  /\ Fail

Finish ==
  /\ \/ target \in {"Default", "XR"} /\ stage = "objects" /\ next > Len(data)
     \/ /\ stage = "ready"
        /\ \A n \in DOMAIN desired : Ready \notin DOMAIN desired[n].body
  /\ stage' = "done"
  /\ UNCHANGED <<request, desired, dxr, metaVars, seen, patches, next>>

Next ==
  \/ SetDataOnXR
  \/ AddResource
  \/ MatchResources
  \/ \E n \in DOMAIN patches : PatchDesired(n)
  \/ ToReady
  \/ \E n \in DOMAIN desired : ReadyAnnotation(n)
  \/ PatchStatus
  \/ ConnectionDetails
  \/ ExtraResources
  \/ RequiredResources
  \/ Conditions
  \/ Events
  \/ Context
  \/ SetDesired
  \/ RejectObject
  \/ Finish

Spec == Init /\ [][Next]_vars

-----------------------------------------------------------------------------
(* Properties.                                                             *)

(* The objects that become, or patch, composed resources.                  *)
Composes(i) ==
  target # "XR" /\ (target = "Default" => data[i].kind = "Composed")
Naming(n) == {i \in DOMAIN data : Composes(i) /\ NameOf(data[i].body) = n}
Touched(n) == Naming(n) # {} \/ (target = "PatchResources" /\ n \in DOMAIN Bases)

(* No function of the pipeline undoes an earlier one by not naming what it *)
(* desired: the resource stays, with its contents and, unless its own      *)
(* ready annotation says otherwise, its readiness.  And no resource comes  *)
(* that nobody names.                                                      *)
EarlierStateKept ==
  /\ \A n \in DOMAIN request.desired :
       LET old == request.desired[n]
       IN /\ n \in DOMAIN desired
          /\ ~Touched(n) => desired[n] \in {old, SetReady(old)}
  /\ \A n \in DOMAIN desired : n \in DOMAIN request.desired \/ Touched(n)

(* What an object of name n leaves of the resource desired before it.      *)
Left(b, n) == IF target = "Resources" /\ n \in DOMAIN request.desired
                THEN {p \in DOMAIN request.desired[n].body : Head(p) \notin Tops(b)}
                ELSE {}

(* Every composed resource KCL returns under Default and Resources arrives *)
(* under its name with all its fields and the readiness it asks for: two   *)
(* of the same name are an error, not a silent loss, whichever comes first.*)
(* Under Resources the top-level fields it does not have stay what they    *)
(* were, and nothing else does.  (One without metadata keeps those of an   *)
(* earlier one without a name.)                                            *)
ItemsLand ==
  stage = "done" /\ target \in {"Default", "Resources"} =>
    \A i \in DOMAIN data : Composes(i) =>
      LET b == data[i].body
          n == NameOf(b)
      IN /\ n \in DOMAIN desired
         /\ DOMAIN desired[n].body =
              ((DOMAIN b \ {Alias}) \cup Left(b, n)) \ {Ready}
         /\ \A p \in DOMAIN b \ {Alias, Ready} : desired[n].body[p] = b[p]
         /\ \A p \in Left(b, n) \ {Ready} :
              desired[n].body[p] = request.desired[n].body[p]
         /\ "metadata" \in Tops(b) \/ n \notin DOMAIN request.desired =>
              desired[n].ready = IF Ready \in DOMAIN b THEN b[Ready] ELSE ""

(* The fields object i gives the XR or the resources it patches: where     *)
(* SetData writes it, or what is its status if it is an XR under Default.  *)
Gives(i) ==
  LET b == data[i].body
  IN CASE target = "XR" -> Topmost(Paths(b, {}))
       [] target \in {"PatchDesired", "PatchResources"} ->
            Topmost(Paths(Anonymous(b), Identity))
       [] target = "Default" /\ data[i].kind = "XR" ->
            {p \in DOMAIN b : Head(p) = "status"}
       [] OTHER -> {}
Says(i, x) ==
  LET b == data[i].body
  IN CASE target = "XR" -> Values(b, x)
       [] target = "Default" -> {b[x]}
       [] OTHER -> Values(Anonymous(b), x)

(* What the objects of indices A, in their order, leave of old: each field *)
(* unless a later object gives one above or below it, with what the last   *)
(* object that gives it says.                                              *)
Givers(A, x) == {i \in A : x \in Gives(i)}
Replaced(A, x) ==
  \E j \in A : Near(x, Gives(j)) /\ \A i \in Givers(A, x) : i < j
Fields(A, old) ==
  {x \in DOMAIN old \cup UNION {Gives(i) : i \in A} : ~Replaced(A, x)}
Contents(A, old, x) ==
  IF Givers(A, x) = {} THEN {old[x]} ELSE Says(Max(Givers(A, x)), x)

(* What a resource was before it was patched.                              *)
Unpatched(n) == IF target = "PatchResources" /\ n \in DOMAIN Bases
                  THEN Bases[n] ELSE request.desired[n]
Patched(n) == Fields(Naming(n), Unpatched(n).body)
Value(n, p) == Contents(Naming(n), Unpatched(n).body, p)

(* Whatever order the matches are ranged over in, every object patches a   *)
(* resource there is, and every field of a resource ends as the last patch *)
(* that sets it says, identity aside, or else as it was, in its base if it *)
(* has one, unless a patch sets a field above or below it: patches lose no *)
(* update and touch nothing else.  A field is the path its leaf is written *)
(* to, which is not always the one it has in the object.                   *)
PatchesLand ==
  stage = "done" /\ target \in {"PatchDesired", "PatchResources"} =>
    /\ {NameOf(o.body) : o \in ToSet(data)} \subseteq DOMAIN desired
    /\ \A n \in DOMAIN desired :
         /\ DOMAIN desired[n].body = Patched(n) \ {Ready}
         /\ \A p \in Patched(n) \ {Ready} : desired[n].body[p] \in Value(n, p)
         /\ desired[n].ready \in IF Ready \in Patched(n) THEN Value(n, Ready)
                                 ELSE {Unpatched(n).ready}

(* The objects of a meta kind that have been taken and could be read, and  *)
(* the last one of them that has a key, or a top-level field.              *)
Taken(kind) == {i \in 1 .. next - 1 : data[i].kind = kind /\ data[i].wellFormed}
WithKey(k) ==
  {i \in Taken("CompositeConnectionDetails") : k \in DOMAIN data[i].body}
WithTop(t) == {i \in Taken("Context") : t \in Tops(data[i].body)}

LastDetails(details) ==
  /\ DOMAIN details = DOMAIN request.connection \cup
       UNION {DOMAIN data[i].body : i \in Taken("CompositeConnectionDetails")}
  /\ \A k \in DOMAIN details :
       details[k] = IF WithKey(k) = {} THEN request.connection[k]
                    ELSE data[Max(WithKey(k))].body[k]
LastContext ==
  /\ DOMAIN context =
       UNION {{p \in DOMAIN data[i].body : Max(WithTop(Head(p))) = i} :
              i \in Taken("Context")}
  /\ \A p \in DOMAIN context :
       context[p] = data[Max(WithTop(Head(p)))].body[p]

(* What a requirement asks for: its kind and namespace and its name or its *)
(* labels.  Of both, requiredresources.go:18-22 lets the name decide, and  *)
(* extraresources.go:18-22 the labels, which the code does not: it is left *)
(* open here which one it is.                                              *)
Selects(s, r) ==
  /\ s.gvk = r.gvk /\ s.namespace = r.namespace
  /\ s.match \in {[name |-> r.name], [labels |-> r.labels]}
  /\ r.name = "" => s.match = [labels |-> r.labels]
  /\ r.labels = "" /\ r.name # "" => s.match = [name |-> r.name]
NameDecides(s, r) == r.name # "" => s.match = [name |-> r.name]

(* Objects of a meta kind add up.  No requirement Crossplane is asked for  *)
(* replaces another: each key of each object arrives with what it selects, *)
(* or the call fails.  A connection detail is the one of the last object   *)
(* that has its key, or else the XR's own; a top-level field of the        *)
(* context is, with all it holds, the one of the last object that has it.  *)
MetaLand ==
  target = "Default" =>
    /\ \A i \in 1 .. next - 1 : \A k \in DOMAIN data[i].body :
         LET r == data[i].body[k]
         IN /\ data[i].kind = "ExtraResources" => Selects(extra[k], r)
            /\ data[i].kind = "RequiredResources" =>
                 Selects(required[k], r) /\ NameDecides(required[k], r)
    /\ LastDetails(connection)
    /\ LastContext

(* Each field of the XR is what the last object that gives it says, or     *)
(* else what it was, unless a later object gives one above or below it.    *)
(* Under Default KCL writes nothing but its status: an XR it returns       *)
(* whole, as the README's dxr = {**oxr}, brings no spec along.  Where      *)
(* composed resources are the target it writes nothing.                    *)
XRLands ==
  LET taken == 1 .. next - 1
  IN /\ DOMAIN dxr = Fields(taken, request.xr)
     /\ \A p \in DOMAIN dxr : dxr[p] \in Contents(taken, request.xr, p)

(* What res.go:304-305 says of SetData, "it will then copy from 'data' at  *)
(* the given path to the passed o object - at the same path": an XR has    *)
(* all fields of the last object written to it, under their own keys.      *)
CopiedToSamePath ==
  stage = "done" /\ target = "XR" /\ data # <<>> =>
    LET b == Last(data).body
    IN \A p \in DOMAIN b : p \in DOMAIN dxr /\ dxr[p] = b[p]

(* What res.go:531 says of every Conditions object, "Returns conditions to *)
(* add to the claim / composite": when all objects have been taken, no     *)
(* condition of one of them is missing or has fields it did not give.      *)
EveryConditionAdded ==
  stage = "done" /\ target = "Default" =>
    \A i \in DOMAIN data : data[i].kind = "Conditions" =>
      ToSet(data[i].list) \subseteq ToSet(Decoded(conditions))
=============================================================================
