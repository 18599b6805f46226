----------------------------- MODULE MCResponse -----------------------------
(***************************************************************************)
(* Requests and KCL outputs for Response and ProcessResources: every       *)
(* output of up to MaxObjects objects from a small stock, for each target. *)
(***************************************************************************)
EXTENDS Response

CONSTANTS MaxObjects,      \* bound: objects in one output
          ConditionsOnly   \* whether outputs hold Conditions objects alone

MCSplit == "q.x" :> <<"q", "x">> @@ "r.x" :> <<"r", "x">>

P == <<"spec", "p">>
Q == <<"spec", "q">>
S == <<"status", "s">>
Key(k) == <<k>>
Env(k) == <<"env", k>>

Of(kind, body, list) ==
  [kind |-> kind, wellFormed |-> TRUE, body |-> body, list |-> list]
Broken(o) == [o EXCEPT !.wellFormed = FALSE]

\* Two objects for "a", one of them for "b" by annotation, one that is ready,
\* one with a readiness nobody knows, and one for a name nobody desired.
Composed == {
  Of("Composed", Name :> "a" @@ P :> "1", <<>>),
  Of("Composed", Name :> "a" @@ P :> "2" @@ Q :> "2", <<>>),
  Of("Composed", Alias :> "b" @@ Name :> "a" @@ Q :> "3", <<>>),
  Of("Composed", Name :> "b" @@ Ready :> "False" @@ P :> "4", <<>>),
  Of("Composed", Name :> "b" @@ Ready :> "Perhaps", <<>>),
  Of("Composed", Name :> "c" @@ P :> "5", <<>>),
  Broken(Of("Composed", Name :> "a" @@ Q :> "6", <<>>)) }

\* An XR that is returned whole, and the meta kinds.
XRs == { Of("XR", P :> "7" @@ S :> "7", <<>>),
         Broken(Of("XR", S :> "8", <<>>)) }

Wants(name, labels) ==
  [gvk |-> "g", namespace |-> "", name |-> name, labels |-> labels]

ConditionLists == {
  << [type |-> "A", reason |-> "1"],
     [type |-> "A", reason |-> "2", force |-> TRUE],
     [type |-> "B", reason |-> "3"] >>,
  << [type |-> "A", reason |-> "4"], [type |-> "A", reason |-> "5"] >>,
  << [type |-> "B", reason |-> "6"], [type |-> "Synced", reason |-> "7"] >> }

ConditionObjects == {Of("Conditions", Nothing, l) : l \in ConditionLists}

Metas == ConditionObjects \cup {
  Of("CompositeConnectionDetails", Key("user") :> "9", <<>>),
  Of("CompositeConnectionDetails", Key("user") :> "18" @@ Key("pass") :> "18",
     <<>>),
  Of("ExtraResources", Key("k") :> Wants("10", "x"), <<>>),
  Of("ExtraResources",
     Key("k") :> Wants("11", "") @@ Key("l") :> Wants("", "x"), <<>>),
  Of("RequiredResources", Key("k") :> Wants("", "12"), <<>>),
  Of("RequiredResources", Key("k") :> Wants("13", ""), <<>>),
  Of("Events", Nothing, << [type |-> "Warning"], [msg |-> "14"] >>),
  Of("Events", Nothing, << [type |-> "Odd"] >>),
  Of("Context", Env("x") :> "15" @@ Env("y") :> "15" @@ Key("k") :> "15", <<>>),
  Of("Context", Env("y") :> "19" @@ <<"env", "z", "w">> :> "19", <<>>),
  Of("Unknown", Nothing, <<>>) }

\* Keys with dots: one that ends up below q, and two ways to the same path.
Dotted == {
  Of("Composed", Name :> "a" @@ <<"spec", "q.x">> :> "20", <<>>),
  Of("Composed", Name :> "a" @@ <<"spec", "r.x">> :> "21"
                   @@ <<"spec", "r", "x">> :> "22" @@ Ready :> "True", <<>>),
  Of("Composed", Name :> "b" @@ <<"spec", "r">> :> "23"
                   @@ <<"spec", "r.x">> :> "24", <<>>) }

Stock(t) ==
  IF ConditionsOnly THEN ConditionObjects
  ELSE IF t = "Default" THEN Composed \cup XRs \cup Metas
  ELSE Composed \cup Dotted \cup {Of("XR", P :> "7" @@ S :> "7", <<>>)}

Outputs(t) == UNION {[1 .. n -> Stock(t)] : n \in 0 .. MaxObjects}

A == [body |-> Name :> "a" @@ P :> "0" @@ Q :> "0", ready |-> "True"]
B == [body |-> Name :> "b" @@ Ready :> "True" @@ P :> "0", ready |-> ""]
Earlier == {Nothing, "a" :> A @@ "b" :> B}
Base(b) == [name |-> "a", base |-> b]
SpecResources(t) ==
  LET one == Base(Name :> "a" @@ Q :> "16")
  IN IF t = "PatchResources"
       THEN {<<one>>, <<Base(Name :> "a" @@ P :> "17"), one>>} ELSE {<<>>}

MCRequests ==
  UNION {[target : {t}, data : Outputs(t), desired : Earlier,
          resources : SpecResources(t), xr : {S :> "0" @@ P :> "0"},
          connection : IF t = "Default" THEN {Nothing, Key("user") :> "0"}
                       ELSE {Key("user") :> "0"},
          context : {Env("y") :> "0" @@ Env("z") :> "0"}] :
         t \in Targets}
=============================================================================
