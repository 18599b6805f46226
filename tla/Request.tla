------------------------------ MODULE Request ------------------------------
(***************************************************************************)
(* What RunFunction does with a request before its output is processed     *)
(* (fn.go 64-274): the defaults, the validation, the parameters, the key   *)
(* of the render cache, the invocation of the KCL program (render.go) and  *)
(* the bases.  Calls share the OCI token cache and nothing else.  A source *)
(* is represented by its kind; a nil map of parameters is an empty one.    *)
(***************************************************************************)
EXTENDS OCITokenCache, Sequences

CONSTANTS
  Requests,          \* [input, state, secret]
  DefaultSource,     \* FUNCTION_KCL_DEFAULT_SOURCE
  BaseDependencies,  \* what the file of --dependencies lists
  Unreadable, Nil

Targets == {"Default", "PatchDesired", "PatchResources", "Resources", "XR"}
SystemParams == {"oxr", "dxr", "dcds", "ocds", "ctx", "extraResources",
                 "requiredResources"}

InputFields == {"source", "target", "dependencies", "params", "credentials",
                "config", "resources"}

(* The input and the state that RunFunction reads into parameters, unless  *)
(* it cannot.                                                              *)
ASSUME RequestsAssumption ==
  \A r \in Requests :
    /\ r.input # Unreadable => DOMAIN r.input = InputFields
    /\ DOMAIN r.state = SystemParams
    /\ r.state["dxr"] # Unreadable =>
         {"kind", "body"} \subseteq DOMAIN r.state["dxr"]

VARIABLES
  stage,  \* how far each call is
  req,    \* the request of each call
  in,     \* the KCLInput decoded from it
  key,    \* the key of the render cache
  run     \* what the KCL runtime was given

requestVars == <<stage, req, in, key, run, ociVars>>

Stages == {"idle", "reset", "render", "bases", "done", "failed", "panicked"}

Init ==
  /\ OCIInit
  /\ stage = [c \in Calls |-> "idle"]
  /\ req \in [Calls -> {Nil}] /\ in = req /\ key = req /\ run = req

Up == \A c \in Calls : stage[c] # "panicked"
To(c, from, s) ==
  /\ Up /\ stage[c] = from
  /\ stage' = [stage EXCEPT ![c] = s]

Onto(f, g) ==
  [x \in DOMAIN f \cup DOMAIN g |-> IF x \in DOMAIN f THEN f[x] ELSE g[x]]

IsOCI(source) == source = "oci"
isInlineSource(source) == source = "inline"

-----------------------------------------------------------------------------
(* The default source comes before the look at its prefix.                 *)

WithSource(i) ==
  IF i.source = "" THEN [i EXCEPT !.source = DefaultSource] ELSE i

\* Mutant: the prefix is looked at before the default is set.
PrefixFirst(i) == IsOCI(i.source)
NeedsReset(i) == IsOCI(WithSource(i).source)

Receive(c, r) ==
  /\ \/ /\ r.input # Unreadable
        /\ To(c, "idle", "reset")
        /\ Enter(c, NeedsReset(r.input))
        /\ in' = [in EXCEPT ![c] = WithSource(r.input)]
     \/ /\ r.input = Unreadable
        /\ To(c, "idle", "failed")
        /\ Enter(c, FALSE)
        /\ UNCHANGED in
  /\ req' = [req EXCEPT ![c] = r]
  /\ UNCHANGED <<key, run>>

Reset(c) ==
  /\ Up /\ ResetStep(c)
  /\ UNCHANGED <<stage, req, in, key, run>>

WithCredentials(i, secret) ==
  IF "password" \in DOMAIN secret
  THEN [i EXCEPT !.credentials = Onto(secret, @)] ELSE i

Defaulted(i, secret) ==
  WithCredentials(
    [i EXCEPT !.target = IF @ = "" THEN "Default" ELSE @,
              !.dependencies = BaseDependencies \o @], secret)

(* KCLInput.Validate: its errors, and the target it falls back to.         *)
Invalid(i) ==
  \/ i.source = ""
  \/ i.target = "PatchResources"
     /\ (i.resources = <<>>
         \/ \E n \in DOMAIN i.resources : \/ i.resources[n].name = ""
                                          \/ i.resources[n].base = Nil)
Validated(i) ==
  IF i.target \in Targets THEN i ELSE [i EXCEPT !.target = "Default"]

(* The parameters the function sets; dxr gets the kind of oxr.             *)
SystemValues(state) ==
  [state EXCEPT !["dxr"] = [@ EXCEPT !.kind = state["oxr"].kind]]
\* Mutant: the input's own parameters win.
UserParamsFirst(i, state) ==
  [i EXCEPT !.params = Onto(@, SystemValues(state))]
WithParams(i, state) ==
  [i EXCEPT !.params = Onto(SystemValues(state), @)]

Reads(r) == \A p \in SystemParams : r.state[p] # Unreadable

\* Mutant: the key is taken before the state is added to the parameters.
KeyBeforeState(i) ==
  [i EXCEPT !.params = [p \in DOMAIN i.params \ SystemParams |-> i.params[p]]]
renderKey(i) == i

Prepare(c) ==
  LET i == Defaulted(in[c], req[c].secret) IN
  /\ stage[c] = "reset" /\ at[c] = "ready"
  /\ \/ /\ Invalid(i) \/ ~Reads(req[c])
        /\ To(c, "reset", "failed")
        /\ UNCHANGED <<in, key>>
     \/ /\ ~Invalid(i) /\ Reads(req[c])
        /\ To(c, "reset", "render")
        /\ in' = [in EXCEPT ![c] = WithParams(Validated(i), req[c].state)]
        /\ key' = [key EXCEPT ![c] = renderKey(in'[c])]
  /\ UNCHANGED <<req, run, ociVars>>

-----------------------------------------------------------------------------
(* The render, unless the cache has the key (FunctionPod): renderInline    *)
(* for inline code, else the krm-kcl pipeline, which is given the whole    *)
(* input.  Both get the environment of the process, which does not change. *)

UsesRegistry(i) == IsOCI(i.source) \/ i.dependencies # <<>>

Fetch(c) ==
  /\ Up /\ stage[c] = "render" /\ UsesRegistry(in[c])
  /\ Pull(c) \/ UseToken(c)
  /\ UNCHANGED <<stage, req, in, key, run>>

(* kcl.Run takes the options of the configuration one by one and not its   *)
(* arguments; in vendor mode they follow those of kclArguments.            *)
InlineRun(i) ==
  [path         |-> IF i.config.vendor THEN "vendor" ELSE "inline",
   source       |-> i.source,
   dependencies |-> i.dependencies,
   params       |-> i.params,
   functionConfig |-> i,
   arguments    |-> IF i.config.vendor THEN i.config.arguments ELSE <<>>]

PipelineRun(i) ==
  [path         |-> "pipeline",
   source       |-> i.source,
   dependencies |-> i.dependencies,
   params       |-> i.params,
   functionConfig |-> i,
   arguments    |-> i.config.arguments]

Rendered(i) ==
  IF isInlineSource(i.source) THEN InlineRun(i) ELSE PipelineRun(i)

Fetched(c) == UsesRegistry(in[c]) => at[c] = "pulled"

Render(c) ==
  /\ To(c, "render", "bases") /\ Fetched(c)
  /\ run' = [run EXCEPT ![c] = Rendered(in[c])]
  /\ UNCHANGED <<req, in, key, ociVars>>

(* It does not compile or run, or what the registry answered is of no use. *)
RenderFails(c) ==
  /\ To(c, "render", "failed") /\ Fetched(c)
  /\ UNCHANGED <<req, in, key, run, ociVars>>

(* The bases of spec.resources, in order: a missing one is dereferenced,   *)
(* one that is no object is an error.                                      *)
ReadBases(c) ==
  LET bases == in[c].resources
      bad == {n \in DOMAIN bases : bases[n].base \in {Nil, Unreadable}} IN
  /\ \/ To(c, "bases", "done") /\ bad = {}
     \/ /\ To(c, "bases", "failed")
        /\ \E n \in bad : bases[n].base # Nil /\ \A m \in bad : n <= m
     \/ /\ To(c, "bases", "panicked")
        /\ \E n \in bad : bases[n].base = Nil /\ \A m \in bad : n <= m
  /\ UNCHANGED <<req, in, key, run, ociVars>>

Return(c) ==
  /\ \/ To(c, "done", "idle")
     \/ To(c, "failed", "idle")
  /\ Quit(c)
  /\ req' = [req EXCEPT ![c] = Nil]
  /\ in' = [in EXCEPT ![c] = Nil]
  /\ key' = [key EXCEPT ![c] = Nil]
  /\ run' = [run EXCEPT ![c] = Nil]

PassTime ==
  /\ Up /\ Tick
  /\ UNCHANGED <<stage, req, in, key, run>>

(* A panic brings the process down, and every call with it; the next one   *)
(* starts with a token cache of its own.                                   *)
Restart ==
  /\ ~Up
  /\ stage' = [c \in Calls |-> "idle"]
  /\ req' = [c \in Calls |-> Nil]
  /\ in' = req' /\ key' = req' /\ run' = req'
  /\ NewProcess

Next ==
  \/ \E c \in Calls :
       \/ \E r \in Requests : Receive(c, r)
       \/ Reset(c) \/ Prepare(c) \/ Fetch(c) \/ Render(c)
       \/ RenderFails(c) \/ ReadBases(c) \/ Return(c)
  \/ PassTime
  \/ Restart

Spec == Init /\ [][Next]_requestVars

-----------------------------------------------------------------------------
(* Properties.                                                             *)

(* A program is only run with a source and a target that exist; under      *)
(* PatchResources every base has a name and a value, so that the only      *)
(* missing base that brings the process down came with another target; and *)
(* no OCI source, the default one included, escapes the reset of the       *)
(* token cache.                                                            *)
TypeOK ==
  \A c \in Calls :
    /\ stage[c] \in Stages /\ at[c] \in Places
    /\ stage[c] \in {"render", "bases", "done"} =>
         /\ in[c].source # "" /\ in[c].target \in Targets
         /\ SystemParams \subseteq DOMAIN in[c].params
    /\ stage[c] = "panicked" => in[c].target # "PatchResources"
    /\ stage[c] = "render" /\ IsOCI(in[c].source) => c \in checked

(* Two renders of the same key are given the same: the program, its        *)
(* dependencies, arguments, options and parameters are all in the key, and *)
(* nothing of the call is added to them after the key is taken.            *)
KeyDeterminesRender ==
  \A c, d \in Calls :
    run[c] # Nil /\ run[d] # Nil /\ key[c] = key[d] => run[c] = run[d]

(* Whatever parameters the input brings, the program sees the state that   *)
(* this request holds under the seven names the function owns, with the    *)
(* desired XR of the observed one's kind.                                  *)
ParamsAreCurrent ==
  \A c \in Calls :
    run[c] # Nil =>
      /\ run[c].params["dxr"].kind = req[c].state["oxr"].kind
      /\ run[c].params["dxr"].body = req[c].state["dxr"].body
      /\ \A p \in SystemParams \ {"dxr"} : run[c].params[p] = req[c].state[p]

(* input.go:117-121: a base is optional and may be left out.               *)
OmittedBaseAccepted == \A c \in Calls : stage[c] # "panicked"
=============================================================================
