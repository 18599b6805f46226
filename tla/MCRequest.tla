----------------------------- MODULE MCRequest -----------------------------
(***************************************************************************)
(* Requests for TLC: pairs that differ in one part of the input or of the  *)
(* state each, those that cannot be read or that Validate rejects or       *)
(* repairs, and those whose bases are missing or no objects.               *)
(***************************************************************************)
EXTENDS Request, TLC

Input ==
  [source |-> "inline", target |-> "", dependencies |-> <<>>,
   params |-> [x \in {} |-> Nil],
   credentials |-> [username |-> "", password |-> ""],
   config |-> [vendor |-> FALSE, arguments |-> <<>>], resources |-> <<>>]
State ==
  [p \in SystemParams |->
     [kind |-> IF p = "oxr" THEN "XR" ELSE "", body |-> p]]
Plain == [input |-> Input, state |-> State, secret |-> [x \in {} |-> Nil]]

Base(value) == <<[name |-> "a", base |-> value]>>

ModelRequests == {
  Plain,
  [Plain EXCEPT !.state["ctx"].body = "other"],
  [Plain EXCEPT !.input = Unreadable],
  [Plain EXCEPT !.input.config.arguments = <<"x">>],
  [Plain EXCEPT !.input.params = [p \in {"oxr", "mine"} |-> State["ctx"]]],
  [Plain EXCEPT !.input.dependencies = <<"oci">>, !.input.target = "Other"],
  [Plain EXCEPT !.input.source = "",
                !.secret = [password |-> "pw", url |-> "u"]],
  [Plain EXCEPT !.input.source = "git", !.state["ctx"] = Unreadable],
  [Plain EXCEPT !.input.target = "PatchResources",
                !.input.resources = Base(Nil)],
  [Plain EXCEPT !.input.target = "PatchResources",
                !.input.config = [vendor |-> TRUE, arguments |-> <<"x">>],
                !.input.resources = Base("object")],
  [Plain EXCEPT !.input.target = "XR",
                !.input.resources = Base(Unreadable) \o Base(Nil)],
  [Plain EXCEPT !.input.target = "Default",
                !.input.resources = Base("object") \o Base(Nil)]}

NoDependencies == <<>>
Symmetry == Permutations(Calls) \cup Permutations(Caches)
=============================================================================
