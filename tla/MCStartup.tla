----------------------------- MODULE MCStartup -----------------------------
(***************************************************************************)
(* Environments for TLC, on a scaled-down machine: uint64 has 8 bits, the  *)
(* units are 2, 4 and 8, and a container limit of 32 or more counts as     *)
(* none, as one of 1 PiB does.                                             *)
(***************************************************************************)
EXTENDS Startup

Size(n, unit) == [n |-> n, unit |-> unit]

Default ==
  [bytes |-> Unset, ratio |-> Unset, reconciles |-> Unset, lifetime |-> Unset,
   interval |-> Unset, drain |-> Unset, cacheSize |-> Unset,
   cacheTTL |-> Unset, dependencies |-> Unset, host |-> "v2", limit |-> 14]

\* Sizes that are 0, small, larger than the container, that wrap to 32, to 0.
Limits ==
  {[Default EXCEPT !.bytes = b, !.ratio = r, !.host = h, !.limit = l] :
     b \in Text({Size(0, ""), Size(3, "Ki"), Size(3, "Gi"), Size(36, "Gi"),
                  Size(32, "Gi")}),
     r \in Text({0, 50, 100, 2000}),
     h \in {"v1", "v2", "hidden"}, l \in {None, 8, 14}}
Triggers ==
  {[Default EXCEPT !.reconciles = n, !.lifetime = d, !.interval = i,
                   !.ratio = r] :
     n \in Text({0, 1}), d \in Text({-1, 0, 1}), i \in Text({-1, 0, 1}),
     r \in {Unset, 0}}
Others ==
  {[Default EXCEPT !.cacheSize = s, !.cacheTTL = t, !.drain = t,
                   !.dependencies = f] :
     s \in Text({0, 3, Word - 1}), t \in Text({-1, 1}),
     f \in Text({"file"})}

ModelEnvironments == Limits \cup Triggers \cup Others
ModelFactor == [u \in {"", "Ki", "Mi", "Gi"} |->
  CASE u = "" -> 1 [] u = "Ki" -> 2 [] u = "Mi" -> 4 [] u = "Gi" -> 8]
=============================================================================
