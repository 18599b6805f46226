\* Two calls at a time of twelve requests; the default source is an OCI one.
SPECIFICATION Spec
CONSTANTS
  Calls = {c1, c2}
  Caches = {o1, o2, o3, o4}
  MaxAge = 2
  MaxWait = 1
  Nobody = Nobody
  Never = Never
  Requests <- ModelRequests
  DefaultSource = "oci"
  BaseDependencies <- NoDependencies
  Unreadable = Unreadable
  Nil = Nil
SYMMETRY Symmetry
INVARIANTS
  TypeOK
  KeyDeterminesRender
  ParamsAreCurrent
  TokenAgeBounded
PROPERTY OneResetPerAge
