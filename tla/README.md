# A TLA+ model of function-kcl

`function-kcl` is a Crossplane composition function: a gRPC server that, for every reconcile, runs a
KCL program over the composite resource (XR) and merges what the program returns into the desired
state. This directory holds TLA+ modules that model its behaviour, the TLC configurations that check
them on small instances, and proofs, checked by TLAPS, that hold for every instance. Line numbers
refer to the repository's `src/`.

## 1. The system

| Component | Code | State | Operations | Modelled |
|---|---|---|---|---|
| Memory recycler | `recycle.go` | RWMutex `gate`, atomics `inflight`, `count`, `draining`, the start time | `begin`, `end`, `watch`, `shouldRecycle`, `recycle` | yes |
| Recycler configuration | `recycle.go:67-93, 247-348`, `rendercache.go:50-75` | none | environment, cgroup files, 64-bit arithmetic | yes |
| Render cache | `rendercache.go` | LRU list `ll`, map `items`, hit/miss counters, one mutex | `lookup`, `store`, `enabled`, `stats` | yes |
| OCI token cache | `fn.go:349-364` | `remoteauth.DefaultCache`, `ociCacheCreated`, global | `resetOCITokenCacheIfNeeded` | yes |
| RunFunction | `fn.go` | the response and everything derived from the request, local to a call | one handler of about thirty stages, most of which can end it with a Fatal result | yes |
| Render paths | `render.go` | none | `renderInline`, the krm-kcl pipeline, `renderKey` | partly |
| KCLInput | `input/v1alpha1/input.go` | none | `Validate` | yes |
| Resource processing | `pkg/resource/res.go` | the maps RunFunction hands over, changed in place | `ProcessResources`, `AddResourcesTo`, `MatchResources`, `SetData`, the duplicate checker | yes |
| Requirement selectors | `pkg/resource/{extra,required}resources.go` | none | `ToResourceSelector` | yes |
| Conditions, events, context | `pkg/resource/{conditions,events,context}.go` | the response | `SetConditions`, `SetEvents`, `MergeContext` | yes |
| Command line | `main.go` | none | flags; reads the dependencies file, starts the watchdog and the server | partly |
| Generated code, package, examples | `zz_generated.deepcopy.go`, `package/`, `examples/` | none | none | no |

How they interact. The gRPC server calls `RunFunction` on a goroutine per request. Every call passes
the recycler's gate (`begin`, deferred `end`), fills its input in (default source, credentials, target,
dependencies), resets the OCI token cache if its source is an OCI one, validates, adds the state of the
request as seven parameters, looks the serialized input up in the render cache, renders it with KCL on a
miss and stores the output, parses it, has `ProcessResources` merge it and fills the response. Rendering
leaks native memory, so a watchdog goroutine samples the limits, which come from the environment and the
container's cgroup, and, when one is crossed, sets `draining`, waits for the gate or a timer and exits;
Kubernetes then restarts the container and Crossplane repeats the reconcile. Recycler, render cache and
token cache are the only state calls share.

What is hard: the two-step check of `begin` against a drain that starts in between; the order of counter
and gate; renders that hang and RSS that cannot be read; limits that wrap around, are cut off or come
from files that say "none" in two ways; the recency list and the map of the cache staying one thing; a
TTL that must not be renewed by use; renders of one key racing each other while a remote module is
published anew; a global object replaced under a lock its readers do not take; user parameters that
share a map with the function's; a handler that returns no error and so must say in the response that it
failed; maps changed in place before an error is met; Go's random map order; several objects of one name
or key in one output; paths that are a string half of their way. `PROJECT.json` lists these hazards line
by line with the properties that cover them.

What makes each component correct:

- recycler: the drain owns the gate only when nobody is inside; it takes no new call in; exactly one
  drain; it starts only for a reading that reached an enabled limit and starts whenever one stays crossed;
  it ends although renders hang.
- configuration: limits and cache size come out in range whatever the texts say, and a process crashes only
  over a check interval that is not positive when a limit is on; under the default the kernel kills only
  what leaked more than the remaining 15% since the last reading that let it run on; an explicit limit
  that fits is the one that counts.
- cache: list and map agree and stay bounded; least-recently-used order; TTL from the time of the store.
- token cache: one reset per half hour, and no token that was older than that when a call came.
- request: what is rendered is valid, belongs to this request and is named by its key.
- a pod: a call gets its own request's output, failures are not remembered, stale outputs expire, leaks
  are reset.
- processing and response: nothing KCL returned, at the paths it is written to, and nothing earlier
  functions desired is lost without a Fatal result; a failed call says so once; a failed call passes the
  earlier desired state on, but for the connection details of the objects before the error.

## 2. The modules

| Module | What it is |
|---|---|
| `GracefulDrain` | abstract: calls knock and enter while the gate is open, the process stops cleanly only when empty, and it stops |
| `Recycler` | `recycle.go`, one action per atomic step of each goroutine; implements `GracefulDrain` |
| `Memo` | abstract: a bounded memo with a TTL |
| `RenderCache` | `rendercache.go`, one action per outcome of `lookup` and `store`; implements `Memo` |
| `MCRenderCache` | adds a record of use that knows no capacity, for the LRU properties |
| `FunctionPod` | composes `Recycler` and `RenderCache` (by `INSTANCE`) with concurrent `RunFunction` calls, publishers of remote modules, the leak and Kubernetes' restarts |
| `OCITokenCache` | `resetOCITokenCacheIfNeeded`, step by step, and the pulls that read `DefaultCache` meanwhile |
| `Request` | extends `OCITokenCache` with RunFunction's way from the request to the render and the bases; implements `OCITokenCache` |
| `Startup` | the environment, the configuration that comes out of it, and what becomes of the process under it |
| `ProcessResources` | `pkg/resource/res.go`, one action per loop iteration |
| `Response` | extends `ProcessResources` with the stages of `RunFunction` around it and the response |
| `MCRequest`, `MCStartup`, `MCResponse` | the requests, environments and KCL outputs that are enumerated |
| `RecyclerProofs`, `RenderCacheProofs`, `LRUProofs`, `PodProofs`, `StartupProofs`, `RequestProofs`, `ProcessProofs`, `ResponseProofs` | theorems |

`FunctionPod`, `Request` and `Response` each take a part of the one handler: `FunctionPod` everything
calls share and the five steps from lookup to parse, for concurrent calls; `Request` what happens before
the render and the bases that are read after it; `Response` what happens after. They meet at the input
(a `Requests` value in `FunctionPod`, taken apart in `Request`) and at the output (an `Outputs` value in
`FunctionPod`, a sequence of objects in `Response`).

### Recycler

`call[c]` is where a call is: `admitted` (saw `draining` false, is at `gate.RLock`), `locked`,
`counting`, `rendering`, `ending` (between the two statements of `end`), `returned` or `rejected` (left
the handler; the response is not sent yet). `readers` and `locker` are the RWMutex: a locker that is
`pending` has announced itself, so no reader enters any more, and waits for those it found. `watch[w]`
is where a watcher is; the program starts one, and the run has two, as `TestRecycleIsIdempotent` does.
`count` and `elapsed` are only compared with their limits and kept up to these. `rss` changes at will and
may be unreadable (`ReadError`). A `reason` is the limit and the reading of it, taken once, that
`shouldRecycle` acted on. A member of `Calls` is a serving slot that takes request after request. The nil
recycler of tests and the log lines are left out. A disabled recycler is `Enabled = FALSE`: its watchers
are `off`.

### Startup

A text in the environment is `Unset`, `Malformed` or a value; `envBytes` multiplies with the `Factor` of
its unit modulo `Word`, the number of values of a uint64. `memoryMax` and `limitInBytes` are the two
cgroup files, which say "no limit" as a word and as a huge number. `ToUint` is Go's conversion of a
float that may not fit, whose result depends on the build, and `ToInt` the conversion of the cache size
that makes its upper half negative. `Configure` is `CLI.Run` up to the server; the watchdog starts in a
goroutine of its own (`StartTicker`), where `time.NewTicker` panics on an interval that is not positive.
`Sample` is one tick: another limit that is on may have been crossed, RSS is at its limit or below it,
or it cannot be read and the tick does nothing. `StartDrain` notes in `crossed` the reading it started
for; the process goes on serving, and leaking, until the drain or its time ends (`Exit`). `Leak` may
come at any moment between these, and the kernel kills above the container's limit. `unseen` is what
leaked since the last reading that was below the limit: nothing bounds how much that is, which is what a
renderer does, and the properties speak of it instead. How a count or a lifetime is crossed, and how a
drain ends, is `Recycler`'s matter.

### Render cache

Both operations run under one mutex, so each is one action. `ll` is the list as a sequence of keys and
`items` the map as a partial function to `[value, age]`; the Go list element and its `Value` are the
key and its entry. `age` is `now() - stored`, counted up to the TTL. A key is the input whose SHA-256
the code uses. The counters behind `stats` only feed a log line. `MCRenderCache` gives every key that was
ever stored the set of keys used `since`, and keeps apart those that were lost by age (`lapsed`).

### FunctionPod

`stage[c]` is a call's place between `begin` and `end`: `prepare` (what `Request` models, which may end in
a Fatal result), `lookup`, `render`, `store`, `parse`, `done`. Two calls may miss the same key and render
at the same time, as in the code. An output records the request and the version of the remote module it
was made from; `upstream` is the version published last. `Restart` gives the process a fresh state and
forgets its calls. `cacheOn` is false in a pod with `FUNCTION_KCL_RENDER_CACHE_SIZE=0`, the default.

### OCITokenCache and Request

`mu` is `ociCacheMu`, `default` which object `remoteauth.DefaultCache` is, `created` the age of
`ociCacheCreated` (`Never` while it is zero), `worn` and `token` the ages of the object and of the token
in each. The reset is four steps (`Lock`, then `Keep`, or `Replace` and `Stamp`); `Pull` makes a client
with the object it finds, at any step of another call's reset, and `UseToken` uses the token in it or
fetches one. Ages are counted in ticks. The clock does not tick between `Lock` and `Stamp`: the few
instructions there take no time measured in half hours.

`Request` has one action per part of the handler that can end it: `Receive` (the input, if it can be
decoded, default source, the look at its prefix), `Reset`, `Prepare` (target, dependencies, credentials,
`Validate`, reading the state, parameters, key), `Fetch` (a pull from a registry), `Render` or
`RenderFails`, `ReadBases`, `Return`. A source is represented by its kind. `run[c]` is what the KCL
runtime is given; the two render paths are `InlineRun` and `PipelineRun`. A nil base is dereferenced in
`ReadBases`, which brings the process down (`panicked`), and `Restart` starts the next one with an empty
token cache.

### ProcessResources and Response

Contents are partial functions from field paths to values, so that "merge the top-level fields" (the
`Resources` target), "set leaf by leaf, identity aside" (the patch targets and `XR`) and "replace"
(`Default`) are different operations on them. A path is a sequence of keys. `SetData` hands it to
`SetValue` as one string: `Split` says into which keys a key with dots comes apart there, and `Written`
is the path a leaf ends up at, with the keys right under `metadata.annotations` and `metadata.labels`
left whole (`Wraps`). Two leaves of an object may be written to one path, or one above the other; Go's
map order then decides which is last, or that the call fails (`Tangled`), so that the outcome is one of
several. A field written below a value of the old object makes the call fail (`Blocked`), one written
above others takes their place (`Graft`, also for what `mergo.Merge` does to status and context). `kind`
is what the `Default` target switches on. An object that is not `wellFormed` has a field of another type
where the code reads or patches one, or a key whose path string does not parse, which makes
`GetValueInto` or `SetData` fail. `Selector` is `ToResourceSelector`: by name if there is one, else by
labels. `Decode` is `json.Unmarshal` into a slice that has elements. `DesiredMatch` holds for every name
the indices of the objects that are still to be applied to it; the code goes through its list front to
back, so the least index is next. Where the code ranges over a map (`DesiredMatch`, the ready
annotations, the composed resources of the response) the order is any order. `Response` starts from
`response.To(req)`, whose desired state is the request's, and has one action per stage and per condition
or event; a stage with an error path has a disjunct that returns with a Fatal result. The connection
details of `dxr` are the request's own map, which the response holds as well, so that they are in the
response as soon as they are computed (`Process`), unless the request has none and the SDK makes a new
map (`Shared`). The success messages of `AddResourcesResult`, which nobody reads, are left out.

## 3. The runs

| Run | Instance | What it shows |
|---|---|---|
| `recycler` | 2 calls, 2 watchers, count limit 2, lifetime 1, RSS 1 | types, the gate excludes, `inflight` is exact, one drain, with a cause; it exits whenever a limit stays crossed, nobody waits at a living gate for ever, a drain only shrinks; refinement of `GracefulDrain` with liveness |
| `cache` | 4 keys, 3 entries, TTL 2, 2 values | list and map, LRU order, recency, refinement of `Memo` |
| `pod` | 2 calls, an inline and a remote source with 2 versions, the first broken, with and without cache, 1 entry, TTL 2, RSS 2 | the limits that are off stay off, own answers, drained exits finish work, outputs (no failures) are cached and lost only by age, for room or with their process, stale ones expire, leaks are reset |
| `startup` | environments in three families, uint64 of 8 bits | limits and cache in range, a crash only over the interval, the default beats the kernel up to an unseen leak of 15%, an explicit limit counts |
| `requests` | 2 calls of 12 requests, 4 token cache objects, `MaxAge` 2 | valid and own renders named by their key, young tokens, one reset per age |
| `response` | every output of up to 3 objects out of 23 (11 for the other targets), 5 targets, 2 earlier states | the outcome of a call that ends well is what the order of the objects says, field by field (conditions of several objects aside: finding 4); any other call is Fatal |
| `recycler_lost_response` | 2 calls | finding 1: the exit overtakes a response |
| `recycler_stranded_call` | 2 calls | finding 2: a call that is neither admitted nor rejected |
| `pod_stale` | 1 call, TTL 0 | finding 3: a stale answer |
| `response_loses_conditions` | 2 Conditions objects | finding 4: the first one's conditions are lost |
| `requests_omitted_base` | as `requests` | finding 5: a missing base brings the process down |
| `response_moves_dotted_keys` | 1 object | finding 6: a field with a dotted key lands elsewhere |

Why the bounds are enough. Recycler: one call inside and one at the gate are every race of a reader with
the writer, two watchers are all the compare-and-swap distinguishes, limits of 1 and 2 have a value
below, at and, for the count, between; the counters are bounded by their limits in the actions, and the
safety properties are proved for any number of calls. Cache: with four keys for three entries an
eviction picks between a front, a middle and a back element; ages stop at the TTL, and TTL 2 has an age
that is neither fresh nor expired. Pod: two calls and one cache entry already race, overwrite and evict
each other; count and lifetime are off (0), and the RSS limit of 2 lets a process live on after a
render; `MaxVersion` bounds how often a module is published, and one new version suffices for an entry
to be stale. Startup: with the factors 1, 2, 4, 8, and 32 for the PiB, a `Word` of 256 is the least
power of two in which a product wraps to a small number (36 Gi to 32) and to 0 (32 Gi); the container
limits of 8 and 14 leave 2 and 3 above their 85%, so that a leak between readings stays below the limit
or passes it; `MaxRSS` is above every limit a process can reach before the kernel kills it, and above
the wrapped one of a process that has none. Requests: the twelve requests are a plain one and eleven
that differ from it in a part or two (the state alone, arguments, parameters of the function's names,
dependencies, an unknown target, the default source with credentials, an input or a state that cannot be
read, missing bases before and after unreadable ones); two calls see each other's reset at every step,
four objects are the current one, the two calls' own and a new one; `MaxAge` 2 has an age that is
neither new nor due, and `MaxWait` bounds how long a call takes after its check. Calls and objects are
symmetric there, and no liveness is checked. Response: three objects are the least with which two
patches of one resource and one of another, or two duplicates around a third object, occur. The stock
has the three things a key with dots can do: be nested deeper, meet another field of its object at one
path, and be above or below one. Under `Default` the request comes with and without connection details,
as only then is the map shared. Names and values are only compared.

`CHECK_DEADLOCK FALSE` is set where the system stops: the response runs, when the call has returned, and
the recycler runs, when the process has exited.

Fairness. `Recycler!Fairness` says that goroutines that can run do: `RLock` and the atomics of `begin`,
the locker, the watcher with its ticker, timer and select. Nothing is assumed about how long a render
takes (`SubInflight` has no fairness, so a render may hang), about the transport (`Answer`), about
requests arriving, about RSS or about the lifetime. In `FunctionPod` the watchdog, the clock and
Kubernetes' restart are fair; calls and publishers are not. `GracefulDrain!Spec` asks only that a process
that can stop does. The other modules state no fairness: nothing in them is promised to happen.

## 4. Findings

1. `recycle.go:21-25` says the exit falls between reconciles. The gate is released by a deferred call
   before the response is sent, so a drained process may exit with a response unsent
   (`ExitBetweenReconciles`).
2. `recycle.go:128-131` says a call is admitted or told to retry. One that read `draining` before it was
   set and reaches `RLock` after the writer blocks there until the exit (`ExitLeavesNobodyAtGate`).
3. `rendercache.go:28-29` calls the cache sound because the function is deterministic over its input. A
   remote source's content is not in the input (`AnswerIsCurrent`).
4. `res.go:531` says a Conditions object returns conditions to add. A second one overwrites the first,
   and inherits the fields it leaves out (`EveryConditionAdded`).
5. `input.go:116-121` says a base may be omitted. `Validate` lets it pass under every target but
   `PatchResources`, and `fn.go:264` dereferences it (`OmittedBaseAccepted`).
6. `res.go:304-305` says `SetData` copies to the same path. It joins keys with dots and `SetValue` takes
   them apart, so a key with dots ends up in another field, without an error (`CopiedToSamePath`).

Also seen while modelling, with no run:

- `conditions.go:85` says there are no duplicates; a forced condition is appended next to the one it
  overrides (`conditions.go:103`). `ForceDecides` shows that the last one of a type is the right one.
- `extraresources.go:18-22` says `matchName` is ignored if labels are given; the code ignores the labels if
  there is a name (`extraresources.go:38`). `MetaLand` leaves open which of them an extra resource with
  both is asked for by. `requiredresources.go:18-22` says what the code does, and there the name decides.
- `input.go:82` says `config.arguments` are the top-level arguments of the KCL program. Inline code outside
  vendor mode is run without them (`render.go:64`, `InlineRun`).
- the CRD's default target is `Resources` (`input.go:75`) while an empty target means `Default` in the
  code (`fn.go:78-80`).
- `spec.resources` may repeat a name, although `res.go:51` calls it unique, and the later base wins
  silently; under `Resources` a merge drops the readiness an earlier function gave the resource
  (`res.go:272`).
- a byte quantity times its unit may wrap around 2^64, to a small limit or to 0 and then the derived one,
  without an error (`recycle.go:347`); `RSSLimitIsMeant` is about quantities that fit.
- inline code whose dependencies come from an OCI registry pulls with the shared token cache and never
  resets it (`fn.go:74`); `TokenAgeBounded` is about calls with an OCI source.

## 5. What is proved

TLAPS checks every proof to the last leaf, for all values of the constants that satisfy the `ASSUME`s.

`RecyclerProofs`, from `LimitsAssumption` and `CallsAssumption` (limits are naturals, calls are finite):

- `IInv` is inductive. `TypeOK` says nothing about how call states, gate and watchers relate, so it is
  strengthened by: `readers` are exactly the calls in `Holding`; a locker that has the gate sees no
  reader; `inflight` is the number of calls in `Counted` (which needs a lemma about adding and removing
  one element); a locker or an exit exists only when draining; one watcher at most is past the
  compare-and-swap, and none while not draining; an exit by `drained` follows a closed locker.
- From it: `TypeCorrect`, `InflightIsExact`, `GateIsExclusive`, `DrainedExitIsClean`,
  `RecycleIsIdempotent`, the action property `DrainOnlyShrinks`, and `RecyclerImplementsDrain`: initial
  states map to initial states and each step to a step of `GracefulDrain` or a stutter.
- `DrainHasCause`, by `CauseInv`: every reason a watcher has names an enabled limit and a reading that
  reached it and was no `ReadError`, a count or a lifetime is still at its limit, and a triggered watcher
  and a drain have a reason.

`RenderCacheProofs` and `LRUProofs`, from `CacheAssumption`:

- `CacheConsistent` and `CacheTypeCorrect`: list and map hold the same distinct keys, at most
  `MaxEntries`, for every capacity, TTL and key set. `TypeOK /\ ListMatchesMap` is inductive; the work is
  in lemmas about a sequence without one element, with one element in front, and truncated.
- `CacheImplementsMemo`: every step of list and map is a step of `Memo`. The abstract memo counts its
  entries where the cache measures its list, so the proof needs that a list of distinct keys is as long
  as the map is large (`SizeOfMap`), and that the map is a function from its keys.
- `EvictsLeastRecentlyUsed` and `RecentlyUsedStays`, by `HInv`: list and map agree, the record of use is
  well formed, and both properties hold. They need each other: that the element at the back, when it is
  evicted, has seen `MaxEntries` others used is the order of the list plus the number of its elements.

`PodProofs`, from the assumptions of `FunctionPod`, for any number of calls, sources and versions, with
leaks and restarts:

- `AnswersAreOwn` and `FailuresAreForgotten`, by `PodInv`: every output and every entry is of the request
  it is kept for, a call that stores has an output, and a stage is set only while the call renders.
- `RecyclerInPod`, `PodRecyclesForCause` and `DrainsFinishWork`: the recycler's invariants, with
  `RecyclerProofs` instantiated: each step of a pod is a step of `Recycler`, a leak, which moves `rss`
  only, or a restart, which begins anew. With `PodInv` a drained exit finds every stage `done`.
- `PodRemembers`: what concurrent calls, the clock and restarts do to the cache are steps of `Memo`, or the
  fresh start of a process; what is put is the output of the call that stores, in its own key.
- `PodTypeCorrect`: with the lemmas of `RenderCacheProofs` instantiated, list and map agree in a pod too.

`StartupProofs`, from `NumbersAssumption` and `EnvironmentsAssumption`, which say that a word holds the PiB,
which texts parse, and that a container has no limit or one from 1 up to the PiB. Nothing is said of how
large a word is, which units there are or how much leaks between two readings:

- `StartupInvariant`: the configuration is one that the environment can become and the watchdog is where
  that configuration puts it (`Configured`); RSS is below its limit plus what leaked `unseen`, and what a
  drain started for was at it (`Watched`). A failed reading and a drain leave `unseen` alone, and only a
  reading below the limit resets it.
- `ProcessesAreConfigured`, `DefaultBeatsTheKernel` and `ExplicitLimitIsMeant` follow from it and from
  lemmas about the parsers and the arithmetic: a size that fits is not cut off, 85% of a limit below the
  PiB fits, and who passes the whole limit from below 85% of it has leaked more than the rest.

`RequestProofs`, from `OCIAssumption` and `RequestsAssumption`:

- `ResetsAreRare` and `TokensAreYoung`. `ResetInv`: who is between `Lock` and `Stamp` has the mutex, and
  outside of these the stamp is as old as the object. `TokenInv`: the token in the object of the day is no
  older than the object, and a call past its reset finds, or has found, a token within its limit.
- `RequestsUseTokenCache`: every behaviour of `Request` is one of `OCISpec`, so that both results carry
  over (`RequestsResetRarely`, `RequestsUseYoungTokens`).
- `KeyIsEnough`, by `KeyInv`: a call's key is its input from the derivation on, and what it ran follows
  from that.
- `RequestsAreValid` and `ParamsAreOwn`, by `InputInv`: from the reset on a call's input is what
  `Prepare` makes of its own request. `RequestsAssumption` says what a decoded request consists of.

`ProcessProofs`, from the `RequestsAssumption` of `ProcessResources` (targets and kinds are known ones,
the output and an object's entries are sequences, readiness is one the SDK knows; of `Split` nothing is
used), for every output, target and earlier state. Each proof first bounds what a step writes
(`XRWrites`, `RequirementWrites`, `MetaWrites`, `DesiredWrites`, `PatchWrites`) and then shows an
invariant inductive:

- `XRAllLands`, by `XRInv`: a step grafts onto the XR either nothing or all that one more object gives.
  `LeavesMore` is the heart of it, and of `PatchesAllLand`: the reference definition says of each path
  which object wrote it last and whether a later one wrote above or below it, and a graft of one object
  more, greater than the others, changes it as it changes the tree. `SetDataGrafts` says that whatever
  order Go's map has, `SetData` is such a graft, of one of the values each path has.
- `MetaAllLand`, by `RequirementsInv` and `MetaInv`. The requirement maps carry every key of every object
  already read with the selector that object gave it, since a step that takes an object adds only new keys;
  connection details and context have at each key the entry of the last object that has it (`DetailsTaken`,
  `ContextTaken`), where a top-level context field is replaced with all it holds.
- `EarlierStateIsKept`, by `KeptInv`: patches name only resources that an object touched, setting the
  readiness a second time changes nothing, and nothing is desired that neither came nor was named.
- `ItemsAllLand`, by `LandInv`: every object already read is in `desired` under its name with its fields
  and readiness, the annotations are taken off once, and later objects have other names. What is not yet
  read finds the resource as it came (`EarlierAwaits`), so what it leaves of it is known too.
- `PatchesAllLand`, by `PatchInv`, of every resource, patched, a base or neither: what waits for it are
  objects that name it and come after all those applied to it (`InOrder`), and the resource is what these
  make of it (`Applied`), in the end with its ready annotation turned into its readiness (`Finished`).
  `AppliesOneMore` takes the step from one set of applied objects to the next by `LeavesMore`.
  This takes no induction over a list, because what is to be applied is a set of indices.

`ResponseProofs`, from the same assumption. Only `Process` touches what `ProcessResources` computes:

- `CallsProcess`: every behaviour of a call is one of `ProcessResources`, so all of the above hold at every
  stage of a call (`CallsKeepWhatIsDesired`).
- `ResponseTyped`: with the types of `ProcessResources` those of stages, positions and results.
- `FailuresAreFatal` and `FailuresKeepDesired`, by `ResponseInv`: the results are Fatal at their end just
  when the call failed, and up to the stage `xr` the response holds the request's resources and XR and, of
  the connection details, those computed so far if they are shared. `MetaInv` says that under `Default`
  these are those of the last objects taken, `DetailsKept` that no other target changes them.
- `CompleteCallsCarryAll`, by `CarryInv`: from each stage on the response has what that stage writes and
  nothing after it takes it away; and by `ResultsInv`: the results so far are those of the events so far.
- `ForcedConditionsWin`, by `ConditionInv`: after some of the conditions, the last one in the response of
  each type is the one the conditions so far decide on (`Decided`); a skipped one decides nothing.

Only model-checked are the properties under fairness: `CountRecycles`, `RSSRecycles`, `GateWaitEnds`,
`StaleEntriesExpire`, `LeakIsReset` and the liveness part of `ImplementsDrain`. Liveness is out of the
prover's reach; every invariant and action property that a passing run checks is stated by a theorem.
The properties of the six runs that show a violation do not hold, and nothing is proved of them.

## 6. What is not modelled, and what could follow

Not modelled, and why:

- logging, success messages, gRPC options and the remaining flags of `main.go`: I/O without state that a
  property could be about;
- the contents of KCL programs, YAML and JSON syntax: the KCL runtime, krm-kcl and ORAS are libraries,
  of which the models have what the code relies on (marked external in `PROJECT.json`);
- in `render.go` the copying of single options and the unwrapping of the output into a list: the models
  keep the choice of the path and the parts a property tells apart (parameters, dependencies, arguments);
- generated deep copies, the CRD, the package, examples and manifests: no behaviour of their own.

Could follow: a model of the pulls that inline code makes without a reset, and a bound on how far behind
the published version an answer from the cache may be.
