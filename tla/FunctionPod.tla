---------------------------- MODULE FunctionPod ----------------------------
(***************************************************************************)
(* One function-kcl pod: RunFunction calls (fn.go) that pass the gate of   *)
(* the recycler, look their input up in the render cache, render it with   *)
(* KCL on a miss, store the output and parse it; the native memory every   *)
(* render leaks, which makes the watchdog recycle the process; Kubernetes, *)
(* which starts it again; and the publishers of the modules that oci, git, *)
(* http and local sources name.                                            *)
(***************************************************************************)
EXTENDS Naturals, Sequences, FiniteSets

CONSTANTS Calls, Watchers, MaxReconciles, MaxLifetime, MaxRSS, ReadError,
          MaxEntries,  \* FUNCTION_KCL_RENDER_CACHE_SIZE when it is not 0
          CacheChoice, \* TRUE for a pod with a cache, FALSE for one of size 0
          TTL,         \* FUNCTION_KCL_RENDER_CACHE_TTL
          Sources,     \* values of spec.source
          Remote,      \* those that name a module outside the input
          Params,      \* values of the rest of the input: oxr, dxr, ...
          MaxVersion,  \* bound: how often a remote module is published anew
          Broken,      \* the versions whose output does not parse
          Failure      \* a Fatal result instead of an output

ASSUME RecyclerAssumption ==
  /\ IsFiniteSet(Calls)
  /\ MaxReconciles \in Nat /\ MaxLifetime \in Nat /\ MaxRSS \in Nat
  /\ ReadError \notin Nat

ASSUME PodAssumption ==
  /\ CacheChoice \in SUBSET BOOLEAN
  /\ MaxEntries \in Nat \ {0}
  /\ TTL \in Nat
  /\ Remote \subseteq Sources
  /\ MaxVersion \in Nat
  /\ Broken \subseteq 0 .. MaxVersion

Requests == [source : Sources, params : Params]
Outputs == [of : Requests, version : 0 .. MaxVersion]
NoRequest == [source |-> Failure, params |-> Failure]

ASSUME FailureAssumption ==
  Failure \notin Outputs \cup Requests \cup Sources \cup {NoRequest}

VARIABLES draining, readers, locker, inflight, count, elapsed, rss, call,
          watch, reason, exit,   \* the recycler
          ll, items,             \* the render cache
          cacheOn,   \* f.cache is not nil; set when the process starts
          request,   \* the input of each call
          stage,     \* where each call is between begin() and end()
          out,       \* outputData of each call, or Failure
          asked,     \* the version published when the call began to work
          upstream   \* the version of the remote modules published last

recyclerVars == <<draining, readers, locker, inflight, count, elapsed, rss,
                  call, watch, reason, exit>>
cacheVars == <<ll, items, cacheOn>>
workVars == <<request, stage, out, asked>>
vars == <<recyclerVars, cacheVars, workVars, upstream>>

R == INSTANCE Recycler
C == INSTANCE RenderCache WITH
       Keys <- Requests, Values <- Outputs \cup {Failure},
       NoValue <- NoRequest, reply <- NoRequest

Stages == {"none", "prepare", "lookup", "render", "store", "parse", "done"}

Init ==
  /\ R!Init
  /\ ll = <<>> /\ items = [k \in {} |-> Failure]
  /\ cacheOn \in CacheChoice
  /\ request = [c \in Calls |-> NoRequest]
  /\ stage = [c \in Calls |-> "none"]
  /\ out = [c \in Calls |-> Failure]
  /\ asked = [c \in Calls |-> 0]
  /\ upstream = 0

-----------------------------------------------------------------------------
(* Calls at the gate.                                                      *)

Arrive(c) ==
  /\ \/ /\ R!BeginAdmit(c)
        /\ \E r \in Requests : request' = [request EXCEPT ![c] = r]
     \/ /\ R!BeginReject(c)
        /\ UNCHANGED request
  /\ UNCHANGED <<cacheVars, stage, out, asked, upstream>>

Enter(c) ==
  /\ R!RLock(c) \/ R!AddInflight(c)
  /\ UNCHANGED <<cacheVars, workVars, upstream>>

StartWork(c) ==
  /\ R!AddCount(c)
  /\ stage' = [stage EXCEPT ![c] = "prepare"]
  /\ asked' = [asked EXCEPT ![c] = upstream]
  /\ UNCHANGED <<cacheVars, request, out, upstream>>

Finish(c) ==
  /\ stage[c] = "done"
  /\ R!SubInflight(c)
  /\ UNCHANGED <<cacheVars, workVars, upstream>>

Leave(c) ==
  /\ R!RUnlock(c)
  /\ UNCHANGED <<cacheVars, workVars, upstream>>

Reply(c) ==
  /\ R!Answer(c)
  /\ request' = [request EXCEPT ![c] = NoRequest]
  /\ stage' = [stage EXCEPT ![c] = "none"]
  /\ out' = [out EXCEPT ![c] = Failure]
  /\ asked' = [asked EXCEPT ![c] = 0]
  /\ UNCHANGED <<cacheVars, upstream>>

-----------------------------------------------------------------------------
(* The work of a call.                                                     *)

Works(c, from, to) ==
  /\ R!Running
  /\ stage[c] = from
  /\ stage' = [stage EXCEPT ![c] = to]

\* Mutant: the key leaves the source out.
KeyOfParams(r) == [r EXCEPT !.source = CHOOSE s \in Sources : TRUE]
renderKey(r) == r

enabled == cacheOn

(* Reading the request into the input, which may end in a Fatal result;    *)
(* without a cache there is nothing to look up.                            *)
Prepare(c) ==
  /\ \/ Works(c, "prepare", IF enabled THEN "lookup" ELSE "render")
     \/ Works(c, "prepare", "done")
  /\ UNCHANGED <<recyclerVars, cacheVars, request, out, asked, upstream>>

Lookup(c) ==
  LET k == renderKey(request[c])
  IN /\ \/ /\ Works(c, "lookup", "parse")
           /\ C!Touch(k)
           /\ out' = [out EXCEPT ![c] = items[k].value]
        \/ /\ Works(c, "lookup", "render")
           /\ C!Absent(k) \/ C!Drop(k)
           /\ UNCHANGED out
     /\ UNCHANGED <<recyclerVars, cacheOn, request, asked, upstream>>

(* What KCL makes of a request: inline code depends on nothing else, other *)
(* sources on what is published under their name while it runs.            *)
Rendered(r) ==
  [of |-> r, version |-> IF r.source \in Remote THEN upstream ELSE 0]

Leak ==
  /\ rss' = IF rss < MaxRSS THEN rss + 1 ELSE rss
  /\ UNCHANGED <<draining, readers, locker, inflight, count, elapsed, call,
                 watch, reason, exit>>

\* Mutant: the result is stored whether the pipeline failed or not.
RenderStores(c) ==
  /\ Works(c, "render", "store")
  /\ \E o \in {Rendered(request[c]), Failure} : out' = [out EXCEPT ![c] = o]
  /\ Leak
  /\ UNCHANGED <<cacheVars, request, asked, upstream>>

(* renderInline or the pipeline, which fail or give an output to store.    *)
Render(c) ==
  /\ \/ /\ Works(c, "render", IF enabled THEN "store" ELSE "parse")
        /\ out' = [out EXCEPT ![c] = Rendered(request[c])]
     \/ /\ Works(c, "render", "done")
        /\ UNCHANGED out
  /\ Leak
  /\ UNCHANGED <<cacheVars, request, asked, upstream>>

Store(c) ==
  /\ Works(c, "store", "parse")
  /\ C!Put(renderKey(request[c]), out[c])
  /\ UNCHANGED <<recyclerVars, cacheOn, request, out, asked, upstream>>

Parses(o) == o # Failure /\ (o.of.source \in Remote => o.version \notin Broken)

(* An output that does not parse is a Fatal result, and stays in the cache.*)
Parse(c) ==
  /\ Works(c, "parse", "done")
  /\ out' = [out EXCEPT ![c] = IF Parses(@) THEN @ ELSE Failure]
  /\ UNCHANGED <<recyclerVars, cacheVars, request, asked, upstream>>

Work(c) ==
  \/ Prepare(c)
  \/ Lookup(c)
  \/ Render(c)
  \/ Store(c)
  \/ Parse(c)

-----------------------------------------------------------------------------
(* The watchdog, the clock, the publishers and Kubernetes.                 *)

Watchdog ==
  /\ (\E w \in Watchers : R!WatchStep(w)) \/ R!LockerStep
  /\ UNCHANGED <<cacheVars, workVars, upstream>>

PassTime ==
  /\ R!Age \/ (R!Running /\ elapsed = MaxLifetime /\ UNCHANGED recyclerVars)
  /\ C!Grow
  /\ UNCHANGED <<cacheOn, workVars, upstream>>

Publish ==
  /\ upstream < MaxVersion
  /\ upstream' = upstream + 1
  /\ UNCHANGED <<recyclerVars, cacheVars, workVars>>

(* The container is started again, with nothing but its binary; the calls  *)
(* it had are gone.                                                        *)
Restart ==
  /\ ~R!Running
  /\ draining' = FALSE /\ readers' = {} /\ locker' = "none"
  /\ inflight' = 0 /\ count' = 0 /\ elapsed' = 0 /\ rss' = 0
  /\ call' = [c \in Calls |-> "idle"]
  /\ watch' = [w \in Watchers |-> IF R!Enabled THEN "ticking" ELSE "off"]
  /\ reason' = [w \in Watchers |-> R!NoReason]
  /\ exit' = "no"
  /\ ll' = <<>> /\ items' = [k \in {} |-> Failure]
  /\ request' = [c \in Calls |-> NoRequest]
  /\ stage' = [c \in Calls |-> "none"]
  /\ out' = [c \in Calls |-> Failure]
  /\ asked' = [c \in Calls |-> 0]
  /\ UNCHANGED <<cacheOn, upstream>>

CallStep(c) ==
  \/ Arrive(c)
  \/ Enter(c)
  \/ StartWork(c)
  \/ Work(c)
  \/ Finish(c)
  \/ Leave(c)
  \/ Reply(c)

Next ==
  \/ \E c \in Calls : CallStep(c)
  \/ Watchdog
  \/ PassTime
  \/ Publish
  \/ Restart

(* The fairness of the recycler, and of Kubernetes, which restarts a       *)
(* container that exits.  A render may hang.                               *)
Fairness ==
  /\ WF_vars(Watchdog)
  /\ WF_vars(PassTime)
  /\ WF_vars(Restart)

Safety == Init /\ [][Next]_vars
Spec == Safety /\ Fairness

-----------------------------------------------------------------------------
(* Properties.                                                             *)

(* The type invariant of the pod, of the recycler and of the cache.        *)
TypeOK ==
  /\ R!TypeOK
  /\ C!ListMatchesMap
  /\ \A k \in DOMAIN items : items[k] \in C!Entry
  /\ request \in [Calls -> Requests \cup {NoRequest}]
  /\ stage \in [Calls -> Stages]
  /\ out \in [Calls -> Outputs \cup {Failure}]
  /\ asked \in [Calls -> 0 .. MaxVersion]
  /\ cacheOn \in BOOLEAN
  /\ upstream \in 0 .. MaxVersion

(* The recycler of a pod whose renders leak acts on the limits that are on,*)
(* in every process: a limit of 0 starts no drain.                         *)
RecycleHasCause == R!RecycleHasCause

(* No call is answered with the output of another request: the cache key   *)
(* covers everything a render depends on but the published modules, and a  *)
(* call's input does not change between the lookup and the store.          *)
AnswersOwnRequest ==
  /\ \A c \in Calls : out[c] # Failure => out[c].of = request[c]
  /\ \A k \in DOMAIN items : items[k].value # Failure => items[k].value.of = k

(* A drain that finishes before its timeout lets every call that entered   *)
(* do all of its work, lookup, render and store included.                  *)
DrainFinishesWork ==
  exit = "drained" =>
    \A c \in Calls : stage[c] # "none" => stage[c] = "done"

(* The cache is a memo to the calls of a pod, whatever they do at the same *)
(* time: an output enters it when the call that rendered it stores it, is  *)
(* not renewed by hits, and leaves it by age, to make room for another or  *)
(* with its process.  A failed render is never remembered: the next        *)
(* reconcile tries again.                                                  *)
Remember(c) ==
  /\ stage[c] = "store" /\ out[c] # Failure
  /\ C!M!Put(request[c], out[c])

MemoStep ==
  \/ \E c \in Calls : Remember(c)
  \/ \E k \in Requests : C!M!Miss(k)
  \/ C!M!Age
  \/ Restart

CacheRemembers == [][MemoStep]_items

(* Every answer is at least as new as what was published when its call     *)
(* began to work.                                                          *)
AnswerIsCurrent ==
  \A c \in Calls :
    stage[c] = "done" /\ out[c] # Failure /\ request[c].source \in Remote =>
      out[c].version >= asked[c]

(* Once nothing new is published, what the cache still answers with is the *)
(* newest version: entries expire by age however often they are hit, and   *)
(* an older render that stores late does not change that.                  *)
StaleEntriesExpire ==
  <>[](\A k \in DOMAIN items :
         k.source \in Remote =>
           C!Expired(k) \/ items[k].value.version = upstream)

(* A pod whose renders have leaked up to the RSS limit gets a fresh        *)
(* process, even when a render hangs.                                      *)
LeakIsReset == rss = MaxRSS /\ MaxRSS > 0 ~> rss = 0
=============================================================================
