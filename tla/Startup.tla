------------------------------ MODULE Startup ------------------------------
(***************************************************************************)
(* How a process is configured from its environment (recycle.go 67-93 and  *)
(* 247-348, rendercache.go 50-75, main.go) and what becomes of it: it      *)
(* leaks, the watchdog samples its RSS, when it can be read, against the   *)
(* limit that came out of the environment and drains it, the kernel kills  *)
(* it at the limit of its container.                                       *)
(* A text that does not parse is Malformed; a uint64 is below Word.        *)
(***************************************************************************)
EXTENDS Integers

CONSTANTS
  Environments,  \* [bytes, ratio, reconciles, lifetime, interval, drain,
                 \*  cacheSize, cacheTTL, dependencies, host, limit]
  Word,          \* how many values uint64 has
  Factor,        \* unit -> its factor
  PiB,           \* the limit that counts as none
  MaxRSS,        \* bound: no process is told apart beyond this RSS
  Unset, Malformed, None

ASSUME NumbersAssumption ==
  /\ Word \in Nat /\ PiB \in 1 .. Word - 1
  /\ MaxRSS \in Nat
  /\ Factor \in [DOMAIN Factor -> Nat]
  /\ {Unset, Malformed, None} \cap Int = {}

(* What the parsers of strconv and time can return.                        *)
Text(values) == values \cup {Unset, Malformed}
ASSUME EnvironmentsAssumption ==
  \A e \in Environments :
    /\ e.bytes \in Text([n : Nat, unit : DOMAIN Factor])
    /\ {e.reconciles, e.cacheSize} \subseteq Text(0 .. Word - 1)
    /\ {e.ratio, e.lifetime, e.interval, e.drain, e.cacheTTL}
         \subseteq Text(Int)
    /\ e.limit = None \/ e.limit \in 1 .. PiB - 1

Percent == 100
defaultMaxRSSRatio == 85
defaultCheckInterval == 30
defaultDrainTimeout == 15

VARIABLES
  env,     \* the environment, the same for every process of the pod
  phase,   \* of the process
  cfg,     \* the recycler's configuration
  cache,   \* the render cache's, or None
  watch,   \* the watchdog
  crossed, \* the reading of RSS its drain started for, or None
  rss,
  unseen   \* what of rss leaked since the last reading below the limit

vars == <<env, phase, cfg, cache, watch, crossed, rss, unseen>>

Init ==
  /\ env \in Environments
  /\ phase = "starting" /\ watch = "off"
  /\ cfg = None /\ cache = None /\ crossed = None
  /\ rss = 0 /\ unseen = 0

-----------------------------------------------------------------------------
(* envUint, envFloat and envDuration: the default stands for no value and  *)
(* for one that does not parse; a number out of range does not.            *)
Parsed(text, def) == IF text \in {Unset, Malformed} THEN def ELSE text

(* envBytes: the product is taken modulo 2^64.                             *)
Bytes(text) == text.n * Factor[text.unit]
envBytes(text, def) ==
  IF text \in {Unset, Malformed} THEN def ELSE Bytes(text) % Word

(* The two files of the container, and what the kernel writes there for    *)
(* no limit.                                                               *)
memoryMax(e) ==
  IF e.host # "v2" THEN Malformed
  ELSE IF e.limit = None THEN Malformed ELSE e.limit
limitInBytes(e) ==
  IF e.host # "v1" THEN Malformed
  ELSE IF e.limit = None THEN Word - 1 ELSE e.limit

readCgroupLimit(text) == IF text \in 1 .. PiB - 1 THEN text ELSE None
\* Mutant: cgroup v2 only.
V2Limit(e) == readCgroupLimit(memoryMax(e))
cgroupMemoryLimit(e) ==
  IF V2Limit(e) # None THEN V2Limit(e) ELSE readCgroupLimit(limitInBytes(e))

(* float64 to uint64: cut off; what does not fit depends on the build.     *)
ToUint(hundredths) ==
  IF hundredths < Percent * Word THEN {hundredths \div Percent}
  ELSE {0, Word \div 2, Word - 1}

\* Mutant: the container's limit goes before the explicit one.
DerivedFirst(e, bytes, ratio) ==
  IF cgroupMemoryLimit(e) # None /\ ratio > 0
  THEN ToUint(cgroupMemoryLimit(e) * ratio) ELSE {bytes}
MaxRSSBytes(e, bytes, ratio) ==
  IF bytes = 0 /\ ratio > 0 /\ cgroupMemoryLimit(e) # None
  THEN ToUint(cgroupMemoryLimit(e) * ratio) ELSE {bytes}

recycleConfigFromEnv(e) ==
  {[maxRSSBytes   |-> limit,
    maxReconciles |-> Parsed(e.reconciles, 0),
    maxLifetime   |-> Parsed(e.lifetime, 0),
    checkInterval |-> Parsed(e.interval, defaultCheckInterval),
    drainTimeout  |-> Parsed(e.drain, defaultDrainTimeout)] :
   limit \in MaxRSSBytes(e, envBytes(e.bytes, 0),
                         Parsed(e.ratio, defaultMaxRSSRatio))}

enabled(c) == c.maxRSSBytes > 0 \/ c.maxReconciles > 0 \/ c.maxLifetime > 0

(* int(uint64): the upper half is negative.                                *)
ToInt(n) == IF n < Word \div 2 THEN n ELSE n - Word
\* Mutant: only a size of 0 disables the cache.
NilAtZero(max, ttl) == IF max = 0 THEN None ELSE [max |-> max, ttl |-> ttl]
newRenderCache(max, ttl) ==
  IF max <= 0 THEN None ELSE [max |-> max, ttl |-> ttl]

-----------------------------------------------------------------------------
(* CLI.Run.  The watchdog is a goroutine of its own.                       *)

Configure ==
  /\ phase = "starting"
  /\ env.dependencies # Malformed
  /\ phase' = "serving"
  /\ cfg' \in recycleConfigFromEnv(env)
  /\ watch' = IF enabled(cfg') THEN "spawned" ELSE "off"
  /\ cache' = newRenderCache(ToInt(Parsed(env.cacheSize, 0)),
                             Parsed(env.cacheTTL, 0))
  /\ UNCHANGED <<env, crossed, rss, unseen>>

ExitOnError ==
  /\ phase = "starting"
  /\ env.dependencies = Malformed
  /\ phase' = "failed"
  /\ UNCHANGED <<env, cfg, cache, watch, crossed, rss, unseen>>

(* time.NewTicker panics on an interval that is not positive.              *)
StartTicker ==
  /\ phase = "serving" /\ watch = "spawned"
  /\ \/ cfg.checkInterval > 0 /\ watch' = "ticking" /\ UNCHANGED phase
     \/ cfg.checkInterval <= 0 /\ phase' = "crashed" /\ UNCHANGED watch
  /\ UNCHANGED <<env, cfg, cache, crossed, rss, unseen>>

(* A render leaks, while the process drains too; the container's limit     *)
(* holds whether it is known or not.                                       *)
Leak ==
  /\ phase = "serving"
  /\ \/ /\ rss < MaxRSS
        /\ rss' = rss + 1
        /\ unseen' = IF cfg.maxRSSBytes = 0 THEN 0 ELSE unseen + 1
     \/ rss = MaxRSS /\ UNCHANGED <<rss, unseen>>
  /\ phase' = IF env.limit # None /\ rss' > env.limit THEN "killed" ELSE phase
  /\ UNCHANGED <<env, cfg, cache, watch, crossed>>

StartDrain(reading) == watch' = "draining" /\ crossed' = reading

(* One tick: another limit that is on may have been crossed, RSS is at the *)
(* limit or below it, or it cannot be read and nothing happens.            *)
Sample ==
  /\ phase = "serving" /\ watch = "ticking"
  /\ \/ /\ cfg.maxReconciles > 0 \/ cfg.maxLifetime > 0
        /\ StartDrain(None) /\ UNCHANGED unseen
     \/ /\ cfg.maxRSSBytes > 0 /\ rss >= cfg.maxRSSBytes
        /\ StartDrain(rss) /\ UNCHANGED unseen
     \/ /\ cfg.maxRSSBytes > 0 /\ rss < cfg.maxRSSBytes
        /\ unseen' = 0 /\ UNCHANGED <<watch, crossed>>
     \/ cfg.maxRSSBytes > 0 /\ UNCHANGED <<watch, crossed, unseen>>
  /\ UNCHANGED <<env, phase, cfg, cache, rss>>

(* The drain ends, or its time does.                                       *)
Exit ==
  /\ phase = "serving" /\ watch = "draining"
  /\ phase' = "recycled"
  /\ UNCHANGED <<env, cfg, cache, watch, crossed, rss, unseen>>

Restart ==
  /\ phase \in {"failed", "crashed", "killed", "recycled"}
  /\ phase' = "starting" /\ watch' = "off"
  /\ cfg' = None /\ cache' = None /\ crossed' = None
  /\ rss' = 0 /\ unseen' = 0
  /\ UNCHANGED env

Next ==
  \/ Configure \/ ExitOnError \/ StartTicker
  \/ Leak \/ Sample \/ Exit \/ Restart

Spec == Init /\ [][Next]_vars

-----------------------------------------------------------------------------
(* Properties.                                                             *)

(* Every process that serves has limits in range, a cache that is off or   *)
(* has room and, exactly when a limit is on, a watchdog, for every text in *)
(* the environment; the watchdog ticks only at an interval that is         *)
(* positive, and a process crashes only over one that is not.              *)
TypeOK ==
  /\ phase \in {"starting", "serving", "failed", "crashed", "killed",
                "recycled"}
  /\ watch \in {"off", "spawned", "ticking", "draining"}
  /\ phase = "serving" =>
       /\ cfg.maxRSSBytes \in 0 .. Word - 1 /\ cfg.maxReconciles \in Nat
       /\ cache # None => cache.max \in 1 .. (Word \div 2) - 1
       /\ watch # "off" <=> enabled(cfg)
  /\ watch \in {"ticking", "draining"} => cfg.checkInterval > 0
  /\ phase = "crashed" => enabled(cfg) /\ Parsed(env.interval, 1) <= 0

(* "The in-cluster default just works" (recycle.go:68-71): with no limit   *)
(* and no ratio given and a container limit that can be read, on either    *)
(* version of cgroups, the kernel kills a process only if more than the    *)
(* remaining 15% leaked since the last reading that let it run on: between *)
(* two ticks, over ticks that cannot read RSS, and during the drain.       *)
DefaultBeatsKernel ==
  /\ phase = "killed"
  /\ env.host \in {"v1", "v2"} /\ env.limit > 1
  /\ Parsed(env.bytes, [n |-> 0, unit |-> ""]).n = 0
  /\ env.ratio \in {Unset, Malformed}
  => Percent * unseen > (Percent - defaultMaxRSSRatio) * env.limit

(* An explicit limit that fits is the one that counts, whatever the        *)
(* container's and the ratio: no drain starts over an RSS below it, and no *)
(* tick that reads an RSS at it or above lets the process run on.          *)
RSSLimitIsMeant ==
  cfg # None /\ env.bytes \notin {Unset, Malformed} =>
    LET asked == Bytes(env.bytes) IN
    asked \in 1 .. Word - 1 =>
      /\ crossed # None => crossed >= asked
      /\ phase = "serving" /\ watch = "ticking" => rss - unseen < asked
=============================================================================
