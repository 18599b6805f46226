--------------------------- MODULE StartupProofs ---------------------------
(***************************************************************************)
(* What the environment turns into, and what the limit that came out of it *)
(* means to a process that leaks: for every set of environments, every     *)
(* width of uint64, every unit, and readings that fail at any tick.        *)
(***************************************************************************)
EXTENDS Startup, TLAPS

-----------------------------------------------------------------------------
(* The parsers and the arithmetic.                                         *)

(* A size is a number before it is cut to the width of uint64.             *)
LEMMA ProductInNat ==
  ASSUME NEW a \in Nat, NEW b \in Nat
  PROVE  a * b \in Nat
  OBVIOUS

(* Arithmetic the provers need in steps of their own.                      *)
LEMMA PiBFits ==
  ASSUME NEW n \in 1 .. PiB - 1
  PROVE  /\ Word \in Nat
         /\ Word > 0
         /\ n \in Nat
         /\ n < Word
  BY NumbersAssumption

(* A size of 0 is 0 in every unit.                                         *)
LEMMA ZeroTimes ==
  ASSUME NEW n \in Nat
  PROVE  0 * n = 0
  OBVIOUS

(* 85% of a container's limit fits in uint64.                              *)
LEMMA DefaultShare ==
  ASSUME NEW n \in Nat, n < Word, Word \in Nat
  PROVE  ToUint(n * defaultMaxRSSRatio) =
           {(n * defaultMaxRSSRatio) \div Percent}
  BY DEF ToUint, defaultMaxRSSRatio, Percent

(* Who passes the limit from below 85% of it leaks more than the rest.     *)
LEMMA RestOfShare ==
  ASSUME NEW limit \in Nat, NEW r \in Nat, NEW k \in Nat,
         limit > 1, r > limit,
         (limit * defaultMaxRSSRatio) \div Percent > 0 =>
           r < ((limit * defaultMaxRSSRatio) \div Percent) + k
  PROVE  Percent * k > (Percent - defaultMaxRSSRatio) * limit
  BY DEF Percent, defaultMaxRSSRatio

(* 0 bytes do not wrap.                                                    *)
LEMMA ZeroMod ==
  ASSUME NEW w \in Nat, w > 0
  PROVE  0 % w = 0
  OBVIOUS

(* What envBytes returns fits in uint64.                                   *)
LEMMA BytesFit ==
  ASSUME NEW e \in Environments
  PROVE  envBytes(e.bytes, 0) \in 0 .. Word - 1
<1>1. /\ Word \in Nat
      /\ Word > 0
  BY NumbersAssumption
<1>2. CASE e.bytes \in {Unset, Malformed}
  BY <1>1, <1>2 DEF envBytes
<1>3. CASE e.bytes \notin {Unset, Malformed}
  <2>1. /\ e.bytes.n \in Nat
        /\ Factor[e.bytes.unit] \in Nat
    BY <1>3, NumbersAssumption, EnvironmentsAssumption DEF Text
  <2>2. Bytes(e.bytes) \in Nat
    BY <2>1, ProductInNat DEF Bytes
  <2>3. Bytes(e.bytes) % Word \in 0 .. Word - 1
    BY <1>1, <2>2
  <2> QED
    BY <1>3, <2>3 DEF envBytes
<1> QED
  BY <1>2, <1>3

(* A number parsed from the environment is one of the set its parser       *)
(* returns, as its default is.                                             *)
LEMMA ParsedIn ==
  ASSUME NEW S, NEW text \in Text(S), NEW def \in S
  PROVE  Parsed(text, def) \in S
  BY DEF Parsed, Text

(* The limit of a container, when it can be read, is the container's.      *)
LEMMA LimitIsRead ==
  ASSUME NEW e \in Environments
  PROVE  /\ cgroupMemoryLimit(e) # None =>
              /\ cgroupMemoryLimit(e) \in 1 .. PiB - 1
              /\ cgroupMemoryLimit(e) = e.limit
         /\ e.host \in {"v1", "v2"} /\ e.limit # None =>
              cgroupMemoryLimit(e) = e.limit
<1> DEFINE files == {memoryMax(e), limitInBytes(e)}
<1>1. /\ PiB \in Nat
      /\ Word \in Nat
      /\ PiB < Word
      /\ Malformed \notin 1 .. PiB - 1
      /\ None \notin 1 .. PiB - 1
  BY NumbersAssumption
<1>2. e.limit = None \/ e.limit \in 1 .. PiB - 1
  BY EnvironmentsAssumption
<1>3. \A text \in files :
        text \in 1 .. PiB - 1 => text = e.limit
  BY <1>1, <1>2 DEF memoryMax, limitInBytes
<1>4. e.host = "v2" /\ e.limit # None => memoryMax(e) = e.limit
  BY DEF memoryMax
<1>5. e.host = "v1" /\ e.limit # None =>
        limitInBytes(e) = e.limit /\ memoryMax(e) = Malformed
  BY DEF memoryMax, limitInBytes
<1>6. V2Limit(e) = IF memoryMax(e) \in 1 .. PiB - 1 THEN memoryMax(e)
                   ELSE None
  BY DEF V2Limit, readCgroupLimit
<1>7. readCgroupLimit(limitInBytes(e)) =
        IF limitInBytes(e) \in 1 .. PiB - 1 THEN limitInBytes(e) ELSE None
  BY DEF readCgroupLimit
<1> QED
  BY <1>1, <1>2, <1>3, <1>4, <1>5, <1>6, <1>7 DEF cgroupMemoryLimit

(* The share of the container's limit fits in uint64, or is cut to what    *)
(* the build makes of it.                                                  *)
LEMMA ToUintFits ==
  ASSUME NEW n \in Nat
  PROVE  ToUint(n) \subseteq 0 .. Word - 1
<1>1. /\ Word \in Nat
      /\ Word > 0
      /\ Word \div 2 \in 0 .. Word - 1
  BY NumbersAssumption
<1>2. n < Percent * Word => n \div Percent \in 0 .. Word - 1
  BY <1>1 DEF Percent
<1> QED
  BY <1>1, <1>2 DEF ToUint

(* Whatever the environment says, the limit on RSS is a uint64.            *)
LEMMA MaxRSSFits ==
  ASSUME NEW e \in Environments
  PROVE  MaxRSSBytes(e, envBytes(e.bytes, 0),
                     Parsed(e.ratio, defaultMaxRSSRatio)) \subseteq
           0 .. Word - 1
<1> DEFINE ratio == Parsed(e.ratio, defaultMaxRSSRatio)
<1>1. ratio \in Int
  BY ParsedIn, EnvironmentsAssumption DEF defaultMaxRSSRatio
<1>2. cgroupMemoryLimit(e) # None /\ ratio > 0 =>
        cgroupMemoryLimit(e) * ratio \in Nat
  BY <1>1, LimitIsRead, ProductInNat, NumbersAssumption
<1>3. cgroupMemoryLimit(e) # None /\ ratio > 0 =>
        ToUint(cgroupMemoryLimit(e) * ratio) \subseteq 0 .. Word - 1
  BY <1>2, ToUintFits
<1> HIDE DEF ratio
<1>4. MaxRSSBytes(e, envBytes(e.bytes, 0), ratio) \subseteq 0 .. Word - 1
  BY <1>3, BytesFit DEF MaxRSSBytes
<1> QED
  BY <1>4 DEF ratio

(* A configuration, field by field.                                        *)
LEMMA ConfigFromEnv ==
  ASSUME NEW e \in Environments, NEW c \in recycleConfigFromEnv(e)
  PROVE  /\ c.maxRSSBytes \in MaxRSSBytes(e, envBytes(e.bytes, 0),
                                Parsed(e.ratio, defaultMaxRSSRatio))
         /\ c.maxRSSBytes \in 0 .. Word - 1
         /\ c.maxReconciles \in Nat
         /\ c.maxLifetime \in Int
         /\ c.checkInterval = Parsed(e.interval, defaultCheckInterval)
         /\ c.checkInterval \in Int
<1>1. PICK limit \in MaxRSSBytes(e, envBytes(e.bytes, 0),
                                 Parsed(e.ratio, defaultMaxRSSRatio)) :
        c = [maxRSSBytes   |-> limit,
             maxReconciles |-> Parsed(e.reconciles, 0),
             maxLifetime   |-> Parsed(e.lifetime, 0),
             checkInterval |-> Parsed(e.interval, defaultCheckInterval),
             drainTimeout  |-> Parsed(e.drain, defaultDrainTimeout)]
  BY DEF recycleConfigFromEnv
<1>2. Parsed(e.reconciles, 0) \in 0 .. Word - 1
  BY ParsedIn, NumbersAssumption, EnvironmentsAssumption
<1>3. /\ Parsed(e.lifetime, 0) \in Int
      /\ Parsed(e.interval, defaultCheckInterval) \in Int
  BY ParsedIn, EnvironmentsAssumption DEF defaultCheckInterval
<1> QED
  BY <1>1, <1>2, <1>3, MaxRSSFits, NumbersAssumption

(* The cache that comes out of the environment is off or has room.         *)
LEMMA CacheHasRoom ==
  ASSUME NEW e \in Environments, NEW ttl,
         newRenderCache(ToInt(Parsed(e.cacheSize, 0)), ttl) # None
  PROVE  newRenderCache(ToInt(Parsed(e.cacheSize, 0)), ttl).max
           \in 1 .. (Word \div 2) - 1
<1> DEFINE size == Parsed(e.cacheSize, 0)
<1>1. Word \in Nat /\ Word \div 2 \in Nat
  BY NumbersAssumption
<1>2. size \in 0 .. Word - 1
  BY ParsedIn, NumbersAssumption, EnvironmentsAssumption
<1> HIDE DEF size
<1>3. ToInt(size) > 0 => ToInt(size) \in 1 .. (Word \div 2) - 1
  BY <1>1, <1>2 DEF ToInt
<1>4. ToInt(size) \in Int
  BY <1>1, <1>2 DEF ToInt
<1>5. newRenderCache(ToInt(size), ttl) # None
  BY DEF size
<1>6. newRenderCache(ToInt(size), ttl).max \in 1 .. (Word \div 2) - 1
  BY <1>3, <1>4, <1>5 DEF newRenderCache
<1> QED
  BY <1>6 DEF size

(* An explicit limit that fits is the one that counts.                     *)
LEMMA ExplicitLimit ==
  ASSUME NEW e \in Environments, NEW c \in recycleConfigFromEnv(e),
         e.bytes \notin {Unset, Malformed},
         Bytes(e.bytes) \in 1 .. Word - 1
  PROVE  c.maxRSSBytes = Bytes(e.bytes)
<1>1. Word \in Nat
  BY NumbersAssumption
<1>2. envBytes(e.bytes, 0) = Bytes(e.bytes) % Word
  BY DEF envBytes
<1>3. Bytes(e.bytes) % Word = Bytes(e.bytes)
  BY <1>1
<1>4. envBytes(e.bytes, 0) = Bytes(e.bytes) /\ Bytes(e.bytes) # 0
  BY <1>1, <1>2, <1>3
<1> QED
  BY <1>4, ConfigFromEnv DEF MaxRSSBytes

(* With no limit and no ratio given, 85% of the container's counts.        *)
LEMMA DefaultLimit ==
  ASSUME NEW e \in Environments, NEW c \in recycleConfigFromEnv(e),
         e.host \in {"v1", "v2"}, e.limit # None,
         e.bytes \in {Unset, Malformed} \/ e.bytes.n = 0,
         e.ratio \in {Unset, Malformed}
  PROVE  /\ e.limit \in Nat
         /\ c.maxRSSBytes =
              (e.limit * defaultMaxRSSRatio) \div Percent
<1>1. /\ Word \in Nat
      /\ Word > 0
      /\ e.limit \in Nat
      /\ e.limit < Word
  <2>1. e.limit \in 1 .. PiB - 1
    BY EnvironmentsAssumption
  <2> QED
    BY <2>1, PiBFits
<1>2. envBytes(e.bytes, 0) = 0
  <2>1. CASE e.bytes \in {Unset, Malformed}
    BY <2>1 DEF envBytes
  <2>2. CASE e.bytes \notin {Unset, Malformed}
    <3>1. e.bytes.n = 0
      BY <2>2
    <3>2. Factor[e.bytes.unit] \in Nat
      BY <2>2, NumbersAssumption, EnvironmentsAssumption DEF Text
    <3>3. Bytes(e.bytes) = 0 * Factor[e.bytes.unit]
      BY <3>1 DEF Bytes
    <3>4. 0 * Factor[e.bytes.unit] = 0
      BY <3>2, ZeroTimes
    <3>5. 0 % Word = 0
      BY <1>1, ZeroMod
    <3> QED
      BY <2>2, <3>3, <3>4, <3>5 DEF envBytes
  <2> QED
    BY <2>1, <2>2
<1>3. Parsed(e.ratio, defaultMaxRSSRatio) = defaultMaxRSSRatio
  BY DEF Parsed
<1>4. cgroupMemoryLimit(e) = e.limit
  BY LimitIsRead
<1>5. ToUint(e.limit * defaultMaxRSSRatio) =
        {(e.limit * defaultMaxRSSRatio) \div Percent}
  BY <1>1, DefaultShare
<1>6. c.maxRSSBytes \in MaxRSSBytes(e, 0, defaultMaxRSSRatio)
  BY <1>2, <1>3, ConfigFromEnv
<1>7. MaxRSSBytes(e, 0, defaultMaxRSSRatio) =
        ToUint(e.limit * defaultMaxRSSRatio)
  <2>1. defaultMaxRSSRatio > 0
    BY DEF defaultMaxRSSRatio
  <2> QED
    BY <1>4, <2>1 DEF MaxRSSBytes
<1> QED
  BY <1>1, <1>5, <1>6, <1>7

-----------------------------------------------------------------------------
(* The process.                                                            *)

(* What it knows in each phase: before Configure nothing, after it a       *)
(* configuration of its environment and a watchdog that runs exactly when  *)
(* a trigger is on, with a ticker if its interval is positive.             *)
Configured ==
  /\ env \in Environments
  /\ phase \in {"starting", "serving", "failed", "crashed", "killed",
                "recycled"}
  /\ watch \in {"off", "spawned", "ticking", "draining"}
  /\ rss \in Nat
  /\ unseen \in Nat
  /\ IF phase \in {"starting", "failed"}
     THEN rss = 0 /\ unseen = 0 /\ watch = "off" /\ crossed = None
     ELSE /\ cfg \in recycleConfigFromEnv(env)
          /\ watch # "off" <=> enabled(cfg)
          /\ watch \in {"ticking", "draining"} => cfg.checkInterval > 0
          /\ cache = newRenderCache(ToInt(Parsed(env.cacheSize, 0)),
                                    Parsed(env.cacheTTL, 0))
  /\ phase = "crashed" => enabled(cfg) /\ cfg.checkInterval <= 0

(* A process with a limit was below it at the last reading that let it run *)
(* on; the reading its drain started for was not.                          *)
Watched ==
  /\ /\ phase \in {"serving", "killed", "recycled"}
     /\ cfg.maxRSSBytes > 0
     => rss < cfg.maxRSSBytes + unseen
  /\ crossed # None => crossed \in Nat /\ crossed >= cfg.maxRSSBytes

IInv == Configured /\ Watched

(* The inductive invariant holds in every reachable state.                 *)
THEOREM StartupInvariant == Spec => []IInv
<1> USE NumbersAssumption
<1>1. Init => IInv
  BY DEF Init, IInv, Configured, Watched
<1>2. IInv /\ [Next]_vars => IInv'
  <2> SUFFICES ASSUME IInv, [Next]_vars
               PROVE  IInv'
    OBVIOUS
  <2> USE DEF IInv, Configured
  <2>1. CASE Configure
    <3>1. cfg'.maxRSSBytes \in Nat
      BY <2>1, ConfigFromEnv DEF Configure
    <3>2. Configured'
      BY <2>1 DEF Configure
    <3>3. Watched'
      BY <2>1, <3>1 DEF Configure, Watched
    <3> QED
      BY <3>2, <3>3
  <2>2. CASE ExitOnError
    BY <2>2 DEF ExitOnError, Watched
  <2>3. CASE StartTicker
    BY <2>3 DEF StartTicker, Watched, enabled
  <2>4. CASE Leak
    <3>1. /\ cfg \in recycleConfigFromEnv(env)
          /\ cfg.maxRSSBytes \in Nat
          /\ UNCHANGED <<cfg, crossed>>
          /\ phase = "serving"
      BY <2>4, ConfigFromEnv DEF Leak
    <3>2. Configured'
      BY <2>4 DEF Leak
    <3>3. \/ rss' = rss /\ unseen' = unseen
          \/ rss' = rss + 1 /\ cfg.maxRSSBytes = 0
          \/ rss' = rss + 1 /\ unseen' = unseen + 1
      BY <2>4 DEF Leak
    <3>4. Watched'
      BY <3>1, <3>3 DEF Watched
    <3> QED
      BY <3>2, <3>4
  <2>5. CASE Sample
    <3>1. /\ cfg \in recycleConfigFromEnv(env)
          /\ cfg.maxRSSBytes \in Nat
          /\ phase = "serving" /\ watch = "ticking"
          /\ UNCHANGED <<env, phase, cfg, cache, rss>>
      BY <2>5, ConfigFromEnv DEF Sample
    <3>2. /\ watch' \in {"ticking", "draining"}
          /\ unseen' \in {unseen, 0}
          /\ unseen' # unseen => rss < cfg.maxRSSBytes
          /\ crossed' = crossed \/ crossed' = None
             \/ (crossed' = rss /\ rss >= cfg.maxRSSBytes)
      BY <2>5 DEF Sample, StartDrain
    <3>3. Configured'
      BY <3>1, <3>2
    <3>4. Watched'
      BY <3>1, <3>2 DEF Watched
    <3> QED
      BY <3>3, <3>4
  <2>8. CASE Exit
    BY <2>8 DEF Exit, Watched
  <2>6. CASE Restart
    BY <2>6 DEF Restart, Watched
  <2>7. CASE UNCHANGED vars
    BY <2>7 DEF vars, Watched
  <2> QED
    BY <2>1, <2>2, <2>3, <2>4, <2>5, <2>6, <2>7, <2>8 DEF Next
<1> QED
  BY <1>1, <1>2, PTL DEF Spec

(* Every process that serves has limits in range, a cache that is off or   *)
(* has room and, exactly when a limit is on, a watchdog; it crashes only if*)
(* one is on and the interval is not positive (recycle.go 67-93,           *)
(* rendercache.go 50-75).                                                  *)
THEOREM ProcessesAreConfigured == Spec => []TypeOK
<1>1. IInv => TypeOK
  <2> SUFFICES ASSUME IInv
               PROVE  TypeOK
    OBVIOUS
  <2> USE DEF IInv, Configured
  <2>1. phase \notin {"starting", "failed"} =>
          /\ cfg.maxRSSBytes \in 0 .. Word - 1
          /\ cfg.maxReconciles \in Nat
          /\ cfg.checkInterval = Parsed(env.interval, defaultCheckInterval)
    BY ConfigFromEnv
  <2>2. phase = "serving" /\ cache # None =>
          cache.max \in 1 .. (Word \div 2) - 1
    BY CacheHasRoom
  <2>3. phase = "crashed" => Parsed(env.interval, 1) <= 0
    BY <2>1 DEF Parsed, defaultCheckInterval
  <2> QED
    BY <2>1, <2>2, <2>3 DEF TypeOK
<1> QED
  BY <1>1, StartupInvariant, PTL

(* "The in-cluster default just works" (recycle.go:68-71), for every       *)
(* container limit: the kernel kills only a process that leaked more than  *)
(* the remaining 15% since the last reading that let it run on.            *)
THEOREM DefaultBeatsTheKernel == Spec => []DefaultBeatsKernel
<1> DEFINE Killed == phase = "killed" => env.limit # None /\ rss > env.limit
<1>1. Spec => []Killed
  <2>1. Init => Killed
    BY DEF Init
  <2>2. Killed /\ [Next]_vars => Killed'
    BY DEF Next, vars, Configure, ExitOnError, StartTicker, Leak, Sample,
           Exit, Restart
  <2> QED
    BY <2>1, <2>2, PTL DEF Spec
<1>2. IInv /\ Killed => DefaultBeatsKernel
  <2> SUFFICES ASSUME IInv, Killed,
                      phase = "killed",
                      env.host \in {"v1", "v2"},
                      env.limit > 1,
                      env.bytes \in {Unset, Malformed} \/ env.bytes.n = 0,
                      env.ratio \in {Unset, Malformed}
               PROVE  Percent * unseen >
                        (Percent - defaultMaxRSSRatio) * env.limit
    BY DEF DefaultBeatsKernel, Parsed
  <2>1. /\ cfg \in recycleConfigFromEnv(env)
        /\ env \in Environments
        /\ rss \in Nat
        /\ unseen \in Nat
    BY DEF IInv, Configured
  <2>2. /\ env.limit \in Nat
        /\ cfg.maxRSSBytes = (env.limit * defaultMaxRSSRatio) \div Percent
    BY <2>1, DefaultLimit
  <2>3. rss > env.limit
    OBVIOUS
  <2>4. cfg.maxRSSBytes > 0 => rss < cfg.maxRSSBytes + unseen
    BY DEF IInv, Watched
  <2> QED
    BY <2>1, <2>2, <2>3, <2>4, RestOfShare
<1> QED
  BY <1>1, <1>2, StartupInvariant, PTL

(* An explicit limit that fits is the one that counts, whatever the        *)
(* container's and the ratio: no drain starts over an RSS below it, and no *)
(* tick that reads an RSS at it or above lets the process run on.          *)
THEOREM ExplicitLimitIsMeant == Spec => []RSSLimitIsMeant
<1>1. IInv => RSSLimitIsMeant
  <2> SUFFICES ASSUME IInv, cfg # None,
                      env.bytes \notin {Unset, Malformed},
                      Bytes(env.bytes) \in 1 .. Word - 1
               PROVE  /\ crossed # None => crossed >= Bytes(env.bytes)
                      /\ phase = "serving" /\ watch = "ticking" =>
                           rss - unseen < Bytes(env.bytes)
    BY DEF RSSLimitIsMeant
  <2>1. /\ env \in Environments
        /\ rss \in Nat
        /\ unseen \in Nat
        /\ Word \in Nat
    BY NumbersAssumption DEF IInv, Configured
  <2>2. crossed # None \/ phase = "serving" =>
          cfg.maxRSSBytes = Bytes(env.bytes)
    BY ExplicitLimit DEF IInv, Configured
  <2> QED
    BY <2>1, <2>2 DEF IInv, Watched
<1> QED
  BY <1>1, StartupInvariant, PTL
=============================================================================
