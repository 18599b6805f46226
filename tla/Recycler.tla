------------------------------ MODULE Recycler ------------------------------
(***************************************************************************)
(* The memory recycler of recycle.go: the gate every RunFunction call goes *)
(* through (begin, end) and the watchdog that, when a limit is crossed,    *)
(* drains the calls in flight and exits the process (watch, shouldRecycle, *)
(* recycle).                                                               *)
(*                                                                         *)
(* One action is one atomic step of one goroutine: a load, an atomic add,  *)
(* an RWMutex operation, one arm of the select.  A member of Calls is a    *)
(* serving slot that handles one request after another.                    *)
(***************************************************************************)
EXTENDS Naturals, FiniteSets

CONSTANTS Calls,         \* serving slots: concurrent RunFunction calls
          Watchers,      \* goroutines in watch(); the program starts one
          MaxReconciles, \* cfg.maxReconciles, 0 when disabled
          MaxLifetime,   \* cfg.maxLifetime in clock ticks, 0 when disabled
          MaxRSS,        \* cfg.maxRSSBytes in units, 0 when disabled
          ReadError      \* readRSS() failed

ASSUME LimitsAssumption ==
  /\ MaxReconciles \in Nat
  /\ MaxLifetime \in Nat
  /\ MaxRSS \in Nat
  /\ ReadError \notin Nat

ASSUME CallsAssumption == IsFiniteSet(Calls)

VARIABLES draining,  \* r.draining
          readers,   \* calls that hold r.gate for reading
          locker,    \* the goroutine that takes r.gate for writing
          inflight,  \* r.inflight
          count,     \* r.count, kept up to MaxReconciles: only compared to it
          elapsed,   \* now() - start, kept up to MaxLifetime likewise
          rss,       \* what /proc/self/statm says, or ReadError
          call,      \* where each call is in RunFunction
          watch,     \* where each watcher is in watch() and recycle()
          reason,    \* the reason shouldRecycle() gave each watcher
          exit       \* "no", or the arm of the select that led to exit(0)

gateVars  == <<draining, readers, locker>>
callVars  == <<call, inflight, count>>
watchVars == <<watch, reason, exit>>
envVars   == <<elapsed, rss>>
vars == <<gateVars, callVars, watchVars, envVars>>

Running == exit = "no"

(* The states of a call: "admitted" has seen draining false and is at      *)
(* RLock; "locked" to "ending" hold the gate; "returned" and "rejected"    *)
(* have left RunFunction but their response is not on the wire yet.        *)
CallStates == {"idle", "admitted", "locked", "counting", "rendering",
               "ending", "returned", "rejected"}
Holding == {"locked", "counting", "rendering", "ending"}
Counted == {"counting", "rendering"}

WatchStates == {"off", "ticking", "triggered", "draining", "drained",
                "timedout", "done"}
(* The locker goroutine: "pending" has announced itself to the RWMutex, so *)
(* that no new reader gets in, and waits for the readers it found.         *)
LockerStates == {"none", "spawned", "pending", "locked", "closed"}
RSSReadings == (0 .. MaxRSS) \cup {ReadError}

(* A reason: the limit that was crossed and the reading that crossed it.   *)
Reasons == [limit : {"none", "count", "lifetime", "rss"},
            reading : Nat \cup {ReadError}]
NoReason == [limit |-> "none", reading |-> 0]

Enabled == MaxRSS > 0 \/ MaxReconciles > 0 \/ MaxLifetime > 0

Init ==
  /\ draining = FALSE
  /\ readers = {}
  /\ locker = "none"
  /\ inflight = 0
  /\ count = 0
  /\ elapsed = 0
  /\ rss = 0
  /\ call = [c \in Calls |-> "idle"]
  /\ watch = [w \in Watchers |-> IF Enabled THEN "ticking" ELSE "off"]
  /\ reason = [w \in Watchers |-> NoReason]
  /\ exit = "no"

-----------------------------------------------------------------------------
(* begin(), the render, end(), and the response.                           *)

Moves(c, from, to) ==
  /\ Running
  /\ call[c] = from
  /\ call' = [call EXCEPT ![c] = to]

UncheckedBegin == TRUE  \* mutant: begin() without the load of draining
CanBegin == ~draining

BeginAdmit(c) ==
  /\ CanBegin
  /\ Moves(c, "idle", "admitted")
  /\ UNCHANGED <<gateVars, inflight, count, watchVars, envVars>>

\* Mutant: RunFunction defers end() before it looks at what begin() says.
EndAfterReject(c) ==
  /\ ~CanBegin
  /\ Moves(c, "idle", "rejected")
  /\ inflight' = inflight - 1
  /\ UNCHANGED <<gateVars, count, watchVars, envVars>>

BeginReject(c) ==
  /\ ~CanBegin
  /\ Moves(c, "idle", "rejected")
  /\ UNCHANGED <<gateVars, inflight, count, watchVars, envVars>>

(* sync.RWMutex: a reader waits as soon as a writer has announced itself.  *)
RLock(c) ==
  /\ locker \in {"none", "spawned"}
  /\ Moves(c, "admitted", "locked")
  /\ readers' = readers \cup {c}
  /\ UNCHANGED <<draining, locker, inflight, count, watchVars, envVars>>

AddInflight(c) ==
  /\ Moves(c, "locked", "counting")
  /\ inflight' = inflight + 1
  /\ UNCHANGED <<gateVars, count, watchVars, envVars>>

AddCount(c) ==
  /\ Moves(c, "counting", "rendering")
  /\ count' = IF count < MaxReconciles THEN count + 1 ELSE count
  /\ UNCHANGED <<gateVars, inflight, watchVars, envVars>>

\* Mutants: end() releases the gate first; end() keeps the counter.
GateBeforeCounter(c) ==
  /\ Moves(c, "rendering", "ending")
  /\ readers' = readers \ {c}
  /\ UNCHANGED <<draining, locker, inflight, count, watchVars, envVars>>

KeepInflight(c) ==
  /\ Moves(c, "rendering", "ending")
  /\ UNCHANGED <<gateVars, inflight, count, watchVars, envVars>>

(* The deferred end(): first the counter, then the gate.                   *)
SubInflight(c) ==
  /\ Moves(c, "rendering", "ending")
  /\ inflight' = inflight - 1
  /\ UNCHANGED <<gateVars, count, watchVars, envVars>>

\* Mutant: end() forgets to release the gate.
KeepGate(c) ==
  /\ Moves(c, "ending", "returned")
  /\ UNCHANGED <<gateVars, inflight, count, watchVars, envVars>>

RUnlock(c) ==
  /\ Moves(c, "ending", "returned")
  /\ readers' = readers \ {c}
  /\ UNCHANGED <<draining, locker, inflight, count, watchVars, envVars>>

(* The gRPC server sends what the handler returned, after its defers ran.  *)
Answer(c) ==
  /\ Moves(c, "returned", "idle") \/ Moves(c, "rejected", "idle")
  /\ UNCHANGED <<gateVars, inflight, count, watchVars, envVars>>

-----------------------------------------------------------------------------
(* The watchdog.                                                           *)

\* Mutants: a limit of 0 is on; an unreadable RSS is over the limit; the limit
\* is exclusive.
ZeroIsOn == count >= MaxReconciles
UnreadableIsOver == MaxRSS > 0 /\ (rss = ReadError \/ rss >= MaxRSS)
ExclusiveRSS == MaxRSS > 0 /\ rss # ReadError /\ rss > MaxRSS

OverCount == MaxReconciles > 0 /\ count >= MaxReconciles
OverLifetime == MaxLifetime > 0 /\ elapsed >= MaxLifetime
OverRSS == MaxRSS > 0 /\ rss # ReadError /\ rss >= MaxRSS

ForCount == [limit |-> "count", reading |-> count]
ForLifetime == [limit |-> "lifetime", reading |-> elapsed]
ForRSS == [limit |-> "rss", reading |-> rss]

\* Mutant: an unreadable RSS is looked at first and hides the other limits.
RSSFirst ==
  IF MaxRSS > 0 /\ rss = ReadError THEN NoReason
  ELSE IF OverRSS THEN ForRSS
  ELSE IF OverCount THEN ForCount
  ELSE IF OverLifetime THEN ForLifetime
  ELSE NoReason

ShouldRecycle ==
  IF OverCount THEN ForCount
  ELSE IF OverLifetime THEN ForLifetime
  ELSE IF OverRSS THEN ForRSS
  ELSE NoReason

Steps(w, from, to) ==
  /\ Running
  /\ watch[w] = from
  /\ watch' = [watch EXCEPT ![w] = to]

(* One tick of watch() that finds a limit crossed; the others do nothing.  *)
Tick(w) ==
  /\ ShouldRecycle # NoReason
  /\ Steps(w, "ticking", "triggered")
  /\ reason' = [reason EXCEPT ![w] = ShouldRecycle]
  /\ UNCHANGED <<gateVars, callVars, exit, envVars>>

\* Mutant: draining is stored without comparing it first.
RecycleWithoutCAS(w) ==
  /\ Steps(w, "triggered", "draining")
  /\ draining' = TRUE
  /\ locker' = "spawned"
  /\ UNCHANGED <<readers, callVars, reason, exit, envVars>>

(* recycle(): the CAS on draining and the goroutine the winner spawns.     *)
Recycle(w) ==
  \/ /\ ~draining
     /\ Steps(w, "triggered", "draining")
     /\ draining' = TRUE
     /\ locker' = "spawned"
     /\ UNCHANGED <<readers, callVars, reason, exit, envVars>>
  \/ /\ draining
     /\ Steps(w, "triggered", "done")
     /\ UNCHANGED <<gateVars, callVars, reason, exit, envVars>>

LockerSteps(from, to) ==
  /\ Running
  /\ locker = from
  /\ locker' = to
  /\ UNCHANGED <<draining, readers, callVars, watchVars, envVars>>

AnnounceLock == LockerSteps("spawned", "pending")
TakeLock == readers = {} /\ LockerSteps("pending", "locked")
\* Mutant: drained is closed before the gate is held.
CloseBeforeLock == LockerSteps("pending", "closed")
CloseDrained == LockerSteps("locked", "closed")

SelectDrained(w) ==
  /\ locker = "closed"
  /\ Steps(w, "draining", "drained")
  /\ UNCHANGED <<gateVars, callVars, reason, exit, envVars>>

NoTimeout(w) == FALSE  \* mutant: recycle() waits for drained only

(* drainTimeout may run out at any moment of the drain.                    *)
SelectTimeout(w) ==
  /\ Steps(w, "draining", "timedout")
  /\ UNCHANGED <<gateVars, callVars, reason, exit, envVars>>

\* Mutant: a drain that times out returns without exiting.
ExitOnlyDrained(w) ==
  /\ Steps(w, "drained", "done")
  /\ exit' = watch[w]
  /\ UNCHANGED <<gateVars, callVars, reason, envVars>>

Exit(w) ==
  /\ \/ Steps(w, "drained", "done")
     \/ Steps(w, "timedout", "done")
  /\ exit' = watch[w]
  /\ UNCHANGED <<gateVars, callVars, reason, envVars>>

-----------------------------------------------------------------------------
(* The clock and the kernel's accounting of memory.                        *)

Age ==
  /\ Running
  /\ elapsed < MaxLifetime
  /\ elapsed' = elapsed + 1
  /\ UNCHANGED <<gateVars, callVars, watchVars, rss>>

RSSMoves ==
  /\ Running
  /\ MaxRSS > 0
  /\ rss' \in RSSReadings
  /\ UNCHANGED <<gateVars, callVars, watchVars, elapsed>>

CallStep(c) ==
  \/ BeginAdmit(c)
  \/ BeginReject(c)
  \/ RLock(c)
  \/ AddInflight(c)
  \/ AddCount(c)
  \/ SubInflight(c)
  \/ RUnlock(c)
  \/ Answer(c)

WatchStep(w) ==
  \/ Tick(w)
  \/ Recycle(w)
  \/ SelectDrained(w)
  \/ SelectTimeout(w)
  \/ Exit(w)

LockerStep == AnnounceLock \/ TakeLock \/ CloseDrained

Next ==
  \/ \E c \in Calls : CallStep(c)
  \/ \E w \in Watchers : WatchStep(w)
  \/ LockerStep
  \/ Age
  \/ RSSMoves

(* The Go scheduler runs every goroutine that is ready, tickers and timers *)
(* fire.  Nothing is assumed of the length of a render (SubInflight), of   *)
(* the transport (Answer), of new requests, of rss or of the lifetime.     *)
Fairness ==
  /\ \A c \in Calls :
       WF_vars(RLock(c)) /\ WF_vars(AddInflight(c)) /\ WF_vars(AddCount(c))
  /\ \A w \in Watchers : WF_vars(WatchStep(w))
  /\ WF_vars(LockerStep)

Safety == Init /\ [][Next]_vars
Spec == Safety /\ Fairness

-----------------------------------------------------------------------------
(* Properties.                                                             *)

(* The type invariant: the values each variable of the recycler ranges     *)
(* over.                                                                   *)
TypeOK ==
  /\ draining \in BOOLEAN
  /\ readers \in SUBSET Calls
  /\ locker \in LockerStates
  /\ inflight \in Nat
  /\ count \in 0 .. MaxReconciles
  /\ elapsed \in 0 .. MaxLifetime
  /\ rss \in RSSReadings
  /\ call \in [Calls -> CallStates]
  /\ watch \in [Watchers -> WatchStates]
  /\ reason \in [Watchers -> Reasons]
  /\ exit \in {"no", "drained", "timedout"}

(* Once the drain goroutine owns the gate, no call is anywhere between     *)
(* RLock and RUnlock and the inflight counter recycle() logs reads zero,   *)
(* so end() must lower the counter before it releases the gate.            *)
GateExcludes ==
  locker \in {"locked", "closed"} =>
    /\ inflight = 0
    /\ \A c \in Calls : call[c] \notin Holding

(* The inflight counter counts exactly the calls that raised and have not  *)
(* lowered it, whatever begin and end calls interleave.                    *)
CountedCalls == {c \in Calls : call[c] \in Counted}
InflightExact == inflight = Cardinality(CountedCalls)

(* However many goroutines decide to recycle, one drains, spawns the       *)
(* locker and exits: the CAS makes recycle() idempotent.                   *)
Draining(w) == watch[w] \in {"draining", "drained", "timedout"}
SingleDrain == \A v, w \in Watchers : Draining(v) /\ Draining(w) => v = w

(* A process that has not crossed an enabled limit never drains, and a     *)
(* limit of 0 is off: a watcher acts on a count or a lifetime that was, and*)
(* still is, at an enabled limit, or on an RSS that could be read and was. *)
RecycleHasCause ==
  draining => \E w \in Watchers :
    LET over(limit, max) == /\ reason[w].limit = limit /\ max > 0
                            /\ reason[w].reading # ReadError
                            /\ reason[w].reading >= max
    IN \/ over("count", MaxReconciles) /\ count >= MaxReconciles
       \/ over("lifetime", MaxLifetime) /\ elapsed >= MaxLifetime
       \/ over("rss", MaxRSS)

(* begin() bounds the drain to the calls that were already past its check: *)
(* after draining is set the calls at the gate or inside it only go down,  *)
(* and after the writer announced itself nobody enters.                    *)
AtGate == {c \in Calls : call[c] = "admitted" \/ call[c] \in Holding}
DrainStep ==
  /\ draining => draining' /\ AtGate' \subseteq AtGate
  /\ locker \in {"pending", "locked", "closed"} => readers' \subseteq readers
DrainShrinks == [][DrainStep]_vars

(* A process that has served its quota of calls exits, even when its RSS   *)
(* cannot be read and when a render never ends.                            *)
CountRecycles ==
  (MaxReconciles > 0 /\ count >= MaxReconciles) ~> ~Running

(* A process whose RSS stays at or over the limit exits, even when a       *)
(* render never ends.                                                      *)
RSSRecycles ==
  (MaxRSS > 0 /\ <>[](rss = MaxRSS)) => <>~Running

(* A call that begin() let past its check is let in or ends with the       *)
(* process: it cannot wait at the gate of a process that lives on.         *)
GateWaitEnds ==
  \A c \in Calls : call[c] = "admitted" ~> (call[c] = "locked" \/ ~Running)

(* What recycle.go:21-25 says of the exit: it falls between reconciles,    *)
(* so a drained process leaves no admitted call without its response.      *)
ExitBetweenReconciles ==
  exit = "drained" => \A c \in Calls : call[c] # "returned"

(* What recycle.go:128-131 and fn.go:53-55 say of begin(): a call that     *)
(* arrives is admitted or rejected, so a drained process leaves no call    *)
(* behind that is neither.                                                 *)
ExitLeavesNobodyAtGate ==
  exit = "drained" => \A c \in Calls : call[c] # "admitted"

-----------------------------------------------------------------------------
(* The recycler implements GracefulDrain.                                  *)

Phase ==
  CASE exit = "drained"  -> "clean"
    [] exit = "timedout" -> "forced"
    [] Running /\ locker \in {"pending", "locked", "closed"} -> "shut"
    [] Running /\ locker = "spawned" -> "draining"
    [] Running /\ locker = "none" -> "open"

Waiting == {c \in Calls : call[c] = "admitted"}

Drain == INSTANCE GracefulDrain WITH
  phase   <- Phase,
  waiting <- Waiting,
  inside  <- readers

(* The calls, the gate and the exit behave as the abstract drain says,     *)
(* liveness included.                                                      *)
ImplementsDrain == Drain!Spec
ImplementsDrainSafety == Drain!Safety
=============================================================================
