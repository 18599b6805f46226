--------------------------- MODULE OCITokenCache ---------------------------
(***************************************************************************)
(* The ORAS token cache that all calls of a process share, and how         *)
(* resetOCITokenCacheIfNeeded (fn.go) replaces it.  The mutex guards       *)
(* ociCacheCreated and the replacement; ORAS reads DefaultCache without it *)
(* while a module is pulled.  Ages are counted in ticks of the clock.      *)
(***************************************************************************)
EXTENDS Integers

CONSTANTS Calls,
          Caches,   \* identities of cache objects
          MaxAge,   \* ociCacheMaxAge
          MaxWait,  \* bound: how long a call takes
          Nobody, Never

ASSUME OCIAssumption ==
  /\ MaxAge \in Nat \ {0}
  /\ MaxWait \in Nat
  /\ Nobody \notin Calls
  /\ Never \notin Nat

VARIABLES
  mu,        \* who holds ociCacheMu
  default,   \* remoteauth.DefaultCache
  created,   \* the age of ociCacheCreated, or Never while it is zero
  worn,      \* the age of the object in DefaultCache
  token,     \* the age of the token in each object, or Never
  at,        \* where each call is
  checked,   \* the calls that went through the reset
  holds,     \* the object a call's client was made with
  since      \* how long ago each of them came

ociVars == <<mu, default, created, worn, token, at, checked, holds, since>>

Oldest == MaxAge + MaxWait  \* ages are not told apart beyond this one
Places == {"idle", "lock", "check", "stamp", "ready", "pull", "pulled"}

OCIInit ==
  /\ mu = Nobody
  /\ default \in Caches
  /\ created = Never
  /\ worn = MaxAge
  /\ token = [o \in Caches |-> Never]
  /\ at = [c \in Calls |-> "idle"]
  /\ checked = {}
  /\ holds \in [Calls -> {default}]
  /\ since = [c \in Calls |-> 0]

Moves(c, from, to) == at[c] = from /\ at' = [at EXCEPT ![c] = to]

-----------------------------------------------------------------------------
(* resetOCITokenCacheIfNeeded, which only calls with an OCI source enter.  *)

Enter(c, isOCI) ==
  /\ Moves(c, "idle", IF isOCI THEN "lock" ELSE "ready")
  /\ checked' = IF isOCI THEN checked \cup {c} ELSE checked
  /\ UNCHANGED <<mu, default, created, worn, token, holds, since>>

\* Mutant: the reset takes no lock.
NoLock(c) ==
  /\ Moves(c, "lock", "check")
  /\ UNCHANGED <<mu, default, created, worn, token, checked, holds, since>>

Lock(c) ==
  /\ mu = Nobody
  /\ Moves(c, "lock", "check")
  /\ mu' = c
  /\ UNCHANGED <<default, created, worn, token, checked, holds, since>>

\* Mutant: once stamped, the cache is never due again.
DueOnce == created = Never
Due == created \notin 0 .. MaxAge - 1  \* zero, or MaxAge old

Keep(c) ==
  /\ ~Due
  /\ Moves(c, "check", "ready")
  /\ mu' = Nobody
  /\ UNCHANGED <<default, created, worn, token, checked, holds, since>>

(* A new object is one that nobody refers to any more.                     *)
Replace(c) ==
  /\ Due
  /\ Moves(c, "check", "stamp")
  /\ \E o \in Caches \ ({default} \cup {holds[d] : d \in Calls}) :
       /\ default' = o
       /\ token' = [token EXCEPT ![o] = Never]
  /\ worn' = 0
  /\ UNCHANGED <<mu, created, checked, holds, since>>

Stamp(c) ==
  /\ Moves(c, "stamp", "ready")
  /\ created' = 0
  /\ mu' = Nobody
  /\ UNCHANGED <<default, worn, token, checked, holds, since>>

ResetStep(c) ==
  \/ Lock(c)
  \/ Keep(c)
  \/ Replace(c)
  \/ Stamp(c)

-----------------------------------------------------------------------------
(* A pull: the client takes the DefaultCache it finds, at any time of a    *)
(* reset, and later uses the token in it or puts a new one there.          *)

Pull(c) ==
  /\ Moves(c, "ready", "pull")
  /\ holds' = [holds EXCEPT ![c] = default]
  /\ UNCHANGED <<mu, default, created, worn, token, checked, since>>

UseToken(c) ==
  /\ Moves(c, "pull", "pulled")
  /\ token' = [token EXCEPT ![holds[c]] = IF @ = Never THEN 0 ELSE @]
  /\ UNCHANGED <<mu, default, created, worn, checked, holds, since>>

(* A call ends: it forgets the object it had.                              *)
Quit(c) ==
  /\ at[c] \in {"ready", "pull", "pulled"}
  /\ at' = [at EXCEPT ![c] = "idle"]
  /\ checked' = checked \ {c}
  /\ holds' = [holds EXCEPT ![c] = default]
  /\ since' = [since EXCEPT ![c] = 0]
  /\ UNCHANGED <<mu, default, created, worn, token>>

(* The clock.  The few instructions under the lock take no time.           *)
Older(age, cap) == IF age \in 0 .. cap - 1 THEN age + 1 ELSE age
Tick ==
  /\ mu = Nobody
  /\ \A c \in Calls : at[c] \notin {"check", "stamp"}
  /\ \A c \in checked : since[c] < MaxWait
  /\ created' = Older(created, MaxAge)
  /\ worn' = Older(worn, MaxAge)
  /\ token' = [o \in Caches |-> Older(token[o], Oldest)]
  /\ since' = [c \in Calls |-> IF c \in checked THEN since[c] + 1 ELSE 0]
  /\ UNCHANGED <<mu, default, at, checked, holds>>

(* A process that starts knows no token; which object is its DefaultCache  *)
(* does not matter.                                                        *)
NewProcess ==
  /\ mu' = Nobody /\ created' = Never /\ worn' = MaxAge
  /\ token' = [o \in Caches |-> Never]
  /\ at' = [c \in Calls |-> "idle"] /\ checked' = {}
  /\ holds' = [c \in Calls |-> default] /\ since' = [c \in Calls |-> 0]
  /\ UNCHANGED default

OCINext ==
  \/ \E c \in Calls : \/ \E isOCI \in BOOLEAN : Enter(c, isOCI)
                      \/ ResetStep(c) \/ Pull(c) \/ UseToken(c) \/ Quit(c)
  \/ Tick
  \/ NewProcess

OCISpec == OCIInit /\ [][OCINext]_ociVars

-----------------------------------------------------------------------------
(* Properties.                                                             *)

(* DefaultCache is replaced at most once every MaxAge, however many calls  *)
(* find it due at the same time: no token fetched since is thrown away.    *)
OneResetPerAge == [][default' # default => worn >= MaxAge]_ociVars

(* The token a call with an OCI source uses was younger than MaxAge when   *)
(* the call came, although DefaultCache may be replaced between the check, *)
(* the making of the client and the use.                                   *)
TokenAgeBounded ==
  \A c \in checked :
    at[c] = "pulled" => token[holds[c]] \in 0 .. MaxAge + since[c] - 1
=============================================================================
