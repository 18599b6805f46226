--------------------------- MODULE RequestProofs ---------------------------
(***************************************************************************)
(* Proofs about the way of a request to the KCL program: first about the   *)
(* OCI token cache on that way, for every number of concurrent calls,      *)
(* every maximal age and every time a call may take; then about Request,   *)
(* which uses it, for every set of requests.                               *)
(***************************************************************************)
EXTENDS Request, TLAPS

-----------------------------------------------------------------------------
(* The token cache of OCITokenCache.                                       *)

Held == {"ready", "pull", "pulled"}  \* past the reset

OCIType ==
  /\ mu \in Calls \cup {Nobody}
  /\ default \in Caches
  /\ created \in 0 .. MaxAge \cup {Never}
  /\ worn \in 0 .. MaxAge
  /\ token \in [Caches -> 0 .. Oldest \cup {Never}]
  /\ at \in [Calls -> Places]
  /\ checked \in SUBSET Calls
  /\ holds \in [Calls -> Caches]
  /\ since \in [Calls -> 0 .. MaxWait]

(* The mutex is held by the call that looks at the age or replaces the     *)
(* object, so that nobody looks between the replacement and its stamp.     *)
LockInv == \A c \in Calls : at[c] \in {"check", "stamp"} => mu = c

Stamping == \E c \in Calls : at[c] = "stamp"

(* The stamp tells the age of the object, but for the moment between the   *)
(* replacement and the stamp, in which no time passes.                     *)
StampInv ==
  /\ Stamping => worn = 0
  /\ ~Stamping => worn = IF created = Never THEN MaxAge ELSE created

ResetInv == OCIType /\ LockInv /\ StampInv

(* A token is absent or at most so old.                                    *)
Within(age, n) == age = Never \/ age \in 0 .. n
Limit(c) == MaxAge + since[c] - 1

(* The token in the object of the day is no older than the object; a call  *)
(* past its reset finds, or has found, one that is young enough.           *)
TokenInv ==
  /\ worn < MaxAge => Within(token[default], worn)
  /\ \A c \in checked :
       /\ at[c] # "idle"
       /\ at[c] = "ready" => Within(token[default], Limit(c))
       /\ at[c] \in {"pull", "pulled"} => Within(token[holds[c]], Limit(c))
  /\ \A c \in Calls : at[c] = "pulled" => token[holds[c]] # Never

-----------------------------------------------------------------------------
(* What a tick does to an age.                                             *)
LEMMA OlderAge ==
  ASSUME NEW cap \in Nat, NEW age, age \in 0 .. cap \/ age = Never
  PROVE  /\ age = Never => Older(age, cap) = Never
         /\ age \in 0 .. cap => Older(age, cap) \in 0 .. cap
         /\ age \in 0 .. cap - 1 => Older(age, cap) = age + 1
         /\ age = cap => Older(age, cap) = cap
  BY OCIAssumption DEF Older

LEMMA OlderWithin ==
  ASSUME NEW n \in Nat, NEW age, Within(age, n)
  PROVE  Within(Older(age, Oldest), n + 1)
<1>1. Oldest \in Nat
  BY OCIAssumption DEF Oldest
<1>2. CASE age = Never
  BY <1>2, OCIAssumption DEF Older, Within
<1>3. CASE age \in 0 .. n
  <2>1. Older(age, Oldest) = age \/ Older(age, Oldest) = age + 1
    BY DEF Older
  <2>2. Older(age, Oldest) \in 0 .. n + 1
    BY <1>3, <2>1
  <2> QED BY <2>2, OCIAssumption DEF Within
<1> QED BY <1>2, <1>3 DEF Within

LEMMA InitReset == OCIInit => ResetInv /\ TokenInv
<1> SUFFICES ASSUME OCIInit PROVE ResetInv /\ TokenInv
  OBVIOUS
<1> USE OCIAssumption
<1>1. OCIType
  BY DEF OCIInit, OCIType, Places
<1>2. LockInv /\ StampInv
  BY DEF OCIInit, LockInv, StampInv, Stamping
<1>3. TokenInv
  BY DEF OCIInit, TokenInv, Within
<1> QED BY <1>1, <1>2, <1>3 DEF ResetInv

LEMMA StepType == OCIType /\ [OCINext]_ociVars => OCIType'
<1> SUFFICES ASSUME OCIType, [OCINext]_ociVars PROVE OCIType'
  OBVIOUS
<1> USE OCIAssumption DEF OCIType
<1>1. ASSUME NEW c \in Calls, NEW isOCI \in BOOLEAN, Enter(c, isOCI)
      PROVE  OCIType'
  BY <1>1 DEF Enter, Moves, Places
<1>2. ASSUME NEW c \in Calls, ResetStep(c) PROVE OCIType'
  <2>1. CASE Lock(c)
    BY <2>1 DEF Lock, Moves, Places
  <2>2. CASE Keep(c)
    BY <2>2 DEF Keep, Moves, Places
  <2>3. CASE Replace(c)
    BY <2>3 DEF Replace, Moves, Places
  <2>4. CASE Stamp(c)
    BY <2>4 DEF Stamp, Moves, Places
  <2> QED BY <1>2, <2>1, <2>2, <2>3, <2>4 DEF ResetStep
<1>3. ASSUME NEW c \in Calls, Pull(c) PROVE OCIType'
  BY <1>3 DEF Pull, Moves, Places
<1>4. ASSUME NEW c \in Calls, UseToken(c) PROVE OCIType'
  <2>1. 0 \in 0 .. Oldest
    BY DEF Oldest
  <2> QED BY <1>4, <2>1 DEF UseToken, Moves, Places
<1>5. ASSUME NEW c \in Calls, Quit(c) PROVE OCIType'
  BY <1>5 DEF Quit, Places
<1>6. CASE Tick
  <2>1. MaxAge \in Nat /\ Oldest \in Nat
    BY DEF Oldest
  <2>2. created' \in 0 .. MaxAge \cup {Never} /\ worn' \in 0 .. MaxAge
    BY <1>6, <2>1, OlderAge DEF Tick
  <2>3. \A o \in Caches : Older(token[o], Oldest) \in 0 .. Oldest \cup {Never}
    BY <2>1, OlderAge
  <2>4. token' \in [Caches -> 0 .. Oldest \cup {Never}]
    BY <1>6, <2>3 DEF Tick
  <2>5. since' \in [Calls -> 0 .. MaxWait]
    BY <1>6 DEF Tick
  <2> QED BY <1>6, <2>2, <2>4, <2>5 DEF Tick
<1>7. CASE NewProcess
  BY <1>7 DEF NewProcess, Places
<1>8. CASE UNCHANGED ociVars
  BY <1>8 DEF ociVars
<1> QED BY <1>1, <1>2, <1>3, <1>4, <1>5, <1>6, <1>7, <1>8 DEF OCINext

(* The mutex and the stamp.                                                *)
LEMMA StepReset == ResetInv /\ [OCINext]_ociVars => ResetInv'
<1> SUFFICES ASSUME ResetInv, [OCINext]_ociVars PROVE LockInv' /\ StampInv'
  BY StepType DEF ResetInv
<1>0. OCIType /\ LockInv /\ StampInv
  BY DEF ResetInv
<1> USE OCIAssumption
<1>1. ASSUME NEW c \in Calls,
             \/ \E isOCI \in BOOLEAN : Enter(c, isOCI)
             \/ Pull(c) \/ UseToken(c) \/ Quit(c)
      PROVE  LockInv' /\ StampInv'
  <2>1. UNCHANGED <<mu, created, worn>>
    BY <1>1 DEF Enter, Pull, UseToken, Quit
  <2>2. \A d \in Calls : /\ at'[d] = "stamp" <=> at[d] = "stamp"
                         /\ at'[d] = "check" <=> at[d] = "check"
    BY <1>0, <1>1 DEF Enter, Pull, UseToken, Quit, Moves, OCIType
  <2> QED BY <1>0, <2>1, <2>2 DEF LockInv, StampInv, Stamping
<1>2. ASSUME NEW c \in Calls, Lock(c) PROVE LockInv' /\ StampInv'
  <2>1. mu = Nobody /\ mu' = c /\ UNCHANGED <<created, worn>>
    BY <1>2 DEF Lock
  <2>2. \A d \in Calls : at[d] \notin {"check", "stamp"}
    BY <1>0, <2>1 DEF LockInv
  <2>3. \A d \in Calls : d # c => at'[d] = at[d]
    BY <1>0, <1>2 DEF Lock, Moves, OCIType
  <2>4. at'[c] = "check"
    BY <1>0, <1>2 DEF Lock, Moves, OCIType
  <2>5. ~Stamping /\ ~Stamping'
    BY <2>2, <2>3, <2>4 DEF Stamping
  <2> QED BY <1>0, <2>1, <2>2, <2>3, <2>5 DEF LockInv, StampInv
<1>3. ASSUME NEW c \in Calls, Keep(c) \/ Replace(c) \/ Stamp(c)
      PROVE  LockInv' /\ StampInv'
  <2>1. mu = c /\ \A d \in Calls : d # c => at[d] \notin {"check", "stamp"}
    BY <1>0, <1>3 DEF Keep, Replace, Stamp, Moves, LockInv
  <2>2. \A d \in Calls : d # c => at'[d] = at[d]
    BY <1>0, <1>3 DEF Keep, Replace, Stamp, Moves, OCIType
  <2>3. CASE Keep(c)
    <3>1. at[c] = "check" /\ at'[c] = "ready" /\ UNCHANGED <<created, worn>>
      BY <1>0, <2>3 DEF Keep, Moves, OCIType
    <3>2. ~Stamping /\ ~Stamping'
      BY <2>1, <2>2, <3>1 DEF Stamping
    <3> QED BY <1>0, <2>1, <2>2, <3>1, <3>2 DEF LockInv, StampInv
  <2>4. CASE Replace(c)
    <3>1. at'[c] = "stamp" /\ worn' = 0 /\ mu' = mu
      BY <1>0, <2>4 DEF Replace, Moves, OCIType
    <3>2. Stamping'
      BY <3>1 DEF Stamping
    <3> QED BY <2>1, <2>2, <3>1, <3>2 DEF LockInv, StampInv
  <2>5. CASE Stamp(c)
    <3>1. at[c] = "stamp" /\ at'[c] = "ready" /\ created' = 0 /\ worn' = worn
      BY <1>0, <2>5 DEF Stamp, Moves, OCIType
    <3>2. worn = 0
      BY <1>0, <3>1 DEF StampInv, Stamping
    <3>3. ~Stamping'
      BY <2>1, <2>2, <3>1 DEF Stamping
    <3>4. LockInv'
      BY <2>1, <2>2, <3>1 DEF LockInv
    <3> QED BY <3>1, <3>2, <3>3, <3>4 DEF StampInv
  <2> QED BY <1>3, <2>3, <2>4, <2>5
<1>4. CASE Tick
  <2>1. /\ UNCHANGED <<mu, at>> /\ \A c \in Calls : at[c] # "stamp"
        /\ created' = Older(created, MaxAge) /\ worn' = Older(worn, MaxAge)
    BY <1>4 DEF Tick
  <2>2. ~Stamping /\ ~Stamping'
    BY <2>1 DEF Stamping
  <2>3. MaxAge \in Nat
    OBVIOUS
  <2>4. worn' = IF created' = Never THEN MaxAge ELSE created'
    <3>1. CASE created = Never
      <4>1. created' = Never /\ worn = MaxAge
        BY <1>0, <2>1, <2>2, <2>3, <3>1, OlderAge DEF StampInv
      <4>2. worn' = MaxAge
        BY <2>1, <2>3, <4>1, OlderAge
      <4> QED BY <4>1, <4>2
    <3>2. CASE created # Never
      <4>1. worn = created /\ created \in 0 .. MaxAge
        BY <1>0, <2>2, <3>2 DEF StampInv, OCIType
      <4>2. created' \in 0 .. MaxAge
        BY <2>1, <2>3, <4>1, OlderAge
      <4> QED BY <2>1, <4>1, <4>2
    <3> QED BY <3>1, <3>2
  <2> QED BY <1>0, <2>1, <2>2, <2>4 DEF LockInv, StampInv
<1>5. CASE NewProcess
  BY <1>5 DEF NewProcess, LockInv, StampInv, Stamping
<1>6. CASE UNCHANGED ociVars
  BY <1>0, <1>6 DEF ociVars, LockInv, StampInv, Stamping
<1> QED BY <1>1, <1>2, <1>3, <1>4, <1>5, <1>6 DEF OCINext, ResetStep

(* The lock has one owner and the stamp is never older than the cache it  *)
(* belongs to, whatever calls reset, pull and restart between.             *)
THEOREM ResetInvariant == OCISpec => []ResetInv
<1> QED BY InitReset, StepReset, PTL DEF OCISpec

(* A call that finds the cache due finds an object that is MaxAge old.     *)
LEMMA StepOneReset ==
  ResetInv /\ [OCINext]_ociVars => [default' # default => worn >= MaxAge]_ociVars
<1> SUFFICES ASSUME ResetInv, OCINext, default' # default
             PROVE  worn >= MaxAge
  BY DEF ociVars
<1>1. PICK c \in Calls : Replace(c)
  BY DEF OCINext, Enter, ResetStep, Lock, Keep, Stamp, Pull, UseToken, Quit,
     Tick, NewProcess
<1>2. at[c] = "check" /\ created \notin 0 .. MaxAge - 1
  BY <1>1 DEF Replace, Moves, Due
<1>3. ~Stamping
  BY <1>2 DEF ResetInv, LockInv, Stamping
<1> QED BY <1>2, <1>3, OCIAssumption DEF ResetInv, OCIType, StampInv

(* DefaultCache is replaced at most once every MaxAge, for any number of   *)
(* calls.                                                                  *)
THEOREM ResetsAreRare == OCISpec => OneResetPerAge
<1> QED BY ResetInvariant, StepOneReset, PTL DEF OCISpec, OneResetPerAge

-----------------------------------------------------------------------------
(* The bound of a call that is past its reset, or on its way there, is at  *)
(* least MaxAge - 1, so that an object with a good stamp is good enough.   *)
LEMMA LimitIs ==
  ASSUME OCIType, NEW c \in Calls
  PROVE  Limit(c) \in Nat /\ Limit(c) >= MaxAge - 1
  BY OCIAssumption DEF OCIType, Limit

LEMMA WithinMore ==
  ASSUME NEW m \in Nat, NEW n \in Nat, m <= n, NEW age, Within(age, m)
  PROVE  Within(age, n)
  BY DEF Within

(* A call whose reset ends finds an object younger than MaxAge.            *)
LEMMA ReadyIsYoung ==
  ASSUME ResetInv, TokenInv, NEW c \in Calls, Keep(c) \/ Stamp(c)
  PROVE  Within(token[default], Limit(c))
<1>1. worn < MaxAge /\ worn \in Nat
  <2>1. CASE Keep(c)
    <3>1. created \in 0 .. MaxAge - 1 /\ at[c] = "check"
      BY <2>1 DEF Keep, Due, Moves
    <3>2. ~Stamping
      BY <3>1 DEF ResetInv, LockInv, Stamping
    <3>3. worn = created
      BY <3>1, <3>2, OCIAssumption DEF ResetInv, StampInv
    <3> QED BY <3>1, <3>3, OCIAssumption
  <2>2. CASE Stamp(c)
    <3>1. worn = 0
      BY <2>2 DEF Stamp, Moves, ResetInv, StampInv, Stamping
    <3> QED BY <3>1, OCIAssumption
  <2> QED BY <2>1, <2>2
<1>2. Within(token[default], worn)
  BY <1>1 DEF TokenInv
<1>3. Limit(c) \in Nat /\ worn <= Limit(c)
  <2>1. Limit(c) \in Nat /\ Limit(c) >= MaxAge - 1
    BY LimitIs DEF ResetInv
  <2> QED BY <1>1, <2>1, OCIAssumption
<1> QED BY <1>1, <1>2, <1>3, WithinMore

LEMMA StepToken ==
  ResetInv /\ TokenInv /\ [OCINext]_ociVars => TokenInv'
<1> SUFFICES ASSUME ResetInv, TokenInv, [OCINext]_ociVars PROVE TokenInv'
  OBVIOUS
<1>0. OCIType
  BY DEF ResetInv
<1> USE <1>0
<1>1. ASSUME NEW c \in Calls, NEW isOCI \in BOOLEAN, Enter(c, isOCI)
      PROVE  TokenInv'
  <2>1. /\ UNCHANGED <<default, worn, token, holds, since>>
        /\ at'[c] \in {"lock", "ready"} /\ at[c] = "idle"
        /\ \A d \in Calls : d # c => at'[d] = at[d]
        /\ checked' \subseteq checked \cup {c}
        /\ at'[c] = "ready" => c \notin checked'
    BY <1>1 DEF Enter, Moves, OCIType, TokenInv
  <2> QED BY <2>1 DEF TokenInv, Limit, OCIType
<1>2. ASSUME NEW c \in Calls, Lock(c) PROVE TokenInv'
  <2>1. /\ UNCHANGED <<default, worn, token, holds, since, checked>>
        /\ at'[c] = "check"
        /\ \A d \in Calls : d # c => at'[d] = at[d]
    BY <1>2 DEF Lock, Moves, OCIType
  <2> QED BY <2>1 DEF TokenInv, Limit, OCIType
<1>3. ASSUME NEW c \in Calls, Keep(c) \/ Stamp(c) PROVE TokenInv'
  <2>1. /\ UNCHANGED <<default, worn, token, holds, since, checked>>
        /\ at'[c] = "ready"
        /\ \A d \in Calls : d # c => at'[d] = at[d]
    BY <1>3 DEF Keep, Stamp, Moves, OCIType
  <2>2. Within(token[default], Limit(c))
    BY <1>3, ReadyIsYoung
  <2> QED BY <2>1, <2>2 DEF TokenInv, Limit, OCIType
<1>4. ASSUME NEW c \in Calls, Replace(c) PROVE TokenInv'
  <2>1. PICK o \in Caches : /\ default' = o
                            /\ \A d \in Calls : holds[d] # o
                            /\ token' = [token EXCEPT ![o] = Never]
    BY <1>4 DEF Replace
  <2>2. /\ UNCHANGED <<holds, since, checked>>
        /\ at'[c] = "stamp"
        /\ \A d \in Calls : d # c => at'[d] = at[d]
    BY <1>4 DEF Replace, Moves, OCIType
  <2>3. /\ token'[default'] = Never
        /\ \A d \in Calls : token'[holds[d]] = token[holds[d]]
    BY <2>1 DEF OCIType
  <2> QED BY <2>2, <2>3 DEF TokenInv, Limit, Within, OCIType
<1>5. ASSUME NEW c \in Calls, Pull(c) PROVE TokenInv'
  <2>1. /\ UNCHANGED <<default, worn, token, since, checked>>
        /\ at[c] = "ready" /\ at'[c] = "pull" /\ holds'[c] = default
        /\ \A d \in Calls : d # c => at'[d] = at[d] /\ holds'[d] = holds[d]
    BY <1>5 DEF Pull, Moves, OCIType
  <2> QED BY <2>1 DEF TokenInv, Limit, OCIType
<1>6. ASSUME NEW c \in Calls, UseToken(c) PROVE TokenInv'
  <2>1. /\ UNCHANGED <<default, worn, since, checked, holds>>
        /\ at[c] = "pull" /\ at'[c] = "pulled"
        /\ \A d \in Calls : d # c => at'[d] = at[d]
    BY <1>6 DEF UseToken, Moves, OCIType
  <2>2. \A o \in Caches : \/ token'[o] = token[o]
                          \/ token[o] = Never /\ token'[o] = 0
    BY <1>6 DEF UseToken, OCIType
  <2>3. token'[holds[c]] # Never
    BY <1>6, OCIAssumption DEF UseToken, OCIType
  <2>4. \A o \in Caches, n \in Nat : Within(token[o], n) => Within(token'[o], n)
    BY <2>2 DEF Within
  <2>5. \A o \in Caches : token[o] # Never => token'[o] # Never
    BY <2>2
  <2>6. worn \in Nat /\ default \in Caches
        /\ \A d \in Calls : Limit(d) \in Nat /\ Limit(d)' = Limit(d)
                            /\ holds[d] \in Caches
    BY <2>1, LimitIs, OCIAssumption DEF Limit, OCIType
  <2>7. worn' < MaxAge => Within(token'[default'], worn')
    BY <2>1, <2>4, <2>6 DEF TokenInv
  <2>8. \A d \in checked' :
          /\ at'[d] # "idle"
          /\ at'[d] = "ready" => Within(token'[default'], Limit(d)')
          /\ at'[d] \in {"pull", "pulled"} =>
               Within(token'[holds'[d]], Limit(d)')
    BY <2>1, <2>4, <2>6 DEF TokenInv, OCIType
  <2>9. \A d \in Calls : at'[d] = "pulled" => token'[holds'[d]] # Never
    BY <2>1, <2>3, <2>5, <2>6 DEF TokenInv
  <2> QED BY <2>7, <2>8, <2>9 DEF TokenInv
<1>7. ASSUME NEW c \in Calls, Quit(c) PROVE TokenInv'
  <2>1. /\ UNCHANGED <<default, worn, token>>
        /\ at'[c] = "idle"
        /\ checked' = checked \ {c}
        /\ \A d \in Calls : d # c => /\ at'[d] = at[d] /\ holds'[d] = holds[d]
                                     /\ since'[d] = since[d]
    BY <1>7 DEF Quit, OCIType
  <2> QED BY <2>1 DEF TokenInv, Limit, OCIType
<1>8. CASE Tick
  <2>1. /\ UNCHANGED <<default, at, checked, holds>>
        /\ worn' = Older(worn, MaxAge)
        /\ \A o \in Caches : token'[o] = Older(token[o], Oldest)
        /\ \A c \in checked : since'[c] = since[c] + 1
    BY <1>8 DEF Tick, OCIType
  <2>2. \A o \in Caches, n \in Nat :
          Within(token[o], n) => Within(token'[o], n + 1)
    BY <2>1, OlderWithin
  <2>3. \A o \in Caches : token[o] # Never => token'[o] # Never
    <3>1. Oldest \in Nat
      BY OCIAssumption DEF Oldest
    <3>2. ASSUME NEW o \in Caches, token[o] # Never
          PROVE  Older(token[o], Oldest) \in 0 .. Oldest
      <4>1. token[o] \in 0 .. Oldest
        BY <3>2 DEF OCIType
      <4> QED BY <3>1, <4>1, OlderAge
    <3> QED BY <2>1, <3>2, OCIAssumption
  <2>4. worn' < MaxAge => worn < MaxAge /\ worn' = worn + 1
    <3>1. worn \in 0 .. MaxAge /\ MaxAge \in Nat
      BY OCIAssumption DEF OCIType
    <3>2. worn = MaxAge \/ worn \in 0 .. MaxAge - 1
      BY <3>1
    <3> QED BY <2>1, <3>1, <3>2, OlderAge
  <2>5. \A c \in checked : Limit(c) \in Nat /\ Limit(c)' = Limit(c) + 1
    BY <2>1, LimitIs, OCIAssumption DEF Limit, OCIType
  <2>6. worn \in Nat /\ default \in Caches /\ \A c \in Calls : holds[c] \in Caches
    BY OCIAssumption DEF OCIType
  <2>7. worn' < MaxAge => Within(token'[default'], worn')
    BY <2>1, <2>2, <2>4, <2>6 DEF TokenInv
  <2>8. \A c \in checked' :
          /\ at'[c] # "idle"
          /\ at'[c] = "ready" => Within(token'[default'], Limit(c)')
          /\ at'[c] \in {"pull", "pulled"} =>
               Within(token'[holds'[c]], Limit(c)')
    BY <2>1, <2>2, <2>5, <2>6 DEF TokenInv, OCIType
  <2>9. \A c \in Calls : at'[c] = "pulled" => token'[holds'[c]] # Never
    BY <2>1, <2>3, <2>6 DEF TokenInv
  <2> QED BY <2>7, <2>8, <2>9 DEF TokenInv
<1>9. CASE NewProcess
  BY <1>9 DEF NewProcess, TokenInv, Within, OCIType
<1>10. CASE UNCHANGED ociVars
  BY <1>10 DEF ociVars, TokenInv, Limit
<1> QED BY <1>1, <1>2, <1>3, <1>4, <1>5, <1>6, <1>7, <1>8, <1>9, <1>10
        DEF OCINext, ResetStep

(* Every token a call holds was young enough when the call came.           *)
THEOREM TokenInvariant == OCISpec => [](ResetInv /\ TokenInv)
<1> QED BY InitReset, StepReset, StepToken, PTL DEF OCISpec

(* No call uses a token that was MaxAge old when it came, for any number   *)
(* of calls that reset, pull and fetch at the same time.                   *)
THEOREM TokensAreYoung == OCISpec => []TokenAgeBounded
<1>1. ResetInv /\ TokenInv => TokenAgeBounded
  BY OCIAssumption DEF ResetInv, OCIType, TokenInv, Within, Limit,
     TokenAgeBounded
<1> QED BY TokenInvariant, <1>1, PTL

-----------------------------------------------------------------------------
(* Request.                                                                *)

(* What a call does to the token cache.                                    *)
LEMMA StepOCI == [Next]_requestVars => [OCINext]_ociVars
<1> SUFFICES ASSUME [Next]_requestVars PROVE [OCINext]_ociVars
  OBVIOUS
<1>1. ASSUME NEW c \in Calls, NEW r \in Requests, Receive(c, r)
      PROVE  OCINext
  <2>1. NeedsReset(r.input) \in BOOLEAN
    BY DEF NeedsReset, IsOCI
  <2> QED BY <1>1, <2>1 DEF Receive, OCINext
<1>2. ASSUME NEW c \in Calls, Reset(c) \/ Fetch(c) \/ Return(c)
      PROVE  OCINext
  BY <1>2 DEF Reset, Fetch, Return, OCINext
<1>3. ASSUME NEW c \in Calls,
             Prepare(c) \/ Render(c) \/ RenderFails(c) \/ ReadBases(c)
      PROVE  UNCHANGED ociVars
  BY <1>3 DEF Prepare, Render, RenderFails, ReadBases
<1>4. CASE PassTime
  BY <1>4 DEF PassTime, OCINext
<1>5. CASE Restart
  BY <1>5 DEF Restart, OCINext
<1>6. CASE UNCHANGED requestVars
  BY <1>6 DEF requestVars
<1> QED BY <1>1, <1>2, <1>3, <1>4, <1>5, <1>6 DEF Next

(* Whatever requests come, the calls use the token cache as OCITokenCache  *)
(* says, so that what is proved of it holds for them.                      *)
THEOREM RequestsUseTokenCache == Spec => OCISpec
<1>1. Init => OCIInit
  BY DEF Init
<1> QED BY <1>1, StepOCI, PTL DEF Spec, OCISpec

(* DefaultCache is replaced at most once every MaxAge, for any number of   *)
(* calls and any requests.                                                 *)
THEOREM RequestsResetRarely == Spec => OneResetPerAge
<1> QED BY RequestsUseTokenCache, ResetsAreRare, PTL

(* No call with an OCI source uses a token that was MaxAge old when the    *)
(* call came.                                                              *)
THEOREM RequestsUseYoungTokens == Spec => []TokenAgeBounded
<1> QED BY RequestsUseTokenCache, TokensAreYoung, PTL

-----------------------------------------------------------------------------
(* The key is the input, as it is from the moment the key is taken to the  *)
(* end of the call, and a call has run nothing before.                     *)
CallMaps ==
  /\ DOMAIN stage = Calls /\ DOMAIN req = Calls /\ DOMAIN in = Calls
  /\ DOMAIN key = Calls /\ DOMAIN run = Calls

KeyInv ==
  /\ CallMaps
  /\ \A c \in Calls :
       /\ stage[c] \in {"idle", "reset", "render"} => run[c] = Nil
       /\ stage[c] = "render" => key[c] = in[c]
       /\ run[c] # Nil => key[c] = in[c] /\ run[c] = Rendered(in[c])

LEMMA StepKey == KeyInv /\ [Next]_requestVars => KeyInv'
<1> SUFFICES ASSUME KeyInv, [Next]_requestVars PROVE KeyInv'
  OBVIOUS
<1>1. ASSUME NEW c \in Calls, NEW r \in Requests, Receive(c, r)
      PROVE  KeyInv'
  <2>1. /\ stage[c] = "idle" /\ stage'[c] \in {"reset", "failed"}
        /\ UNCHANGED <<key, run>> /\ CallMaps'
        /\ \A d \in Calls : d # c => stage'[d] = stage[d] /\ in'[d] = in[d]
    BY <1>1 DEF Receive, To, KeyInv, CallMaps
  <2> QED BY <2>1 DEF KeyInv
<1>2. ASSUME NEW c \in Calls, Reset(c) \/ Fetch(c) PROVE KeyInv'
  BY <1>2 DEF Reset, Fetch, KeyInv, CallMaps
<1>3. ASSUME NEW c \in Calls, Prepare(c) PROVE KeyInv'
  <2>1. stage[c] = "reset" /\ UNCHANGED <<req, run>>
    BY <1>3 DEF Prepare, To
  <2>2. CASE To(c, "reset", "failed") /\ UNCHANGED <<in, key>>
    BY <2>1, <2>2 DEF To, KeyInv, CallMaps
  <2>3. CASE /\ To(c, "reset", "render")
             /\ \E i : in' = [in EXCEPT ![c] = i]
             /\ key' = [key EXCEPT ![c] = renderKey(in'[c])]
    <3>1. /\ stage' = [stage EXCEPT ![c] = "render"]
          /\ key' = [key EXCEPT ![c] = in'[c]]
      BY <2>3 DEF To, renderKey
    <3> QED BY <2>1, <2>3, <3>1 DEF KeyInv, CallMaps
  <2> QED BY <1>3, <2>2, <2>3 DEF Prepare
<1>4. ASSUME NEW c \in Calls, Render(c) PROVE KeyInv'
  <2>1. /\ stage[c] = "render" /\ stage'[c] = "bases"
        /\ run'[c] = Rendered(in[c]) /\ UNCHANGED <<req, in, key>>
        /\ DOMAIN stage' = Calls /\ DOMAIN run' = Calls
        /\ \A d \in Calls : d # c => stage'[d] = stage[d] /\ run'[d] = run[d]
    BY <1>4 DEF Render, To, KeyInv, CallMaps
  <2> QED BY <2>1 DEF KeyInv, CallMaps
<1>5. ASSUME NEW c \in Calls, RenderFails(c) \/ ReadBases(c)
      PROVE  KeyInv'
  <2>1. /\ UNCHANGED <<req, in, key, run>>
        /\ stage'[c] \in {"done", "failed", "panicked"}
        /\ DOMAIN stage' = Calls
        /\ \A d \in Calls : d # c => stage'[d] = stage[d]
    BY <1>5 DEF RenderFails, ReadBases, To, KeyInv, CallMaps
  <2> QED BY <2>1 DEF KeyInv, CallMaps
<1>6. ASSUME NEW c \in Calls, Return(c) PROVE KeyInv'
  <2>1. /\ run'[c] = Nil
        /\ stage'[c] = "idle"
        /\ CallMaps'
        /\ \A d \in Calls : d # c => /\ stage'[d] = stage[d] /\ in'[d] = in[d]
                                     /\ key'[d] = key[d] /\ run'[d] = run[d]
    BY <1>6 DEF Return, To, KeyInv, CallMaps
  <2> QED BY <2>1 DEF KeyInv
<1>7. CASE PassTime
  BY <1>7 DEF PassTime, KeyInv, CallMaps
<1>8. CASE Restart
  BY <1>8 DEF Restart, KeyInv, CallMaps
<1>9. CASE UNCHANGED requestVars
  BY <1>9 DEF requestVars, KeyInv, CallMaps
<1> QED BY <1>1, <1>2, <1>3, <1>4, <1>5, <1>6, <1>7, <1>8, <1>9 DEF Next

(* Two renders of the same key are given the same, whatever the requests   *)
(* hold: no parameter, option or argument reaches the program that is not  *)
(* part of the key.                                                        *)
THEOREM KeyIsEnough == Spec => []KeyDeterminesRender
<1>1. Init => KeyInv
  BY DEF Init, KeyInv, CallMaps
<1>2. KeyInv => KeyDeterminesRender
  BY DEF KeyInv, KeyDeterminesRender
<1> QED BY <1>1, <1>2, StepKey, PTL DEF Spec

-----------------------------------------------------------------------------
(* An input that RunFunction lets through to the program.                  *)
Prepared(i, r) ==
  /\ r \in Requests /\ Reads(r)
  /\ i.source # "" /\ i.target \in Targets
  /\ \A p \in SystemParams :
       p \in DOMAIN i.params /\ i.params[p] = SystemValues(r.state)[p]
  /\ i.target = "PatchResources" =>
       \A n \in DOMAIN i.resources : i.resources[n].base # Nil

(* The defaults, the credentials and the validation keep the fields of the *)
(* input, and its source and bases.                                        *)
LEMMA DefaultedKeeps ==
  ASSUME NEW i, DOMAIN i = InputFields, NEW s
  PROVE  /\ DOMAIN Defaulted(i, s) = InputFields
         /\ Defaulted(i, s).source = i.source
         /\ Defaulted(i, s).resources = i.resources
<1> DEFINE j == [i EXCEPT !.target = IF @ = "" THEN "Default" ELSE @,
                          !.dependencies = BaseDependencies \o @]
<1>1. /\ DOMAIN j = InputFields
      /\ j.source = i.source /\ j.resources = i.resources
  BY DEF InputFields
<1>2. Defaulted(i, s) = WithCredentials(j, s)
  BY DEF Defaulted
<1> HIDE DEF j
<1>3. /\ DOMAIN WithCredentials(j, s) = InputFields
      /\ WithCredentials(j, s).source = j.source
      /\ WithCredentials(j, s).resources = j.resources
  BY <1>1 DEF WithCredentials, InputFields
<1> QED BY <1>1, <1>2, <1>3

LEMMA ValidatedKeeps ==
  ASSUME NEW i, DOMAIN i = InputFields
  PROVE  /\ DOMAIN Validated(i) = InputFields
         /\ Validated(i).target \in Targets
         /\ Validated(i).target = "PatchResources" => i.target = "PatchResources"
         /\ Validated(i).source = i.source
         /\ Validated(i).resources = i.resources
  BY DEF Validated, InputFields, Targets

LEMMA WithParamsKeeps ==
  ASSUME NEW i, DOMAIN i = InputFields, NEW s, DOMAIN s = SystemParams
  PROVE  LET j == WithParams(i, s) IN
         /\ j.source = i.source /\ j.target = i.target
         /\ j.resources = i.resources
         /\ \A p \in SystemParams :
              p \in DOMAIN j.params /\ j.params[p] = SystemValues(s)[p]
<1>1. DOMAIN SystemValues(s) = SystemParams
  BY DEF SystemValues, SystemParams
<1>2. WithParams(i, s) =
        [i EXCEPT !.params = Onto(SystemValues(s), i.params)]
  BY DEF WithParams
<1>3. \A p \in SystemParams :
        /\ p \in DOMAIN Onto(SystemValues(s), i.params)
        /\ Onto(SystemValues(s), i.params)[p] = SystemValues(s)[p]
  BY <1>1 DEF Onto
<1>4. WithParams(i, s).params = Onto(SystemValues(s), i.params)
  BY <1>2 DEF InputFields
<1>5. /\ WithParams(i, s).source = i.source
      /\ WithParams(i, s).target = i.target
      /\ WithParams(i, s).resources = i.resources
  BY <1>2 DEF InputFields
<1> QED BY <1>3, <1>4, <1>5

LEMMA PreparedInput ==
  ASSUME NEW r \in Requests, Reads(r), NEW i, DOMAIN i = InputFields,
         ~Invalid(Defaulted(i, r.secret))
  PROVE  LET j == WithParams(Validated(Defaulted(i, r.secret)), r.state)
         IN  Prepared(j, r) /\ j.source = i.source
<1> DEFINE d == Defaulted(i, r.secret)
           v == Validated(d)
           j == WithParams(v, r.state)
<1>1. /\ DOMAIN d = InputFields
      /\ d.source = i.source /\ d.resources = i.resources
  BY DefaultedKeeps
<1>2. ~Invalid(d)
  OBVIOUS
<1> HIDE DEF d
<1>3. /\ DOMAIN v = InputFields
      /\ v.source = d.source /\ v.resources = d.resources
      /\ v.target \in Targets
      /\ v.target = "PatchResources" => d.target = "PatchResources"
  BY <1>1, ValidatedKeeps
<1> HIDE DEF v
<1>4. DOMAIN r.state = SystemParams
  BY RequestsAssumption
<1>5. /\ j.source = v.source /\ j.target = v.target
      /\ j.resources = v.resources
      /\ \A p \in SystemParams :
           p \in DOMAIN j.params /\ j.params[p] = SystemValues(r.state)[p]
  BY <1>3, <1>4, WithParamsKeeps
<1> HIDE DEF j
<1>6. j.source = i.source /\ j.resources = d.resources
  BY <1>1, <1>3, <1>5
<1>7. Prepared(j, r)
  BY <1>2, <1>3, <1>5, <1>6 DEF Prepared, Invalid
<1> QED BY <1>6, <1>7 DEF j, v, d

-----------------------------------------------------------------------------
(* What a call has been given is an input that was prepared from its own   *)
(* request.                                                                *)
InputInv ==
  /\ KeyInv
  /\ OCIType
  /\ \A c \in Calls :
       /\ stage[c] \in Stages
       /\ stage[c] = "reset" => req[c] \in Requests /\ DOMAIN in[c] = InputFields
       /\ stage[c] \in {"render", "bases", "done", "panicked"} \/ run[c] # Nil
            => Prepared(in[c], req[c])
       /\ stage[c] = "panicked" =>
            \E n \in DOMAIN in[c].resources : in[c].resources[n].base = Nil
       /\ stage[c] \in {"reset", "render"} /\ IsOCI(in[c].source)
            => c \in checked

LEMMA StepInput == InputInv /\ [Next]_requestVars => InputInv'
<1> SUFFICES ASSUME InputInv, [Next]_requestVars PROVE InputInv'
  OBVIOUS
<1>0. KeyInv' /\ OCIType'
  BY StepKey, StepOCI, StepType DEF InputInv
<1>11. DOMAIN stage = Calls /\ DOMAIN req = Calls /\ DOMAIN in = Calls
      /\ DOMAIN run = Calls
  BY DEF InputInv, KeyInv, CallMaps
<1> USE <1>0, <1>11
<1>1. ASSUME NEW c \in Calls, NEW r \in Requests, Receive(c, r)
      PROVE  InputInv'
  <2>1. /\ stage[c] = "idle"
        /\ req' = [req EXCEPT ![c] = r]
        /\ UNCHANGED run
    BY <1>1 DEF Receive, To
  <2>2. run[c] = Nil
    BY <2>1 DEF InputInv, KeyInv
  <2>3. CASE r.input # Unreadable
    <3>1. /\ stage' = [stage EXCEPT ![c] = "reset"]
          /\ in' = [in EXCEPT ![c] = WithSource(r.input)]
          /\ checked \subseteq checked'
          /\ IsOCI(WithSource(r.input).source) => c \in checked'
      BY <1>1, <2>3 DEF Receive, To, Enter, NeedsReset
    <3>2. DOMAIN WithSource(r.input) = InputFields
      BY <2>3, RequestsAssumption DEF WithSource
    <3> QED BY <2>1, <2>2, <3>1, <3>2 DEF InputInv, Stages
  <2>4. CASE r.input = Unreadable
    <3>1. /\ stage' = [stage EXCEPT ![c] = "failed"]
          /\ UNCHANGED in /\ checked' = checked
      BY <1>1, <2>4 DEF Receive, To, Enter
    <3> QED BY <2>1, <2>2, <3>1 DEF InputInv, Stages
  <2> QED BY <2>3, <2>4
<1>2. ASSUME NEW c \in Calls, Reset(c) \/ Fetch(c) PROVE InputInv'
  <2>1. UNCHANGED <<stage, req, in, run, checked>>
    BY <1>2 DEF Reset, ResetStep, Lock, Keep, Replace, Stamp, Fetch, Pull,
                UseToken
  <2> QED BY <2>1 DEF InputInv
<1>3. ASSUME NEW c \in Calls, Prepare(c) PROVE InputInv'
  <2>1. stage[c] = "reset" /\ UNCHANGED <<req, run, checked>>
    BY <1>3 DEF Prepare, To, ociVars
  <2>2. run[c] = Nil
    BY <2>1 DEF InputInv, KeyInv
  <2>3. CASE To(c, "reset", "failed") /\ UNCHANGED <<in, key>>
    BY <2>1, <2>2, <2>3 DEF To, InputInv, Stages
  <2>4. CASE /\ To(c, "reset", "render")
             /\ ~Invalid(Defaulted(in[c], req[c].secret)) /\ Reads(req[c])
             /\ in' = [in EXCEPT ![c] =
                  WithParams(Validated(Defaulted(in[c], req[c].secret)),
                             req[c].state)]
    <3>1. req[c] \in Requests /\ DOMAIN in[c] = InputFields
          /\ (IsOCI(in[c].source) => c \in checked)
      BY <2>1 DEF InputInv
    <3>2. Prepared(in'[c], req[c]) /\ in'[c].source = in[c].source
      BY <2>4, <3>1, PreparedInput
    <3>3. stage' = [stage EXCEPT ![c] = "render"]
      BY <2>4 DEF To
    <3> QED BY <2>1, <2>2, <2>4, <3>1, <3>2, <3>3 DEF InputInv, Stages, IsOCI
  <2> QED BY <1>3, <2>3, <2>4 DEF Prepare
<1>4. ASSUME NEW c \in Calls, Render(c) PROVE InputInv'
  <2>1. /\ stage[c] = "render" /\ stage' = [stage EXCEPT ![c] = "bases"]
        /\ UNCHANGED <<req, in, checked>>
        /\ \A d \in Calls : d # c => run'[d] = run[d]
    BY <1>4 DEF Render, To, ociVars
  <2> QED BY <2>1 DEF InputInv, Stages
<1>5. ASSUME NEW c \in Calls, RenderFails(c) PROVE InputInv'
  <2>1. /\ stage[c] = "render" /\ stage' = [stage EXCEPT ![c] = "failed"]
        /\ UNCHANGED <<req, in, run, checked>>
    BY <1>5 DEF RenderFails, To, ociVars
  <2> QED BY <2>1 DEF InputInv, Stages
<1>6. ASSUME NEW c \in Calls, ReadBases(c) PROVE InputInv'
  <2>1. /\ stage[c] = "bases" /\ UNCHANGED <<req, in, run, checked>>
        /\ \E s \in {"done", "failed", "panicked"} :
             stage' = [stage EXCEPT ![c] = s]
        /\ stage'[c] = "panicked" =>
             \E n \in DOMAIN in[c].resources : in[c].resources[n].base = Nil
    BY <1>6 DEF ReadBases, To, ociVars
  <2> QED BY <2>1 DEF InputInv, Stages
<1>7. ASSUME NEW c \in Calls, Return(c) PROVE InputInv'
  <2>1. /\ stage' = [stage EXCEPT ![c] = "idle"]
        /\ run'[c] = Nil
        /\ checked' = checked \ {c}
        /\ \A d \in Calls : d # c => /\ req'[d] = req[d] /\ in'[d] = in[d]
                                     /\ run'[d] = run[d]
    BY <1>7 DEF Return, To, Quit
  <2> QED BY <2>1 DEF InputInv, Stages
<1>8. CASE PassTime
  <2>1. UNCHANGED <<stage, req, in, run, checked>>
    BY <1>8 DEF PassTime, Tick
  <2> QED BY <2>1 DEF InputInv
<1>9. CASE Restart
  BY <1>9 DEF Restart, InputInv, Stages
<1>10. CASE UNCHANGED requestVars
  <2>1. UNCHANGED <<stage, req, in, run, checked>>
    BY <1>10 DEF requestVars, ociVars
  <2> QED BY <2>1 DEF InputInv
<1> QED BY <1>1, <1>2, <1>3, <1>4, <1>5, <1>6, <1>7, <1>8, <1>9, <1>10
        DEF Next

(* Between the stages of a call its input stays what its request makes it, *)
(* and its key names everything it renders.                                *)
THEOREM InputInvariant == Spec => []InputInv
<1>1. Init => InputInv
  BY InitReset DEF Init, ResetInv, InputInv, KeyInv, CallMaps, Stages
<1> QED BY <1>1, StepInput, PTL DEF Spec

(* Every program that is run has a source and a target that exist, no call *)
(* panics over a base that PatchResources checked, and every OCI source    *)
(* went through the reset.                                                 *)
THEOREM RequestsAreValid == Spec => []TypeOK
<1>1. InputInv => TypeOK
  BY DEF InputInv, Prepared, OCIType, TypeOK
<1> QED BY <1>1, InputInvariant, PTL

(* The program sees the state of its own request under the seven names of  *)
(* the function, whatever parameters the input brings.                     *)
THEOREM ParamsAreOwn == Spec => []ParamsAreCurrent
<1>1. InputInv => ParamsAreCurrent
  <2> SUFFICES ASSUME InputInv, NEW c \in Calls, run[c] # Nil
               PROVE  /\ run[c].params["dxr"].kind = req[c].state["oxr"].kind
                      /\ run[c].params["dxr"].body = req[c].state["dxr"].body
                      /\ \A p \in SystemParams \ {"dxr"} :
                           run[c].params[p] = req[c].state[p]
    BY DEF ParamsAreCurrent
  <2> DEFINE s == req[c].state
  <2>1. run[c].params = in[c].params
    <3>1. /\ InlineRun(in[c]).params = in[c].params
          /\ PipelineRun(in[c]).params = in[c].params
      BY DEF InlineRun, PipelineRun
    <3>2. run[c] \in {InlineRun(in[c]), PipelineRun(in[c])}
      BY DEF InputInv, KeyInv, Rendered
    <3> QED BY <3>1, <3>2
  <2>2. /\ req[c] \in Requests /\ Reads(req[c])
        /\ \A p \in SystemParams : in[c].params[p] = SystemValues(s)[p]
    BY DEF InputInv, Prepared
  <2>3. DOMAIN s = SystemParams /\ {"kind", "body"} \subseteq DOMAIN s["dxr"]
    BY <2>2, RequestsAssumption DEF Reads, SystemParams
  <2> HIDE DEF s
  <2>4. SystemValues(s) =
          [s EXCEPT !["dxr"] = [s["dxr"] EXCEPT !.kind = s["oxr"].kind]]
    BY DEF SystemValues
  <2>5. /\ SystemValues(s)["dxr"] = [s["dxr"] EXCEPT !.kind = s["oxr"].kind]
        /\ \A p \in SystemParams \ {"dxr"} : SystemValues(s)[p] = s[p]
    BY <2>3, <2>4 DEF SystemParams
  <2>6. SystemValues(s)["dxr"].kind = s["oxr"].kind
        /\ SystemValues(s)["dxr"].body = s["dxr"].body
    BY <2>3, <2>5
  <2>7. "dxr" \in SystemParams
    BY DEF SystemParams
  <2> QED BY <2>1, <2>2, <2>5, <2>6, <2>7 DEF s
<1> QED BY <1>1, InputInvariant, PTL
=============================================================================
