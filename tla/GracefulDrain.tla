--------------------------- MODULE GracefulDrain ---------------------------
(***************************************************************************)
(* What the memory recycler promises to its callers, without its locks,    *)
(* counters and goroutines.  Calls knock at a gate and are let in; once    *)
(* draining starts nobody new may knock; once the gate is shut nobody      *)
(* enters; the process stops cleanly only when nobody is inside, and it    *)
(* does stop, if need be by force.                                         *)
(***************************************************************************)
CONSTANT Calls

VARIABLES phase,     \* "open", "draining", "shut", then "clean" or "forced"
          waiting,   \* calls that have been let through the door check
          inside     \* calls at work

vars == <<phase, waiting, inside>>

Phases == {"open", "draining", "shut", "clean", "forced"}

Alive == phase \in {"open", "draining", "shut"}

TypeOK ==
  /\ phase \in Phases
  /\ waiting \in SUBSET Calls
  /\ inside \in SUBSET Calls

Init ==
  /\ phase = "open"
  /\ waiting = {}
  /\ inside = {}

Knock(c) ==
  /\ phase = "open"
  /\ c \notin waiting \cup inside
  /\ waiting' = waiting \cup {c}
  /\ UNCHANGED <<phase, inside>>

\* A call that knocked in time may still enter while the process drains.
Enter(c) ==
  /\ phase \in {"open", "draining"}
  /\ c \in waiting
  /\ waiting' = waiting \ {c}
  /\ inside' = inside \cup {c}
  /\ UNCHANGED phase

Leave(c) ==
  /\ Alive
  /\ c \in inside
  /\ inside' = inside \ {c}
  /\ UNCHANGED <<phase, waiting>>

StartDrain ==
  /\ phase = "open"
  /\ phase' = "draining"
  /\ UNCHANGED <<waiting, inside>>

Shut ==
  /\ phase = "draining"
  /\ phase' = "shut"
  /\ UNCHANGED <<waiting, inside>>

StopClean ==
  /\ phase = "shut"
  /\ inside = {}
  /\ phase' = "clean"
  /\ UNCHANGED <<waiting, inside>>

StopForced ==
  /\ phase \in {"draining", "shut"}
  /\ phase' = "forced"
  /\ UNCHANGED <<waiting, inside>>

Next ==
  \/ \E c \in Calls : Knock(c) \/ Enter(c) \/ Leave(c)
  \/ StartDrain
  \/ Shut
  \/ StopClean
  \/ StopForced

Safety == Init /\ [][Next]_vars
Spec == Safety /\ WF_vars(StopClean \/ StopForced)
============================================================================
