------------------------- MODULE ExecutionLifecycle -------------------------
(***************************************************************************)
(* What the execution core promises for one execution, without files,      *)
(* processes or crashes: it is accepted, started, and settled exactly once, *)
(* with one outcome that never changes; only a started execution is        *)
(* settled with a result.                                                  *)
(***************************************************************************)
CONSTANTS Exec, Outcomes, NoOutcome

VARIABLES phase, outcome

lifecycleVars == <<phase, outcome>>

Phases == {"unknown", "queued", "started", "reported", "quarantined"}

LifecycleInit ==
  /\ phase = [e \in Exec |-> "unknown"]
  /\ outcome = [e \in Exec |-> NoOutcome]

Accept(e) ==
  /\ phase[e] = "unknown"
  /\ phase' = [phase EXCEPT ![e] = "queued"]
  /\ UNCHANGED outcome

Start(e) ==
  /\ phase[e] = "queued"
  /\ phase' = [phase EXCEPT ![e] = "started"]
  /\ UNCHANGED outcome

Report(e) ==
  /\ phase[e] = "started"
  /\ \E o \in Outcomes : outcome' = [outcome EXCEPT ![e] = o]
  /\ phase' = [phase EXCEPT ![e] = "reported"]

Quarantined(e) ==
  /\ phase[e] \in {"queued", "started"}
  /\ phase' = [phase EXCEPT ![e] = "quarantined"]
  /\ UNCHANGED outcome

LifecycleNext ==
  \E e \in Exec : Accept(e) \/ Start(e) \/ Report(e) \/ Quarantined(e)

LifecycleSpec == LifecycleInit /\ [][LifecycleNext]_lifecycleVars
=============================================================================
