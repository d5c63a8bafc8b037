----------------------------- MODULE DeployProofs -----------------------------
(***************************************************************************)
(* Theorems about the upgrades and about their composition with the        *)
(* service command, for every set of works, every package, every           *)
(* installation, every set of service definitions and every bound.         *)
(* First Upgrade by itself: the verdict is true, one upgrader runs, a      *)
(* success or a failure leaves a whole installation.  Then Deploy: an      *)
(* uninstall that reported success has left no daemon, and the service     *)
(* leaves the upgrades what they are, so that the theorems of the first    *)
(* part hold in Deploy too.                                                *)
(***************************************************************************)
EXTENDS Deploy, TLAPS

USE UpgradeAssumption

\* What the types need of the control state: a running agentd has a version, an
\* upgrader has a work and the version it started from, and the binary it is at
\* is one of the package's (or, on the way back, one it has replaced).
ProcOK ==
  \A i \in Slot :
    /\ up[i].pc # "none" => up[i].work \in Work /\ up[i].from \in Versions
    /\ up[i].pc \in {"copy", "copying", "swap"} => up[i].k \in 1..Staged(up[i].work)
    /\ up[i].pc = "undo" => up[i].k \in Nat \ {0} /\ up[i].m <= NBins

AgentdOK ==
  /\ pc # "down" => ver \in Versions
  /\ pc = "report" => /\ say.work \in Work
                      /\ say.local \in {"running", "succeeded", "failed", "rolled_back"}
  /\ pc \in {"ack", "tell"} => say.work \in Work

TypeInv == TypeOK /\ ProcOK /\ AgentdOK

\* The types, one part for each group of variables.
Verdicts == {"none", "open", "running", "succeeded", "failed", "withdrawn"}
Statuses == {"running", "succeeded", "failed", "rolled_back"}
GatewayType == verdict \in [Work -> Verdicts] /\ seq \in Nat
ViewType == wexe \in [Work -> Executions] /\ wseq \in Nat
RecordType == rec \in [work : Work \cup {NoWork}, status : Statuses]
BeatType == beat \in BOOLEAN
MachineType == rtv \in Versions /\ bins \in [Bin -> Content] /\ baks \in [Bin -> [Versions -> Content]]
AgentdType ==
  /\ pc \in {"down", "idle", "dispatch", "ack", "tell", "report", "store"}
  /\ ver \in Versions \cup {0} /\ exe \in [Work -> Executions] /\ aseq \in Nat
  /\ todo \subseteq Work /\ say \in [work : Work \cup {NoWork}, local : Executions]
  /\ dirty \in BOOLEAN
  /\ AgentdOK
UpgraderType == up \in [Slot -> Process] /\ launches \in 0..MaxLaunches /\ ProcOK
BoundsType ==
  /\ crashes \in 0..MaxCrashes /\ deaths \in 0..MaxDeaths
  /\ lost \in 0..MaxLost /\ faults \in 0..MaxFaults
WipedType == forgot \subseteq Work /\ wipes \in 0..MaxWipes

(***************************************************************************)
(* The constants and the values the actions write.                         *)
(***************************************************************************)

LEMMA VersionFacts ==
  /\ Versions \subseteq Nat
  /\ Bin \subseteq Nat /\ 1 \in Bin
  /\ \A b \in Bin : Installed[b] \in Versions
  /\ \A w \in Work : PkgVersion[w] \in Versions
  /\ \A w \in Work : Staged(w) \in Bin
  /\ Versions \subseteq Content /\ 0 \in Content /\ Torn \in Content
BY DEF Versions, Bin, Content, Staged

LEMMA NoProcessType == NoProcess \in Process /\ NoProcess.pc = "none" /\ NoProcess.work = NoWork
BY DEF NoProcess, Process, Content

LEMMA TypeParts ==
  TypeInv <=> /\ GatewayType /\ ViewType /\ RecordType /\ BeatType /\ MachineType
              /\ AgentdType /\ UpgraderType /\ BoundsType /\ WipedType
BY DEF TypeInv, TypeOK, Verdicts, Statuses, GatewayType, ViewType, RecordType, BeatType,
   MachineType, AgentdType, UpgraderType, BoundsType, WipedType

LEMMA TypePartsNext ==
  TypeInv' <=> /\ GatewayType' /\ ViewType' /\ RecordType' /\ BeatType' /\ MachineType'
               /\ AgentdType' /\ UpgraderType' /\ BoundsType' /\ WipedType'
BY DEF TypeInv, TypeOK, Verdicts, Statuses, GatewayType, ViewType, RecordType, BeatType,
   MachineType, AgentdType, UpgraderType, BoundsType, WipedType

\* A step keeps the types of what it leaves alone.
LEMMA UnchangedTypes ==
  /\ GatewayType /\ UNCHANGED gateway => GatewayType'
  /\ ViewType /\ UNCHANGED view => ViewType'
  /\ RecordType /\ UNCHANGED rec => RecordType'
  /\ BeatType /\ UNCHANGED beat => BeatType'
  /\ MachineType /\ UNCHANGED machine => MachineType'
  /\ AgentdType /\ UNCHANGED agentd => AgentdType'
  /\ UpgraderType /\ UNCHANGED <<up, launches>> => UpgraderType'
  /\ BoundsType /\ UNCHANGED bounds => BoundsType'
  /\ WipedType /\ UNCHANGED wiped => WipedType'
<1>1. GatewayType /\ UNCHANGED gateway => GatewayType'
  BY DEF GatewayType, gateway
<1>2. ViewType /\ UNCHANGED view => ViewType'
  BY DEF ViewType, view
<1>3. RecordType /\ UNCHANGED rec => RecordType'
  BY DEF RecordType
<1>4. BeatType /\ UNCHANGED beat => BeatType'
  BY DEF BeatType
<1>5. MachineType /\ UNCHANGED machine => MachineType'
  BY DEF MachineType, machine
<1>6. AgentdType /\ UNCHANGED agentd => AgentdType'
  BY DEF AgentdType, AgentdOK, agentd
<1>7. UpgraderType /\ UNCHANGED <<up, launches>> => UpgraderType'
  BY DEF UpgraderType, ProcOK
<1>8. BoundsType /\ UNCHANGED bounds => BoundsType'
  BY DEF BoundsType, bounds
<1>9. WipedType /\ UNCHANGED wiped => WipedType'
  BY DEF WipedType, wiped
<1> QED
  BY <1>1, <1>2, <1>3, <1>4, <1>5, <1>6, <1>7, <1>8, <1>9

\* The gateway takes any status that is one of its verdicts.
LEMMA GatewayTakesType ==
  ASSUME GatewayType, NEW w, NEW status \in Verdicts, GatewayTakes(w, status) PROVE GatewayType'
BY DEF GatewayType, GatewayTakes, Outstanding, gateway, Terminal

LEMMA ReportLostType ==
  ASSUME GatewayType, BoundsType, NEW w, NEW status \in Verdicts,
         ReportLost(w, status), UNCHANGED <<crashes, deaths, faults>>
  PROVE  GatewayType' /\ BoundsType'
<1>1. BoundsType'
  BY DEF ReportLost, BoundsType
<1>2. GatewayType'
  BY GatewayTakesType, UnchangedTypes DEF ReportLost
<1> QED
  BY <1>1, <1>2

\* A failed command is counted.
LEMMA FaultType ==
  ASSUME BoundsType, Fault \/ UNCHANGED faults, UNCHANGED <<crashes, deaths, lost>> PROVE BoundsType'
BY DEF BoundsType, Fault

\* agentd that is gone has an empty memory.
LEMMA AgentdGoneType ==
  ASSUME AgentdType, WipedType, AgentdGone PROVE AgentdType' /\ WipedType'
<1>1. AgentdType'
  <2>1. exe' \in [Work -> Executions] /\ say' \in [work : Work \cup {NoWork}, local : Executions]
    BY DEF AgentdGone, NoSay, Executions
  <2> QED
    BY <2>1 DEF AgentdType, AgentdOK, AgentdGone
<1>2. WipedType'
  BY DEF WipedType, AgentdGone, Unstored
<1> QED
  BY <1>1, <1>2

\* upgrade.json always holds a record of an upgrader.
LEMMA StoreRecordType ==
  ASSUME UpgraderType, RecordType, NEW i \in Slot, NEW status \in Statuses, StoreRecord(i, status)
  PROVE  RecordType' /\ (Fault \/ UNCHANGED faults)
<1>1. up[i].work \in Work \cup {NoWork}
  BY DEF UpgraderType, Process
<1> QED
  BY <1>1 DEF RecordType, StoreRecord

LEMMA InitType == Init => TypeInv
<1> SUFFICES ASSUME Init PROVE TypeInv
  OBVIOUS
<1>1. TypeOK
  <2>1. /\ verdict \in [Work -> {"none", "open", "running", "succeeded", "failed", "withdrawn"}]
        /\ wexe \in [Work -> Executions] /\ exe \in [Work -> Executions]
        /\ rec \in [work : Work \cup {NoWork}, status : {"running", "succeeded", "failed", "rolled_back"}]
        /\ say \in [work : Work \cup {NoWork}, local : Executions]
    BY DEF Init, Executions, NoSay
  <2>2. bins \in [Bin -> Content] /\ baks \in [Bin -> [Versions -> Content]]
    BY VersionFacts DEF Init, Bin
  <2>3. rtv \in Versions /\ ver \in Versions \cup {0}
    BY VersionFacts DEF Init
  <2>4. up \in [Slot -> Process]
    BY NoProcessType DEF Init
  <2>5. beat \in BOOLEAN /\ dirty \in BOOLEAN /\ todo \subseteq Work /\ forgot \subseteq Work
    BY DEF Init
  <2>6. /\ seq \in Nat /\ wseq \in Nat /\ aseq \in Nat
        /\ launches \in 0..MaxLaunches /\ crashes \in 0..MaxCrashes /\ deaths \in 0..MaxDeaths
        /\ lost \in 0..MaxLost /\ faults \in 0..MaxFaults /\ wipes \in 0..MaxWipes
    BY DEF Init
  <2>7. pc \in {"down", "idle", "dispatch", "ack", "tell", "report", "store"}
    BY DEF Init
  <2> QED
    BY <2>1, <2>2, <2>3, <2>4, <2>5, <2>6, <2>7 DEF TypeOK
<1>2. ProcOK
  BY NoProcessType DEF Init, ProcOK
<1>3. AgentdOK
  BY VersionFacts DEF Init, AgentdOK
<1> QED
  BY <1>1, <1>2, <1>3 DEF TypeInv

(***************************************************************************)
(* What a step of an upgrader does to the process itself.                  *)
(***************************************************************************)

\* Process i goes on as process q: the same work, past its start, and at a
\* binary of its package.
GoesOn(i, q) ==
  /\ q \in Process
  /\ q.work = up[i].work /\ q.from = up[i].from
  /\ q.pc \notin {"none", "start"}
  /\ q.pc \in {"copy", "copying", "swap"} => q.k \in 1..Staged(q.work)
  /\ q.pc = "undo" => q.k \in Nat \ {0} /\ q.m <= NBins

LEMMA GoesOnType ==
  ASSUME UpgraderType, NEW i \in Slot, NEW q, Live(i), GoesOn(i, q),
         up' = [up EXCEPT ![i] = q], UNCHANGED launches
  PROVE  UpgraderType'
<1>1. up' \in [Slot -> Process]
  BY DEF UpgraderType, GoesOn
<1>2. ProcOK'
  <2> SUFFICES ASSUME NEW j \in Slot
               PROVE  /\ up'[j].pc # "none" => up'[j].work \in Work /\ up'[j].from \in Versions
                      /\ up'[j].pc \in {"copy", "copying", "swap"} => up'[j].k \in 1..Staged(up'[j].work)
                      /\ up'[j].pc = "undo" => up'[j].k \in Nat \ {0} /\ up'[j].m <= NBins
    BY DEF ProcOK, Staged
  <2>1. CASE j = i
    <3>1. up'[j] = q
      BY <2>1 DEF UpgraderType
    <3>2. up[i].work \in Work /\ up[i].from \in Versions
      BY DEF UpgraderType, ProcOK, Live
    <3> QED
      BY <3>1, <3>2 DEF GoesOn
  <2>2. CASE j # i
    <3>1. up'[j] = up[j]
      BY <2>2 DEF UpgraderType
    <3> QED
      BY <3>1 DEF UpgraderType, ProcOK
  <2> QED
    BY <2>1, <2>2
<1> QED
  BY <1>1, <1>2 DEF UpgraderType

ProcessPCs == {"none", "start", "fetch", "verify_digest", "stage", "verify_artifact",
               "copy", "copying", "swap", "restart", "wait_ready", "undo", "again",
               "finish", "gone"}

LEMMA ProcessFields ==
  ASSUME UpgraderType, NEW i \in Slot, Live(i)
  PROVE  /\ up[i] \in Process
         /\ up[i].pc \in ProcessPCs
         /\ up[i].work \in Work /\ up[i].from \in Versions
         /\ up[i].k \in Nat /\ up[i].m \in Nat
         /\ up[i].status \in Statuses
         /\ Staged(up[i].work) \in Bin
         /\ up[i].before \in [Bin -> Content]
         /\ up[i].pc \in {"copy", "copying", "swap"} => up[i].k \in 1..Staged(up[i].work)
         /\ up[i].pc = "undo" => up[i].k \in Nat \ {0} /\ up[i].m <= NBins
<1>1. up[i].work \in Work /\ up[i].from \in Versions
  BY DEF UpgraderType, ProcOK, Live
<1> QED
  BY <1>1, VersionFacts DEF UpgraderType, ProcOK, Process, ProcessPCs, Statuses

\* Moving on without touching a binary.
Moved(i, p) == [up[i] EXCEPT !.pc = p]
Ended(i, p, status) == [up[i] EXCEPT !.pc = p, !.status = status]
Undone(i, m, why) == [up[i] EXCEPT !.pc = "undo", !.k = 1, !.m = m, !.why = why]

LEMMA MovedGoesOn ==
  ASSUME UpgraderType, NEW i \in Slot, Live(i),
         NEW p \in ProcessPCs \ {"none", "start", "copy", "copying", "swap", "undo"}
  PROVE  /\ GoesOn(i, Moved(i, p))
         /\ Moved(i, p).pc = p /\ Moved(i, p).status = up[i].status
         /\ Goes(i, p) => up' = [up EXCEPT ![i] = Moved(i, p)]
<1>1. up[i] \in Process /\ up[i].pc \in ProcessPCs
  BY ProcessFields
<1>2. Moved(i, p) \in Process /\ Moved(i, p).pc = p
  BY <1>1 DEF Moved, Process, ProcessPCs
<1>3. /\ Moved(i, p).work = up[i].work /\ Moved(i, p).from = up[i].from
      /\ Moved(i, p).status = up[i].status
  BY <1>1 DEF Moved, Process
<1>4. Goes(i, p) => up' = [up EXCEPT ![i] = Moved(i, p)]
  BY DEF Goes, Moved
<1> QED
  BY <1>2, <1>3, <1>4 DEF GoesOn

LEMMA EndedGoesOn ==
  ASSUME UpgraderType, NEW i \in Slot, Live(i), NEW status \in Statuses,
         NEW p \in {"finish", "again"}
  PROVE  /\ GoesOn(i, Ended(i, p, status))
         /\ Ended(i, p, status).pc = p /\ Ended(i, p, status).status = status
         /\ Ends(i, p, status) => up' = [up EXCEPT ![i] = Ended(i, p, status)]
BY ProcessFields DEF GoesOn, Ended, Ends, Process, Statuses, UpgraderType

LEMMA UndoneGoesOn ==
  ASSUME UpgraderType, NEW i \in Slot, Live(i), NEW m \in 0..NBins,
         NEW why \in {"install", "restart"}
  PROVE  /\ GoesOn(i, Undone(i, m, why))
         /\ Undone(i, m, why).pc = "undo" /\ Undone(i, m, why).status = up[i].status
         /\ RollsBack(i, m, why) => up' = [up EXCEPT ![i] = Undone(i, m, why)]
<1> DEFINE q == Undone(i, m, why)
<1>1. up[i] \in Process /\ m \in Nat /\ 1 \in Nat
  BY ProcessFields
<1>2. q \in Process /\ q.pc = "undo" /\ q.k = 1 /\ q.m = m
  BY <1>1 DEF Undone, Process
<1>3. q.work = up[i].work /\ q.from = up[i].from /\ q.status = up[i].status
  BY <1>1 DEF Undone, Process
<1>4. RollsBack(i, m, why) => up' = [up EXCEPT ![i] = q]
  BY DEF RollsBack, Undone
<1> HIDE DEF q
<1>5. GoesOn(i, q)
  BY <1>2, <1>3 DEF GoesOn
<1> QED
  BY <1>2, <1>3, <1>4, <1>5 DEF q

\* What a step of upgrader i, or its death, may do to everything else: store a
\* record of its own, beat, and take agentd down.
RecordEffect(i, q) ==
  \/ rec' = rec
  \/ rec' = [work |-> up[i].work, status |-> "running"] /\ up[i].pc # "finish"
  \/ /\ up[i].pc = "finish" /\ q.pc = "gone"
     /\ rec' = [work |-> up[i].work, status |-> up[i].status]

StatusEffect(i, q) ==
  /\ q.status = up[i].status \/ q.pc = "finish" \/ (q.pc = "again" /\ q.status # "succeeded")
  /\ up[i].pc = "finish" => q.status = up[i].status /\ q.pc = "gone"

UpgraderEffect(i, q) ==
  /\ Live(i) /\ GoesOn(i, q) /\ up' = [up EXCEPT ![i] = q] /\ UNCHANGED launches
  /\ StatusEffect(i, q) /\ RecordEffect(i, q)
  /\ beat' = TRUE \/ (UNCHANGED beat /\ (up[i].pc = "start" => q.pc = "gone"))
  /\ AgentdGone \/ UNCHANGED <<agentd, wiped>>
  /\ UNCHANGED gateway /\ UNCHANGED view

\* The types after a step of an upgrader.
LEMMA EffectType ==
  ASSUME TypeInv, NEW i \in Slot, NEW q, UpgraderEffect(i, q), MachineType', BoundsType'
  PROVE  TypeInv'
<1>1. UpgraderType'
  BY GoesOnType, TypeParts DEF UpgraderEffect
<1>2. RecordType'
  <2>1. up[i].work \in Work /\ up[i].status \in Statuses /\ "running" \in Statuses
    BY ProcessFields, TypeParts DEF UpgraderEffect, Statuses
  <2> QED
    BY <2>1, TypeParts DEF UpgraderEffect, RecordEffect, RecordType
<1>3. BeatType'
  BY TypeParts DEF UpgraderEffect, BeatType
<1>4. AgentdType' /\ WipedType'
  BY AgentdGoneType, UnchangedTypes, TypeParts DEF UpgraderEffect
<1> QED
  BY <1>1, <1>2, <1>3, <1>4, UnchangedTypes, TypeParts, TypePartsNext DEF UpgraderEffect

LEMMA StartsEffect ==
  ASSUME TypeInv, NEW i \in Slot, UpgraderStarts(i)
  PROVE  TypeInv' /\ \E q : UpgraderEffect(i, q)
<1>1. Live(i) /\ up[i].pc = "start"
  BY DEF UpgraderStarts, Live
<1>2. PICK q : /\ GoesOn(i, q) /\ up' = [up EXCEPT ![i] = q]
               /\ q.status = up[i].status \/ q.pc = "finish"
  <2>1. CASE Goes(i, "fetch")
    BY <1>1, <2>1, MovedGoesOn, TypeParts DEF ProcessPCs
  <2>2. CASE Ends(i, "finish", "failed")
    BY <1>1, <2>2, EndedGoesOn, TypeParts DEF Statuses
  <2> QED
    BY <2>1, <2>2 DEF UpgraderStarts
<1>3. RecordEffect(i, q) /\ (Fault \/ UNCHANGED faults)
  BY <1>1 DEF UpgraderStarts, RecordEffect, StoreRecord
<1>4. UNCHANGED <<gateway, view, machine, agentd, launches, crashes, deaths, lost, wiped>> /\ beat' = TRUE
  BY DEF UpgraderStarts
<1>5. UpgraderEffect(i, q)
  BY <1>1, <1>2, <1>3, <1>4 DEF UpgraderEffect, StatusEffect
<1>6. MachineType' /\ BoundsType'
  BY <1>3, <1>4, FaultType, UnchangedTypes, TypeParts
<1> QED
  BY <1>5, <1>6, EffectType

LEMMA ReadOnlyEffect ==
  ASSUME TypeInv, NEW i \in Slot, NEW here \in {"fetch", "verify_digest", "stage"},
         NEW next \in {"verify_digest", "stage", "verify_artifact"}, ReadOnlyStep(i, here, next)
  PROVE  TypeInv' /\ \E q : UpgraderEffect(i, q)
<1>1. Live(i) /\ up[i].pc = here
  BY DEF ReadOnlyStep, Live
<1>2. PICK q : /\ GoesOn(i, q) /\ up' = [up EXCEPT ![i] = q]
               /\ q.status = up[i].status \/ q.pc = "finish"
  <2>1. CASE Goes(i, next)
    BY <1>1, <2>1, MovedGoesOn, TypeParts DEF ProcessPCs
  <2>2. CASE Ends(i, "finish", "failed")
    BY <1>1, <2>2, EndedGoesOn, TypeParts DEF Statuses
  <2> QED
    BY <2>1, <2>2 DEF ReadOnlyStep
<1>3. RecordEffect(i, q) /\ (Fault \/ UNCHANGED faults)
  BY <1>1 DEF ReadOnlyStep, RecordEffect, StoreRecord
<1>4. UNCHANGED <<gateway, view, beat, machine, agentd, launches, crashes, deaths, lost, wiped>>
  BY DEF ReadOnlyStep
<1>5. UpgraderEffect(i, q)
  BY <1>1, <1>2, <1>3, <1>4 DEF UpgraderEffect, StatusEffect
<1>6. MachineType' /\ BoundsType'
  BY <1>3, <1>4, FaultType, UnchangedTypes, TypeParts
<1> QED
  BY <1>5, <1>6, EffectType

LEMMA ArtifactEffect ==
  ASSUME TypeInv, NEW i \in Slot, VerifiesArtifact(i) \/ ArtifactUnusable(i)
  PROVE  TypeInv' /\ \E q : UpgraderEffect(i, q)
<1>1. Live(i) /\ up[i].pc = "verify_artifact"
  BY DEF VerifiesArtifact, ArtifactUnusable, Live
<1>2. PICK q : /\ GoesOn(i, q) /\ up' = [up EXCEPT ![i] = q]
               /\ q.status = up[i].status \/ q.pc = "finish"
  <2>1. CASE up' = [up EXCEPT ![i].pc = "copy", ![i].k = 1]
    <3> DEFINE r == [up[i] EXCEPT !.pc = "copy", !.k = 1]
    <3>1. up[i] \in Process /\ up[i].work \in Work /\ Staged(up[i].work) \in Bin
      BY <1>1, ProcessFields, TypeParts
    <3>2. r \in Process /\ r.pc = "copy" /\ r.k = 1
      BY <3>1 DEF Process
    <3>3. r.work = up[i].work /\ r.from = up[i].from /\ r.status = up[i].status
      BY <3>1 DEF Process
    <3>4. up' = [up EXCEPT ![i] = r]
      BY <2>1
    <3> HIDE DEF r
    <3>5. r.k \in 1..Staged(r.work)
      BY <3>1, <3>2, <3>3 DEF Bin
    <3>6. GoesOn(i, r)
      BY <3>2, <3>3, <3>5 DEF GoesOn
    <3> QED
      BY <3>3, <3>4, <3>6
  <2>2. CASE Ends(i, "finish", "failed")
    BY <1>1, <2>2, EndedGoesOn, TypeParts DEF Statuses
  <2> QED
    BY <2>1, <2>2 DEF VerifiesArtifact, ArtifactUnusable
<1>3. RecordEffect(i, q) /\ (Fault \/ UNCHANGED faults)
  BY <1>1 DEF VerifiesArtifact, ArtifactUnusable, RecordEffect, StoreRecord
<1>4. UNCHANGED <<gateway, view, beat, machine, agentd, launches, crashes, deaths, lost, wiped>>
  BY DEF VerifiesArtifact, ArtifactUnusable
<1>5. UpgraderEffect(i, q)
  BY <1>1, <1>2, <1>3, <1>4 DEF UpgraderEffect, StatusEffect
<1>6. MachineType' /\ BoundsType'
  BY <1>3, <1>4, FaultType, UnchangedTypes, TypeParts
<1> QED
  BY <1>5, <1>6, EffectType

LEMMA BacksUpEffect ==
  ASSUME TypeInv, NEW i \in Slot, BacksUp(i)
  PROVE  TypeInv' /\ \E q : UpgraderEffect(i, q)
<1> DEFINE p == up[i]
<1>1. Live(i) /\ p.pc = "copy"
  BY DEF BacksUp, Live
<1>2. p \in Process /\ p.k \in 1..Staged(p.work) /\ Staged(p.work) \in Bin
  BY <1>1, ProcessFields, TypeParts
<1>3. p.k \in Bin /\ bins[p.k] \in Content /\ Torn \in Content
  BY <1>2, TypeParts, VersionFacts DEF Bin, MachineType
<1>4. PICK next \in {"copying", "swap"} :
        up' = [up EXCEPT ![i].pc = next, ![i].before[p.k] = bins[p.k]]
  BY DEF BacksUp
<1> DEFINE q == [p EXCEPT !.pc = next, !.before[p.k] = bins[p.k]]
<1>5. q \in Process /\ q.pc = next
  BY <1>2, <1>3 DEF Process
<1>6. q.work = p.work /\ q.from = p.from /\ q.k = p.k /\ q.status = p.status
  BY <1>2 DEF Process
<1>7. up' = [up EXCEPT ![i] = q]
  <2>1. up \in [Slot -> Process]
    BY TypeParts DEF UpgraderType
  <2>2. up' = [up EXCEPT ![i] = [@ EXCEPT !.pc = next, !.before[p.k] = bins[p.k]]]
    BY <1>4, <2>1
  <2> QED
    BY <2>1, <2>2
<1> HIDE DEF q
<1>8. GoesOn(i, q)
  BY <1>2, <1>5, <1>6 DEF GoesOn
<1>9. UNCHANGED <<gateway, view, rec, beat, rtv, bins, agentd, launches, bounds, wiped>>
  BY DEF BacksUp
<1>10. UpgraderEffect(i, q)
  BY <1>1, <1>6, <1>7, <1>8, <1>9 DEF UpgraderEffect, StatusEffect, RecordEffect
<1>11. MachineType'
  <2>1. baks' = baks \/ baks' = [baks EXCEPT ![p.k][p.from] = Torn]
    BY DEF BacksUp
  <2>2. /\ bins \in [Bin -> Content] /\ rtv \in Versions
        /\ baks \in [Bin -> [Versions -> Content]]
    BY TypeParts DEF MachineType
  <2>3. [baks[p.k] EXCEPT ![p.from] = Torn] \in [Versions -> Content]
    BY <1>3, <2>2
  <2>4. baks' \in [Bin -> [Versions -> Content]]
    BY <2>1, <2>2, <2>3
  <2> QED
    BY <1>9, <2>2, <2>4 DEF MachineType
<1> QED
  BY <1>9, <1>10, <1>11, EffectType, UnchangedTypes, TypeParts

LEMMA SwapEffect ==
  ASSUME TypeInv, NEW i \in Slot, BackedUp(i) \/ Swaps(i)
  PROVE  TypeInv' /\ \E q : UpgraderEffect(i, q)
<1> DEFINE p == up[i]
<1>1. Live(i) /\ p.pc \in {"copying", "swap"}
  BY DEF BackedUp, Swaps, Live
<1>2. p \in Process /\ p.k \in 1..Staged(p.work) /\ Staged(p.work) \in Bin /\ p.work \in Work
  BY <1>1, ProcessFields, TypeParts
<1>3. p.k \in Bin /\ bins[p.k] \in Content /\ PkgVersion[p.work] \in Content
  BY <1>2, TypeParts, VersionFacts DEF Bin, MachineType
<1>4. PICK q : GoesOn(i, q) /\ up' = [up EXCEPT ![i] = q] /\ q.status = p.status
  <2>1. CASE Goes(i, "swap")
    <3> DEFINE r == [p EXCEPT !.pc = "swap"]
    <3>1. r \in Process /\ r.pc = "swap" /\ r.k = p.k /\ r.work = p.work /\ r.from = p.from /\ r.status = p.status
      BY <1>2 DEF Process
    <3>2. up' = [up EXCEPT ![i] = r]
      BY <2>1 DEF Goes
    <3> HIDE DEF r
    <3> QED
      BY <1>2, <3>1, <3>2 DEF GoesOn
  <2>2. CASE Swaps(i) /\ p.k < Staged(p.work)
    <3> DEFINE r == [p EXCEPT !.pc = "copy", !.k = p.k + 1]
    <3>1. p.k + 1 \in 1..Staged(p.work) /\ p.k + 1 \in Nat
      BY <1>2, <2>2 DEF Bin
    <3>2. r \in Process /\ r.pc = "copy" /\ r.k = p.k + 1
      BY <1>2, <3>1 DEF Process
    <3>3. r.work = p.work /\ r.from = p.from /\ r.status = p.status
      BY <1>2 DEF Process
    <3>4. up' = [up EXCEPT ![i] = r]
      BY <2>2 DEF Swaps
    <3> HIDE DEF r
    <3> QED
      BY <3>1, <3>2, <3>3, <3>4 DEF GoesOn
  <2>3. CASE Swaps(i) /\ ~ (p.k < Staged(p.work))
    <3>1. Goes(i, "restart")
      BY <2>3 DEF Swaps, Goes
    <3> QED
      BY <1>1, <3>1, MovedGoesOn, TypeParts DEF ProcessPCs
  <2> QED
    BY <2>1, <2>2, <2>3 DEF BackedUp
<1>5. RecordEffect(i, q) /\ (Fault \/ UNCHANGED faults)
  BY <1>1 DEF BackedUp, Swaps, RecordEffect, StoreRecord, bounds
<1>6. UNCHANGED <<gateway, view, beat, rtv, agentd, launches, crashes, deaths, lost, wiped>>
  BY DEF BackedUp, Swaps, bounds
<1>7. UpgraderEffect(i, q)
  BY <1>1, <1>4, <1>5, <1>6 DEF UpgraderEffect, StatusEffect
<1>8. MachineType'
  <2>1. CASE BackedUp(i)
    BY <1>3, <2>1, TypeParts DEF MachineType, BackedUp
  <2>2. CASE Swaps(i)
    BY <1>3, <2>2, TypeParts DEF MachineType, Swaps
  <2> QED
    BY <2>1, <2>2
<1>9. BoundsType'
  BY <1>5, <1>6, FaultType, TypeParts
<1> QED
  BY <1>7, <1>8, <1>9, EffectType

LEMMA InstallFailsEffect ==
  ASSUME TypeInv, NEW i \in Slot, InstallFails(i)
  PROVE  TypeInv' /\ \E q : UpgraderEffect(i, q)
<1>1. Live(i) /\ up[i].pc \in {"copying", "swap"}
  BY DEF InstallFails, Live
<1>2. up[i].k - 1 \in 0..NBins
  BY <1>1, ProcessFields, TypeParts DEF Bin
<1>3. PICK q : GoesOn(i, q) /\ up' = [up EXCEPT ![i] = q] /\ q.status = up[i].status
  BY <1>1, <1>2, UndoneGoesOn, TypeParts DEF InstallFails
<1>4. Fault /\ UNCHANGED <<gateway, view, rec, beat, machine, agentd, launches, crashes, deaths, lost, wiped>>
  BY DEF InstallFails
<1>5. UpgraderEffect(i, q)
  BY <1>1, <1>3, <1>4 DEF UpgraderEffect, StatusEffect, RecordEffect
<1>6. MachineType' /\ BoundsType'
  BY <1>4, FaultType, UnchangedTypes, TypeParts
<1> QED
  BY <1>5, <1>6, EffectType

LEMMA RestartsEffect ==
  ASSUME TypeInv, NEW i \in Slot, Restarts(i)
  PROVE  TypeInv' /\ \E q : UpgraderEffect(i, q)
<1>1. Live(i) /\ up[i].pc = "restart"
  BY DEF Restarts, Live
<1>2. Staged(up[i].work) \in 0..NBins
  BY <1>1, ProcessFields, TypeParts DEF Bin
<1>3. PICK q : GoesOn(i, q) /\ up' = [up EXCEPT ![i] = q] /\ q.status = up[i].status
  <2>1. CASE Goes(i, "wait_ready")
    BY <1>1, <2>1, MovedGoesOn, TypeParts DEF ProcessPCs
  <2>2. CASE RollsBack(i, Staged(up[i].work), "restart")
    BY <1>1, <1>2, <2>2, UndoneGoesOn, TypeParts
  <2> QED
    BY <2>1, <2>2 DEF Restarts
<1>4. RecordEffect(i, q) /\ (Fault \/ UNCHANGED faults)
  BY <1>1 DEF Restarts, RecordEffect, StoreRecord
<1>5. /\ AgentdGone \/ UNCHANGED <<agentd, wiped>>
      /\ UNCHANGED <<gateway, view, beat, machine, launches, crashes, deaths, lost>>
  BY DEF Restarts
<1>6. UpgraderEffect(i, q)
  BY <1>1, <1>3, <1>4, <1>5 DEF UpgraderEffect, StatusEffect
<1>7. MachineType' /\ BoundsType'
  BY <1>4, <1>5, FaultType, UnchangedTypes, TypeParts
<1> QED
  BY <1>6, <1>7, EffectType

LEMMA WaitsReadyEffect ==
  ASSUME TypeInv, NEW i \in Slot, WaitsReady(i)
  PROVE  TypeInv' /\ \E q : UpgraderEffect(i, q)
<1>1. Live(i) /\ up[i].pc = "wait_ready"
  BY DEF WaitsReady, Live
<1>2. Staged(up[i].work) \in 0..NBins
  BY <1>1, ProcessFields, TypeParts DEF Bin
<1>3. PICK q : /\ GoesOn(i, q) /\ up' = [up EXCEPT ![i] = q]
               /\ q.status = up[i].status \/ q.pc = "finish"
  <2>1. CASE Ends(i, "finish", "succeeded")
    BY <1>1, <2>1, EndedGoesOn, TypeParts DEF Statuses
  <2>2. CASE RollsBack(i, Staged(up[i].work), "restart")
    BY <1>1, <1>2, <2>2, UndoneGoesOn, TypeParts
  <2> QED
    BY <2>1, <2>2 DEF WaitsReady
<1>4. UNCHANGED <<gateway, view, rec, beat, machine, agentd, launches, bounds, wiped>>
  BY DEF WaitsReady
<1>5. UpgraderEffect(i, q)
  BY <1>1, <1>3, <1>4 DEF UpgraderEffect, StatusEffect, RecordEffect
<1>6. MachineType' /\ BoundsType'
  BY <1>4, UnchangedTypes, TypeParts
<1> QED
  BY <1>5, <1>6, EffectType

\* The end of a rollback, complete or not.
LEMMA AfterUndoGoesOn ==
  ASSUME UpgraderType, NEW i \in Slot, up[i].pc = "undo", NEW restored \in BOOLEAN,
         AfterUndo(i, restored)
  PROVE  \E q : /\ GoesOn(i, q) /\ up' = [up EXCEPT ![i] = q]
                /\ q.pc = "finish" \/ (q.pc = "again" /\ q.status # "succeeded")
<1>1. Live(i)
  BY DEF Live
<1>2. PICK p \in {"finish", "again"}, status \in {"failed", "rolled_back"} : Ends(i, p, status)
  BY DEF AfterUndo
<1> QED
  BY <1>1, <1>2, EndedGoesOn DEF Statuses

LEMMA RestoresEffect ==
  ASSUME TypeInv, NEW i \in Slot, RestoresBackup(i) \/ Restores(i)
  PROVE  TypeInv' /\ \E q : UpgraderEffect(i, q)
<1> DEFINE p == up[i]
<1>1. Live(i) /\ p.pc = "undo"
  BY DEF RestoresBackup, Restores, Live
<1>2. p \in Process /\ p.k \in Nat \ {0} /\ p.m <= NBins /\ p.m \in Nat /\ p.from \in Versions
  BY <1>1, ProcessFields, TypeParts
<1>3. PICK q : /\ GoesOn(i, q) /\ up' = [up EXCEPT ![i] = q]
               /\ \/ q.status = p.status
                  \/ q.pc = "finish" \/ (q.pc = "again" /\ q.status # "succeeded")
  <2>1. CASE \E restored \in BOOLEAN : AfterUndo(i, restored)
    BY <1>1, <2>1, AfterUndoGoesOn, TypeParts
  <2>2. CASE up' = [up EXCEPT ![i].k = p.k + 1]
    <3> DEFINE r == [p EXCEPT !.k = p.k + 1]
    <3>1. p.k + 1 \in Nat \ {0}
      BY <1>2
    <3>2. r \in Process /\ r.pc = "undo" /\ r.k = p.k + 1 /\ r.m = p.m
      BY <1>1, <1>2, <3>1 DEF Process
    <3>3. r.work = p.work /\ r.from = p.from /\ r.status = p.status
      BY <1>2 DEF Process
    <3>4. up' = [up EXCEPT ![i] = r]
      BY <2>2
    <3> HIDE DEF r
    <3> QED
      BY <1>2, <3>1, <3>2, <3>3, <3>4 DEF GoesOn
  <2> QED
    BY <2>1, <2>2 DEF RestoresBackup, Restores
<1>4. /\ UNCHANGED <<gateway, view, rec, beat, rtv, baks, agentd, launches, crashes, deaths, lost, wiped>>
      /\ Fault \/ UNCHANGED faults
  BY DEF RestoresBackup, Restores, machine, bounds
<1>5. UpgraderEffect(i, q)
  BY <1>1, <1>3, <1>4 DEF UpgraderEffect, StatusEffect, RecordEffect
<1>6. MachineType'
  <2>1. CASE UNCHANGED bins
    BY <1>4, <2>1, TypeParts DEF MachineType
  <2>2. CASE RestoresBackup(i) /\ bins' = [bins EXCEPT ![p.k] = Restored(i)]
    <3>1. p.k \in Bin
      BY <1>2, <2>2 DEF RestoresBackup, Bin
    <3>2. Restored(i) \in Content
      <4>1. baks[p.k][p.from] \in Content
        BY <1>2, <3>1, TypeParts DEF MachineType
      <4>2. 0 \in Content
        BY VersionFacts
      <4> QED
        BY <4>1, <4>2 DEF Restored
    <3> QED
      BY <1>4, <2>2, <3>1, <3>2, TypeParts DEF MachineType
  <2> QED
    BY <2>1, <2>2 DEF RestoresBackup, Restores, machine
<1>7. BoundsType'
  BY <1>4, FaultType, TypeParts
<1> QED
  BY <1>5, <1>6, <1>7, EffectType

LEMMA LastStepsEffect ==
  ASSUME TypeInv, NEW i \in Slot, RestartsAgain(i) \/ Finishes(i) \/ UpgraderDies(i)
  PROVE  TypeInv' /\ \E q : UpgraderEffect(i, q)
<1>1. Live(i)
  BY DEF RestartsAgain, Finishes, UpgraderDies, Live
<1>2. CASE RestartsAgain(i)
  <2>1. PICK q : GoesOn(i, q) /\ up' = [up EXCEPT ![i] = q] /\ q.status = up[i].status
    BY <1>1, <1>2, MovedGoesOn, TypeParts DEF RestartsAgain, ProcessPCs
  <2>2. /\ UNCHANGED <<gateway, view, rec, beat, machine, launches, crashes, deaths, lost>>
        /\ AgentdGone \/ UNCHANGED <<agentd, wiped>>
        /\ Fault \/ UNCHANGED faults
    BY <1>2 DEF RestartsAgain
  <2>3. UpgraderEffect(i, q)
    BY <1>1, <1>2, <2>1, <2>2 DEF UpgraderEffect, StatusEffect, RecordEffect, RestartsAgain
  <2>4. MachineType' /\ BoundsType'
    BY <2>2, FaultType, UnchangedTypes, TypeParts
  <2> QED
    BY <2>3, <2>4, EffectType
<1>3. CASE Finishes(i)
  <2>1. PICK q : GoesOn(i, q) /\ up' = [up EXCEPT ![i] = q] /\ q.pc = "gone" /\ q.status = up[i].status
    BY <1>1, <1>3, MovedGoesOn, TypeParts DEF Finishes, ProcessPCs
  <2>2. /\ UNCHANGED <<gateway, view, beat, machine, agentd, launches, crashes, deaths, lost, wiped>>
        /\ Fault \/ UNCHANGED faults
        /\ up[i].pc = "finish"
    BY <1>3 DEF Finishes, StoreRecord
  <2>3. RecordEffect(i, q)
    BY <1>3, <2>1, <2>2 DEF Finishes, StoreRecord, RecordEffect
  <2>4. UpgraderEffect(i, q)
    BY <1>1, <2>1, <2>2, <2>3 DEF UpgraderEffect, StatusEffect
  <2>5. MachineType' /\ BoundsType'
    BY <2>2, FaultType, UnchangedTypes, TypeParts
  <2> QED
    BY <2>4, <2>5, EffectType
<1>4. CASE UpgraderDies(i)
  <2>1. PICK q : GoesOn(i, q) /\ up' = [up EXCEPT ![i] = q] /\ q.pc = "gone" /\ q.status = up[i].status
    BY <1>1, <1>4, MovedGoesOn, TypeParts DEF UpgraderDies, ProcessPCs
  <2>2. UNCHANGED <<gateway, view, rec, beat, machine, agentd, launches, crashes, lost, faults, wiped>>
    BY <1>4 DEF UpgraderDies
  <2>3. UpgraderEffect(i, q)
    BY <1>1, <2>1, <2>2 DEF UpgraderEffect, StatusEffect, RecordEffect
  <2>4. BoundsType'
    BY <1>4, <2>2, TypeParts DEF UpgraderDies, BoundsType
  <2> QED
    BY <2>2, <2>3, <2>4, EffectType, UnchangedTypes, TypeParts
<1> QED
  BY <1>2, <1>3, <1>4

\* Every step of an upgrader, and its death, has this effect.
LEMMA UpgraderStepEffect ==
  ASSUME TypeInv, NEW i \in Slot, UpgraderStep(i) \/ UpgraderDies(i)
  PROVE  TypeInv' /\ \E q : UpgraderEffect(i, q)
BY StartsEffect, ReadOnlyEffect, ArtifactEffect, BacksUpEffect, SwapEffect, InstallFailsEffect,
   RestartsEffect, WaitsReadyEffect, RestoresEffect, LastStepsEffect
   DEF UpgraderStep, FetchesPackage, VerifiesDigest, StagesPackage

(***************************************************************************)
(* The steps of agentd and of the gateway keep the types.                  *)
(***************************************************************************)

LEMMA FetchGrantType ==
  ASSUME TypeInv, FetchGrant PROVE TypeInv'
<1>1. exe' \in [Work -> Executions] /\ todo' \subseteq Work
  BY TypeParts DEF FetchGrant, ApplyGrant, AgentdType, Executions, Outstanding
<1>2. AgentdType'
  BY <1>1, TypeParts DEF FetchGrant, AgentdType, AgentdOK, GatewayType
<1> QED
  BY <1>2, UnchangedTypes, TypeParts, TypePartsNext DEF FetchGrant

LEMMA DispatchUpgradeType ==
  ASSUME TypeInv, NEW w \in Work, DispatchUpgrade(w)
  PROVE  /\ TypeInv'
         /\ launches' = launches + 1 /\ launches' \in Slot
         /\ up' = [up EXCEPT ![launches'] = UpgraderFor(w)]
         /\ UpgraderFor(w).pc = "start" /\ UpgraderFor(w).work = w
         /\ UpgraderFor(w).status = "running"
<1>1. ver \in Versions /\ ver \in Nat
  BY VersionFacts, TypeParts DEF DispatchUpgrade, AgentdType, AgentdOK
<1> DEFINE q == UpgraderFor(w)
<1>2. q \in Process
  BY <1>1, NoProcessType DEF UpgraderFor, Process
<1>3. q.pc = "start" /\ q.work = w /\ q.from = ver /\ q.status = "running"
  BY NoProcessType DEF UpgraderFor, Process, NoProcess
<1>4. launches' = launches + 1 /\ launches' \in Slot /\ up' = [up EXCEPT ![launches'] = q]
  BY TypeParts DEF DispatchUpgrade, SpawnUpgrader, UpgraderType, Slot
<1> HIDE DEF q
<1>5. UpgraderType'
  <2>1. up' \in [Slot -> Process]
    BY <1>2, <1>4, TypeParts DEF UpgraderType
  <2>2. ProcOK'
    BY <1>1, <1>3, <1>4, TypeParts DEF UpgraderType, ProcOK, Staged
  <2>3. launches' \in 0..MaxLaunches
    BY <1>4 DEF Slot
  <2> QED
    BY <2>1, <2>2, <2>3 DEF UpgraderType
<1>6. AgentdType'
  BY <1>1, TypeParts DEF DispatchUpgrade, AgentdType, AgentdOK, Executions
<1>7. UNCHANGED <<gateway, view, rec, beat, machine, bounds, wiped>>
  BY DEF DispatchUpgrade
<1>8. TypeInv'
  BY <1>5, <1>6, <1>7, UnchangedTypes, TypeParts, TypePartsNext
<1> QED
  BY <1>3, <1>4, <1>8 DEF q

LEMMA DispatchSideType ==
  ASSUME TypeInv, NEW w \in Work, UpgradeBusy(w) \/ DispatchRefused(w) PROVE TypeInv'
<1>1. AgentdType'
  <2>1. CASE UpgradeBusy(w)
    BY <2>1, TypeParts DEF UpgradeBusy, AgentdType, AgentdOK
  <2>2. CASE DispatchRefused(w)
    BY <2>2, TypeParts DEF DispatchRefused, AgentdType, AgentdOK, Executions
  <2> QED
    BY <2>1, <2>2
<1>2. BoundsType'
  <2>1. /\ Fault \/ UNCHANGED faults
        /\ UNCHANGED <<crashes, deaths, lost>>
    BY DEF UpgradeBusy, DispatchRefused, bounds
  <2> QED
    BY <2>1, FaultType, TypeParts
<1>3. UNCHANGED <<gateway, view, rec, beat, machine, up, launches, wiped>>
  BY DEF UpgradeBusy, DispatchRefused
<1> QED
  BY <1>1, <1>2, <1>3, UnchangedTypes, TypeParts, TypePartsNext

LEMMA AckWorkType ==
  ASSUME TypeInv, AckWork PROVE TypeInv'
<1>1. dirty' \in BOOLEAN
  BY TypeParts DEF AckWork, AgentdType
<1>2. AgentdType'
  BY <1>1, TypeParts DEF AckWork, AgentdType, AgentdOK, NoSay, Executions
<1>3. BoundsType'
  BY TypeParts DEF AckWork, BoundsType, bounds
<1> QED
  BY <1>2, <1>3, UnchangedTypes, TypeParts, TypePartsNext DEF AckWork

LEMMA TellRejectedType ==
  ASSUME TypeInv, TellRejected PROVE TypeInv'
<1>1. GatewayType' /\ BoundsType'
  <2>1. "failed" \in Verdicts
    BY DEF Verdicts
  <2> QED
    BY <2>1, GatewayTakesType, ReportLostType, UnchangedTypes, TypeParts DEF TellRejected
<1>2. AgentdType'
  BY TypeParts DEF TellRejected, AgentdType, AgentdOK, NoSay, Executions
<1> QED
  BY <1>1, <1>2, UnchangedTypes, TypeParts, TypePartsNext DEF TellRejected

\* A record reconciled is that of a work, and its status one an upgrader gives.
LEMMA LocalStatusType == ASSUME TypeInv PROVE LocalStatus \in Statuses
BY TypeParts DEF LocalStatus, RecordType, Statuses

LEMMA ReconcileRecordType ==
  ASSUME TypeInv, ReconcileRecord PROVE TypeInv'
<1>1. AgentdType'
  <2>1. CASE say' = [work |-> rec.work, local |-> LocalStatus] /\ pc' = "report" /\ rec.work # NoWork
    BY <2>1, LocalStatusType, TypeParts
       DEF ReconcileRecord, AgentdType, AgentdOK, RecordType, Executions, Statuses
  <2>2. CASE say' = NoSay /\ pc' = "store"
    BY <2>2, TypeParts DEF ReconcileRecord, AgentdType, AgentdOK, NoSay, Executions
  <2> QED
    BY <2>1, <2>2 DEF ReconcileRecord
<1> QED
  BY <1>1, UnchangedTypes, TypeParts, TypePartsNext DEF ReconcileRecord

LEMMA ReportResultType ==
  ASSUME TypeInv, ReportResult PROVE TypeInv'
<1>1. say.local \in Statuses /\ say.work \in Work /\ ResultOf(say.local) \in Verdicts
  BY TypeParts DEF ReportResult, AgentdType, AgentdOK, Statuses, Verdicts, ResultOf
<1>2. GatewayType' /\ BoundsType'
  BY <1>1, GatewayTakesType, ReportLostType, UnchangedTypes, TypeParts DEF ReportResult
<1>3. exe' \in [Work -> Executions] /\ dirty' \in BOOLEAN
  BY <1>1, TypeParts DEF ReportResult, AgentdType, Executions, Statuses
<1>4. AgentdType'
  BY <1>3, TypeParts DEF ReportResult, AgentdType, AgentdOK, NoSay, Executions
<1> QED
  BY <1>2, <1>4, UnchangedTypes, TypeParts, TypePartsNext DEF ReportResult

LEMMA StoreViewType ==
  ASSUME TypeInv, StoreView PROVE TypeInv'
<1>1. ViewType'
  BY TypeParts DEF StoreView, ViewType, AgentdType, view
<1>2. BoundsType'
  <2>1. (Fault \/ UNCHANGED faults) /\ UNCHANGED <<crashes, deaths, lost>>
    BY DEF StoreView, bounds
  <2> QED
    BY <2>1, FaultType, TypeParts
<1>3. AgentdType'
  BY TypeParts DEF StoreView, AgentdType, AgentdOK
<1> QED
  BY <1>1, <1>2, <1>3, UnchangedTypes, TypeParts, TypePartsNext DEF StoreView

LEMMA AgentdStartsType ==
  ASSUME TypeInv, AgentdStarts PROVE TypeInv'
<1>1. bins[1] \in Versions
  BY VersionFacts, TypeParts DEF AgentdStarts, MachineType, Content
<1>2. AgentdType'
  BY <1>1, TypeParts DEF AgentdStarts, RestoreView, AgentdType, AgentdOK, ViewType
<1>3. MachineType'
  BY <1>1, TypeParts DEF AgentdStarts, MachineType
<1> QED
  BY <1>2, <1>3, UnchangedTypes, TypeParts, TypePartsNext DEF AgentdStarts

LEMMA AgentdCrashesType ==
  ASSUME TypeInv, AgentdCrashes PROVE TypeInv'
<1>1. BoundsType'
  BY TypeParts DEF AgentdCrashes, BoundsType
<1>2. AgentdType' /\ WipedType'
  BY AgentdGoneType, TypeParts DEF AgentdCrashes
<1> QED
  BY <1>1, <1>2, UnchangedTypes, TypeParts, TypePartsNext DEF AgentdCrashes

LEMMA GrantType ==
  ASSUME TypeInv, NEW w \in Work, Grant(w) \/ Withdraw(w) PROVE TypeInv'
<1>1. PICK v \in {"open", "withdrawn"} : verdict' = [verdict EXCEPT ![w] = v] /\ seq' = seq + 1
  BY DEF Grant, Withdraw
<1>2. v \in Verdicts /\ verdict \in [Work -> Verdicts] /\ seq \in Nat
  BY TypeParts DEF GatewayType, Verdicts
<1>3. GatewayType'
  BY <1>1, <1>2 DEF GatewayType
<1> QED
  BY <1>3, UnchangedTypes, TypeParts, TypePartsNext DEF Grant, Withdraw

LEMMA HeartbeatExpiresType ==
  ASSUME TypeInv, HeartbeatExpires PROVE TypeInv'
<1>1. BeatType'
  BY DEF HeartbeatExpires, BeatType
<1> QED
  BY <1>1, UnchangedTypes, TypeParts, TypePartsNext DEF HeartbeatExpires

LEMMA TypeStep == TypeInv /\ [Next]_vars => TypeInv'
<1> SUFFICES ASSUME TypeInv, [Next]_vars PROVE TypeInv'
  OBVIOUS
<1>1. CASE UNCHANGED vars
  BY <1>1, UnchangedTypes, TypeParts, TypePartsNext DEF vars
<1>2. ASSUME NEW i \in Slot, UpgraderStep(i) \/ UpgraderDies(i) PROVE TypeInv'
  BY <1>2, UpgraderStepEffect
<1>3. CASE AgentdStep
  BY <1>3, FetchGrantType, DispatchUpgradeType, DispatchSideType, AckWorkType, TellRejectedType,
     ReconcileRecordType, ReportResultType, StoreViewType, AgentdStartsType DEF AgentdStep
<1> QED
  BY <1>1, <1>2, <1>3, AgentdCrashesType, HeartbeatExpiresType, GrantType DEF Next

\* The files, the gateway and the memories of agentd and of every upgrader hold
\* only values the code can give them, whatever is interrupted and in whichever
\* order (TypeOK): a backup is restored only from a version that has one, and a
\* verdict is one the gateway knows.
THEOREM TypeCorrect == Spec => []TypeOK
<1>1. Spec => []TypeInv
  BY InitType, TypeStep, PTL DEF Spec
<1>2. TypeInv => TypeOK
  BY DEF TypeInv
<1> QED
  BY <1>1, <1>2, PTL

(***************************************************************************)
(* The inductive invariant behind OneUpgrader and VerdictIsTrue.           *)
(***************************************************************************)

\* A work for which an upgrader was launched at some time.
Launched(w) == \E i \in Slot : up[i].work = w

\* What agentd knows of a work, or will know when it is started again.
InView(w) == ExecutionInFlight(IF pc = "down" THEN wexe[w] ELSE exe[w])

\* Slots are used in order.
SlotsOK == \A i \in Slot : i > launches => up[i].pc = "none" /\ up[i].work = NoWork

\* A work waits for its dispatch only while it never had an upgrader.
TodoOK ==
  /\ pc \notin {"dispatch", "ack", "tell"} => todo = {}
  /\ \A w \in todo : /\ exe[w] = "unexecuted" /\ verdict[w] # "none"
                     /\ Launched(w) => w \in forgot

\* A second upgrader of a work means that the dispatch of the first was wiped out.
OnceOK ==
  \A i, j \in Slot : i # j /\ up[i].work = up[j].work /\ up[i].work # NoWork => up[i].work \in forgot

\* A work that had an upgrader is in flight for agentd, or closed at the gateway.
ViewOK ==
  \A w \in Work \ forgot :
    Launched(w) => verdict[w] # "none" /\ (w \notin Outstanding \/ InView(w))

\* The work of an upgrader that lives is in flight for agentd.
LiveOK == \A i \in Slot : Live(i) /\ up[i].work \notin forgot => InView(up[i].work)

\* upgrade.json was written by an upgrader that has started; a result in it by
\* one that is gone.
RecOK ==
  rec.work # NoWork =>
    \E i \in Slot : /\ up[i].work = rec.work /\ up[i].pc \notin {"none", "start"}
                    /\ rec.status # "running" => up[i].pc = "gone" /\ up[i].status = rec.status

\* An upgrader beats from its start on.
BeatOK == \A i \in Slot : Live(i) /\ up[i].pc # "start" => beat

\* A result is under way only for a work whose upgrader is gone, a refusal only
\* for one that never had an upgrader.
SayOK ==
  /\ pc = "report" /\ say.local # "running" /\ say.work \notin forgot =>
       \A i \in Slot : up[i].work = say.work => ~ Live(i)
  /\ pc = "report" /\ say.local = "succeeded" =>
       \E i \in Slot : up[i].work = say.work /\ up[i].status = "succeeded"
  /\ pc = "report" /\ say.local \in {"failed", "rolled_back"} /\ say.work \notin forgot =>
       rec # [work |-> say.work, status |-> "succeeded"]
  /\ pc = "tell" => say.work \notin todo /\ (Launched(say.work) => say.work \in forgot)

StatusOK == \A i \in Slot : up[i].status = "succeeded" => up[i].pc \in {"finish", "gone"}

\* After a verdict nothing contradicts it any more.
VerdictFor(w) ==
  /\ verdict[w] = "succeeded" => \E i \in Slot : up[i].work = w /\ up[i].status = "succeeded"
  /\ verdict[w] = "failed" => /\ w \notin todo
                              /\ \A i \in Slot : up[i].work = w => ~ Live(i)
                              /\ rec # [work |-> w, status |-> "succeeded"]

VerdictOK == \A w \in Work \ forgot : VerdictFor(w)

UpgradeInv ==
  /\ SlotsOK /\ TodoOK /\ OnceOK /\ ViewOK /\ LiveOK /\ RecOK /\ BeatOK
  /\ SayOK /\ StatusOK /\ VerdictOK

\* The parts that only the upgraders' steps can disturb.
ProcessInv == SlotsOK /\ OnceOK /\ RecOK /\ BeatOK /\ StatusOK

LEMMA ProcessInvKept ==
  ASSUME ProcessInv, UNCHANGED <<up, launches, rec, beat, wiped>> PROVE ProcessInv'
<1>1. SlotsOK' /\ OnceOK' /\ StatusOK'
  BY DEF ProcessInv, SlotsOK, OnceOK, StatusOK, wiped
<1>2. RecOK'
  BY DEF ProcessInv, RecOK
<1>3. BeatOK'
  BY DEF ProcessInv, BeatOK, Live
<1> QED
  BY <1>1, <1>2, <1>3 DEF ProcessInv

LEMMA InvParts ==
  /\ UpgradeInv <=> ProcessInv /\ TodoOK /\ ViewOK /\ LiveOK /\ SayOK /\ VerdictOK
  /\ UpgradeInv' <=> ProcessInv' /\ TodoOK' /\ ViewOK' /\ LiveOK' /\ SayOK' /\ VerdictOK'
BY DEF UpgradeInv, ProcessInv

LEMMA InitInv == Init => UpgradeInv
<1> SUFFICES ASSUME Init PROVE UpgradeInv
  OBVIOUS
<1>1. \A i \in Slot : /\ up[i].pc = "none" /\ up[i].work = NoWork /\ up[i].status = "running"
                      /\ ~ Live(i)
  BY DEF Init, NoProcess, Live
<1>2. SlotsOK /\ OnceOK /\ RecOK /\ BeatOK /\ StatusOK
  BY <1>1 DEF Init, SlotsOK, OnceOK, RecOK, BeatOK, StatusOK
<1>3. TodoOK /\ SayOK
  BY DEF Init, TodoOK, SayOK
<1>4. ViewOK /\ LiveOK
  BY <1>1 DEF Init, ViewOK, LiveOK, Launched
<1>5. VerdictOK
  BY <1>1 DEF Init, VerdictOK, VerdictFor
<1> QED
  BY <1>2, <1>3, <1>4, <1>5 DEF UpgradeInv

LEMMA GrantInv ==
  ASSUME TypeInv, UpgradeInv, NEW w \in Work, Grant(w) \/ Withdraw(w) PROVE UpgradeInv'
<1>1. /\ UNCHANGED <<pc, wexe, exe, todo, say, up, launches, rec, beat, wiped, forgot>>
      /\ \A x \in Work \ {w} : verdict'[x] = verdict[x]
      /\ verdict'[w] \in {"open", "withdrawn"}
      /\ verdict'[w] = "open" => verdict[w] = "none"
  BY TypeParts DEF Grant, Withdraw, view, agentd, wiped, GatewayType
<1>2. ProcessInv'
  BY <1>1, ProcessInvKept, InvParts
<1>3. TodoOK'
  BY <1>1, TypeParts DEF UpgradeInv, TodoOK, Launched, AgentdType
<1>4. ViewOK'
  <2> SUFFICES ASSUME NEW x \in Work \ forgot, Launched(x)
               PROVE  verdict'[x] # "none" /\ ((x \notin Outstanding)' \/ InView(x)')
    BY <1>1 DEF ViewOK, Launched
  <2>1. verdict[x] # "none" /\ (x \notin Outstanding \/ InView(x))
    BY DEF UpgradeInv, ViewOK
  <2>2. InView(x)' = InView(x)
    BY <1>1 DEF InView
  <2> QED
    BY <1>1, <2>1, <2>2 DEF Outstanding
<1>5. LiveOK'
  BY <1>1 DEF UpgradeInv, LiveOK, Live, InView
<1>6. SayOK'
  BY <1>1 DEF UpgradeInv, SayOK, Live, Launched
<1>7. VerdictOK'
  <2> SUFFICES ASSUME NEW x \in Work \ forgot PROVE VerdictFor(x)'
    BY <1>1 DEF VerdictOK
  <2>1. verdict'[x] \in {"succeeded", "failed"} => verdict'[x] = verdict[x]
    BY <1>1
  <2> QED
    BY <1>1, <2>1 DEF UpgradeInv, VerdictOK, VerdictFor, Live
<1> QED
  BY <1>2, <1>3, <1>4, <1>5, <1>6, <1>7, InvParts

LEMMA FetchGrantInv ==
  ASSUME TypeInv, UpgradeInv, FetchGrant PROVE UpgradeInv'
<1>1. /\ UNCHANGED <<verdict, wexe, say, up, launches, rec, beat, wiped, forgot>>
      /\ pc = "idle" /\ pc' = "dispatch"
  BY DEF FetchGrant, gateway, view, wiped
<1>2. \A w \in Work : ExecutionInFlight(exe[w]) => ExecutionInFlight(exe'[w])
  BY TypeParts DEF FetchGrant, ApplyGrant, ExecutionInFlight
<1>3. \A w \in todo' : /\ w \in Work /\ w \in Outstanding /\ exe'[w] = "unexecuted"
                       /\ ~ ExecutionInFlight(exe[w])
  BY <1>2 DEF FetchGrant, Outstanding, ExecutionInFlight
<1>4. ProcessInv'
  BY <1>1, ProcessInvKept, InvParts
<1>5. TodoOK'
  <2> SUFFICES ASSUME NEW w \in todo'
               PROVE  exe'[w] = "unexecuted" /\ verdict'[w] # "none" /\ (Launched(w)' => w \in forgot')
    BY <1>1 DEF TodoOK
  <2>1. Launched(w)' = Launched(w)
    BY <1>1 DEF Launched
  <2>2. Launched(w) => w \in forgot
    BY <1>1, <1>3 DEF UpgradeInv, ViewOK, InView
  <2>3. verdict[w] # "none"
    BY <1>3 DEF Outstanding
  <2> QED
    BY <1>1, <1>3, <2>1, <2>2, <2>3
<1>6. \A w \in Work : InView(w) => InView(w)'
  BY <1>1, <1>2 DEF InView
<1>7. ViewOK'
  BY <1>1, <1>6 DEF UpgradeInv, ViewOK, Launched, Outstanding
<1>8. LiveOK'
  <2> SUFFICES ASSUME NEW i \in Slot, Live(i), up[i].work \notin forgot, NEW w, w = up[i].work
               PROVE  InView(w)'
    BY <1>1 DEF LiveOK, Live, InView
  <2>1. w \in Work
    BY ProcessFields, TypeParts
  <2>2. InView(w)
    BY DEF UpgradeInv, LiveOK
  <2> QED
    BY <1>6, <2>1, <2>2
<1>9. SayOK'
  BY <1>1 DEF SayOK
<1>10. VerdictOK'
  <2> SUFFICES ASSUME NEW w \in Work \ forgot PROVE VerdictFor(w)'
    BY <1>1 DEF VerdictOK
  <2>1. verdict[w] = "failed" => w \notin todo'
    BY <1>3 DEF Outstanding
  <2> QED
    BY <1>1, <2>1 DEF UpgradeInv, VerdictOK, VerdictFor, Live
<1> QED
  BY <1>4, <1>5, <1>7, <1>8, <1>9, <1>10, InvParts

LEMMA UpgradeBusyInv ==
  ASSUME TypeInv, UpgradeInv, NEW w \in Work, UpgradeBusy(w) PROVE UpgradeInv'
<1>1. /\ UNCHANGED <<verdict, wexe, exe, pc, say, up, launches, rec, beat, wiped, forgot>>
      /\ todo' = todo \ {w} /\ pc = "dispatch"
  BY DEF UpgradeBusy, gateway, view, wiped
<1>2. ProcessInv'
  BY <1>1, ProcessInvKept, InvParts
<1>3. TodoOK' /\ SayOK'
  BY <1>1 DEF UpgradeInv, TodoOK, SayOK, Launched
<1>4. ViewOK' /\ LiveOK'
  BY <1>1 DEF UpgradeInv, ViewOK, LiveOK, Launched, Outstanding, InView, Live
<1>5. VerdictOK'
  BY <1>1 DEF UpgradeInv, VerdictOK, VerdictFor, Live
<1> QED
  BY <1>2, <1>3, <1>4, <1>5, InvParts

LEMMA DispatchUpgradeInv ==
  ASSUME TypeInv, UpgradeInv, NEW w \in Work, DispatchUpgrade(w) PROVE UpgradeInv'
<1> DEFINE n == launches + 1
           q == UpgraderFor(w)
<1>1. /\ launches' = n /\ n \in Slot /\ up' = [up EXCEPT ![n] = q]
      /\ q.pc = "start" /\ q.work = w /\ q.status = "running"
  BY DispatchUpgradeType
<1>2. /\ UNCHANGED <<verdict, wexe, rec, beat, wiped, forgot>>
      /\ pc = "dispatch" /\ pc' = "ack" /\ w \in todo /\ todo' = todo \ {w}
      /\ exe' = [exe EXCEPT ![w] = "dispatched"]
      /\ ~ UpgradeInFlight
  BY DEF DispatchUpgrade, gateway, view, wiped
<1>3. up \in [Slot -> Process] /\ exe \in [Work -> Executions] /\ launches \in Nat
  BY TypeParts DEF UpgraderType, AgentdType
<1> HIDE DEF n, q
<1>4. up'[n] = q /\ \A j \in Slot \ {n} : up'[j] = up[j]
  BY <1>1, <1>3
<1>5. up[n].pc = "none" /\ up[n].work = NoWork /\ \A j \in Slot : j > n => j > launches
  BY <1>1, <1>3 DEF UpgradeInv, SlotsOK, n, Slot
<1>6. /\ verdict[w] # "none" /\ exe[w] = "unexecuted"
      /\ Launched(w) => w \in forgot
  BY <1>2 DEF UpgradeInv, TodoOK
<1>7. \A x \in Work : Launched(x)' <=> Launched(x) \/ x = w
  BY <1>1, <1>4, <1>5 DEF Launched
<1>8. ProcessInv'
  <2>1. SlotsOK'
    BY <1>1, <1>4, <1>5 DEF UpgradeInv, SlotsOK, Slot
  <2>2. OnceOK'
    <3> SUFFICES ASSUME NEW i \in Slot, NEW j \in Slot, i # j, up'[i].work = up'[j].work,
                        up'[i].work # NoWork
                 PROVE  up'[i].work \in forgot
      BY <1>2 DEF OnceOK
    <3>1. CASE i # n /\ j # n
      BY <1>4, <3>1 DEF UpgradeInv, OnceOK
    <3>2. CASE i = n
      BY <1>1, <1>4, <1>6, <3>2 DEF Launched
    <3>3. CASE j = n
      BY <1>1, <1>4, <1>6, <3>3 DEF Launched
    <3> QED
      BY <3>1, <3>2, <3>3
  <2>3. RecOK'
    BY <1>2, <1>4, <1>5 DEF UpgradeInv, RecOK
  <2>4. BeatOK'
    BY <1>1, <1>2, <1>4 DEF UpgradeInv, BeatOK, Live
  <2>5. StatusOK'
    BY <1>1, <1>4 DEF UpgradeInv, StatusOK
  <2> QED
    BY <2>1, <2>2, <2>3, <2>4, <2>5 DEF ProcessInv
<1>9. TodoOK'
  <2>1. \A x \in todo' : x \in todo /\ x # w /\ exe'[x] = exe[x] /\ x \in Work
    BY <1>2, <1>3, TypeParts DEF AgentdType
  <2>2. \A x \in todo' : Launched(x)' => x \in forgot
    BY <1>7, <2>1 DEF UpgradeInv, TodoOK
  <2> QED
    BY <1>2, <2>1, <2>2 DEF UpgradeInv, TodoOK
<1>10. \A x \in Work : InView(x)' <=> InView(x) \/ x = w
  BY <1>2, <1>3, <1>6 DEF InView, ExecutionInFlight
<1>11. ViewOK'
  <2> SUFFICES ASSUME NEW x \in Work \ forgot, Launched(x)'
               PROVE  verdict[x] # "none" /\ (x \notin Outstanding \/ InView(x)')
    BY <1>2 DEF ViewOK, Outstanding
  <2>1. CASE x = w
    BY <1>6, <1>10, <2>1
  <2>2. CASE x # w
    BY <1>7, <1>10, <2>2 DEF UpgradeInv, ViewOK
  <2> QED
    BY <2>1, <2>2
<1>12. LiveOK'
  <2> SUFFICES ASSUME NEW i \in Slot, Live(i)', up'[i].work \notin forgot, NEW x, x = up'[i].work
               PROVE  InView(x)'
    BY <1>2 DEF LiveOK, InView
  <2>1. CASE i = n
    BY <1>1, <1>4, <1>10, <2>1
  <2>2. CASE i # n
    <3>1. Live(i) /\ x = up[i].work
      BY <1>4, <2>2 DEF Live
    <3>2. x \in Work
      BY <3>1, ProcessFields, TypeParts
    <3>3. InView(x)
      BY <1>2, <3>1 DEF UpgradeInv, LiveOK
    <3> QED
      BY <1>10, <3>2, <3>3
  <2> QED
    BY <2>1, <2>2
<1>13. SayOK'
  BY <1>2 DEF SayOK
<1>14. VerdictOK'
  <2> SUFFICES ASSUME NEW x \in Work \ forgot PROVE VerdictFor(x)'
    BY <1>2 DEF VerdictOK
  <2>1. VerdictFor(x)
    BY DEF UpgradeInv, VerdictOK
  <2>2. verdict[x] = "succeeded" => \E i \in Slot : up'[i].work = x /\ up'[i].status = "succeeded"
    BY <1>4, <1>5, <2>1 DEF VerdictFor
  <2>3. verdict[x] = "failed" => x # w
    BY <1>2, <2>1 DEF VerdictFor
  <2>4. verdict[x] = "failed" => \A i \in Slot : up'[i].work = x => ~ Live(i)'
    BY <1>1, <1>4, <2>1, <2>3 DEF VerdictFor, Live
  <2> QED
    BY <1>2, <2>1, <2>2, <2>4 DEF VerdictFor
<1> QED
  BY <1>8, <1>9, <1>11, <1>12, <1>13, <1>14, InvParts

\* Of two upgraders that live agentd forgot at least one: a third is not
\* launched while the work of one it knows is in flight.
LEMMA DispatchAlone ==
  ASSUME TypeInv, UpgradeInv, NEW w \in Work, DispatchUpgrade(w)
  PROVE  \A i \in Slot : Live(i) => up[i].work \in forgot
<1> SUFFICES ASSUME NEW i \in Slot, Live(i), up[i].work \notin forgot PROVE FALSE
  OBVIOUS
<1>1. up[i].work \in Work
  BY ProcessFields, TypeParts
<1>2. InView(up[i].work)
  BY DEF UpgradeInv, LiveOK
<1> QED
  BY <1>1, <1>2 DEF DispatchUpgrade, InView, UpgradeInFlight

LEMMA DispatchRefusedInv ==
  ASSUME TypeInv, UpgradeInv, NEW w \in Work, DispatchRefused(w) PROVE UpgradeInv'
<1>1. /\ UNCHANGED <<verdict, wexe, up, launches, rec, beat, wiped, forgot>>
      /\ pc = "dispatch" /\ pc' = "tell" /\ w \in todo /\ todo' = todo \ {w}
      /\ exe' = [exe EXCEPT ![w] = "rejected"]
      /\ say' = [work |-> w, local |-> "failed"]
  BY DEF DispatchRefused, gateway, view, wiped
<1>2. exe \in [Work -> Executions] /\ todo \subseteq Work
  BY TypeParts DEF AgentdType
<1>3. exe[w] = "unexecuted" /\ (Launched(w) => w \in forgot)
  BY <1>1 DEF UpgradeInv, TodoOK
<1>4. ProcessInv'
  BY <1>1, ProcessInvKept, InvParts
<1>5. TodoOK'
  <2>1. \A x \in todo' : x \in todo /\ exe'[x] = exe[x]
    BY <1>1, <1>2
  <2> QED
    BY <1>1, <2>1 DEF UpgradeInv, TodoOK, Launched
<1>6. \A x \in Work : InView(x)' <=> InView(x)
  BY <1>1, <1>2, <1>3 DEF InView, ExecutionInFlight
<1>7. ViewOK'
  BY <1>1, <1>6 DEF UpgradeInv, ViewOK, Launched, Outstanding
<1>8. LiveOK'
  <2> SUFFICES ASSUME NEW i \in Slot, Live(i), up[i].work \notin forgot, NEW x, x = up[i].work
               PROVE  InView(x)'
    BY <1>1 DEF LiveOK, Live, InView
  <2>1. x \in Work
    BY ProcessFields, TypeParts
  <2>2. InView(x)
    BY DEF UpgradeInv, LiveOK
  <2> QED
    BY <1>6, <2>1, <2>2
<1>9. SayOK'
  BY <1>1, <1>3 DEF SayOK, Launched
<1>10. VerdictOK'
  BY <1>1 DEF UpgradeInv, VerdictOK, VerdictFor, Live
<1> QED
  BY <1>4, <1>5, <1>7, <1>8, <1>9, <1>10, InvParts

LEMMA AckWorkInv ==
  ASSUME TypeInv, UpgradeInv, AckWork PROVE UpgradeInv'
<1>1. /\ UNCHANGED <<verdict, wexe, exe, todo, up, launches, rec, beat, wiped, forgot>>
      /\ pc = "ack" /\ pc' = "dispatch"
  BY DEF AckWork, gateway, view, wiped
<1>2. ProcessInv'
  BY <1>1, ProcessInvKept, InvParts
<1>3. TodoOK' /\ SayOK'
  BY <1>1 DEF UpgradeInv, TodoOK, SayOK, Launched
<1>4. ViewOK' /\ LiveOK'
  BY <1>1 DEF UpgradeInv, ViewOK, LiveOK, Launched, Outstanding, InView, Live
<1>5. VerdictOK'
  BY <1>1 DEF UpgradeInv, VerdictOK, VerdictFor, Live
<1> QED
  BY <1>2, <1>3, <1>4, <1>5, InvParts

\* What the gateway may do with a report: nothing, or take the status for a
\* work that is outstanding.
LEMMA GatewayTakesEffect ==
  ASSUME GatewayType, NEW w \in Work, NEW status \in Verdicts,
         GatewayTakes(w, status) \/ ReportLost(w, status)
  PROVE  /\ \A x \in Work \ {w} : verdict'[x] = verdict[x]
         /\ verdict'[w] = verdict[w] \/ (w \in Outstanding /\ verdict'[w] = status)
         /\ GatewayTakes(w, status) => (w \in Outstanding => verdict'[w] = status)
BY DEF GatewayType, GatewayTakes, ReportLost, gateway

LEMMA TellRejectedInv ==
  ASSUME TypeInv, UpgradeInv, TellRejected PROVE UpgradeInv'
<1> DEFINE w == say.work
<1>1. /\ UNCHANGED <<wexe, exe, todo, up, launches, rec, beat, wiped, forgot>>
      /\ pc = "tell" /\ pc' = "dispatch" /\ w \in Work
      /\ GatewayTakes(w, "failed") \/ ReportLost(w, "failed")
  BY TypeParts DEF TellRejected, view, wiped, AgentdType, AgentdOK
<1>2. /\ \A x \in Work \ {w} : verdict'[x] = verdict[x]
      /\ verdict'[w] = verdict[w] \/ (w \in Outstanding /\ verdict'[w] = "failed")
  BY <1>1, GatewayTakesEffect, TypeParts DEF Verdicts
<1>3. w \notin todo /\ (Launched(w) => w \in forgot)
  BY <1>1 DEF UpgradeInv, SayOK
<1>4. ProcessInv'
  BY <1>1, ProcessInvKept, InvParts
<1>5. TodoOK' /\ SayOK'
  BY <1>1, <1>2, <1>3, TypeParts DEF UpgradeInv, TodoOK, SayOK, Launched, AgentdType
<1>6. ViewOK'
  <2> SUFFICES ASSUME NEW x \in Work \ forgot, Launched(x)
               PROVE  verdict'[x] # "none" /\ ((x \notin Outstanding)' \/ InView(x)')
    BY <1>1 DEF ViewOK, Launched
  <2>1. x # w
    BY <1>3
  <2>2. InView(x)' = InView(x)
    BY <1>1 DEF InView
  <2> QED
    BY <1>2, <2>1, <2>2 DEF UpgradeInv, ViewOK, Outstanding
<1>7. LiveOK'
  BY <1>1 DEF UpgradeInv, LiveOK, InView, Live
<1>8. VerdictOK'
  <2> SUFFICES ASSUME NEW x \in Work \ forgot PROVE VerdictFor(x)'
    BY <1>1 DEF VerdictOK
  <2>1. VerdictFor(x)
    BY DEF UpgradeInv, VerdictOK
  <2>2. CASE verdict'[x] = verdict[x]
    BY <1>1, <2>1, <2>2 DEF VerdictFor, Live
  <2>3. CASE x = w /\ verdict'[x] = "failed"
    <3>1. \A i \in Slot : up[i].work # x
      BY <1>3, <2>3 DEF Launched
    <3>2. rec.work # x
      BY <3>1, UpgradeAssumption DEF UpgradeInv, RecOK
    <3> QED
      BY <1>1, <1>3, <2>3, <3>1, <3>2 DEF VerdictFor
  <2> QED
    BY <1>2, <2>2, <2>3
<1> QED
  BY <1>4, <1>5, <1>6, <1>7, <1>8, InvParts

\* reconcile_upgrade_record takes a result only from a record whose upgrader is
\* gone, or from one that no upgrader beats for.
LEMMA ReconciledIsGone ==
  ASSUME TypeInv, UpgradeInv, rec.work # NoWork, LocalStatus # "running", rec.work \notin forgot
  PROVE  \A i \in Slot : up[i].work = rec.work => ~ Live(i)
<1> SUFFICES ASSUME NEW i \in Slot, up[i].work = rec.work, Live(i) PROVE FALSE
  OBVIOUS
<1>1. PICK j \in Slot : /\ up[j].work = rec.work /\ up[j].pc \notin {"none", "start"}
                        /\ rec.status # "running" => up[j].pc = "gone"
  BY DEF UpgradeInv, RecOK
<1>2. j = i
  BY <1>1 DEF UpgradeInv, OnceOK
<1>3. CASE rec.status # "running"
  BY <1>1, <1>2, <1>3 DEF Live
<1>4. CASE rec.status = "running"
  <2>1. ~ beat
    BY <1>4 DEF LocalStatus
  <2> QED
    BY <1>1, <1>2, <2>1 DEF UpgradeInv, BeatOK
<1> QED
  BY <1>3, <1>4

LEMMA ReconcileRecordInv ==
  ASSUME TypeInv, UpgradeInv, ReconcileRecord PROVE UpgradeInv'
<1>1. /\ UNCHANGED <<verdict, wexe, exe, todo, up, launches, rec, beat, wiped, forgot>>
      /\ pc = "dispatch" /\ todo = {}
  BY DEF ReconcileRecord, gateway, view, wiped
<1>2. \/ /\ rec.work # NoWork /\ pc' = "report"
         /\ say' = [work |-> rec.work, local |-> LocalStatus]
      \/ pc' = "store"
  BY DEF ReconcileRecord
<1>3. ProcessInv'
  BY <1>1, ProcessInvKept, InvParts
<1>4. TodoOK'
  BY <1>1, <1>2 DEF TodoOK
<1>5. ViewOK' /\ LiveOK'
  BY <1>1, <1>2 DEF UpgradeInv, ViewOK, LiveOK, Launched, Outstanding, InView, Live
<1>6. SayOK'
  <2>1. CASE pc' = "store"
    BY <2>1 DEF SayOK
  <2>2. CASE /\ rec.work # NoWork /\ pc' = "report"
             /\ say' = [work |-> rec.work, local |-> LocalStatus]
    <3>1. say'.work = rec.work /\ say'.local = LocalStatus
      BY <2>2
    <3>2. say'.local # "running" /\ say'.work \notin forgot =>
            \A i \in Slot : up[i].work = say'.work => ~ Live(i)
      BY <2>2, <3>1, ReconciledIsGone
    <3>3. say'.local = "succeeded" =>
            \E i \in Slot : up[i].work = say'.work /\ up[i].status = "succeeded"
      BY <2>2, <3>1 DEF UpgradeInv, RecOK, LocalStatus
    <3>4. say'.local \in {"failed", "rolled_back"} =>
            rec # [work |-> say'.work, status |-> "succeeded"]
      BY <3>1 DEF LocalStatus
    <3> QED
      BY <1>1, <2>2, <3>2, <3>3, <3>4 DEF SayOK, Live
  <2> QED
    BY <1>2, <2>1, <2>2
<1>7. VerdictOK'
  BY <1>1 DEF UpgradeInv, VerdictOK, VerdictFor, Live
<1> QED
  BY <1>3, <1>4, <1>5, <1>6, <1>7, InvParts

LEMMA ReportResultInv ==
  ASSUME TypeInv, UpgradeInv, ReportResult PROVE UpgradeInv'
<1> DEFINE w == say.work
           status == ResultOf(say.local)
<1>1. /\ UNCHANGED <<wexe, todo, up, launches, rec, beat, wiped, forgot>>
      /\ pc = "report" /\ pc' = "store" /\ w \in Work /\ say.local \in Statuses
      /\ GatewayTakes(w, status) \/ ReportLost(w, status)
      /\ exe' = exe \/ (GatewayTakes(w, status) /\ exe' = [exe EXCEPT ![w] = say.local])
  BY TypeParts DEF ReportResult, view, wiped, AgentdType, AgentdOK, Statuses
<1>2. /\ status \in Verdicts
      /\ status = "running" <=> say.local = "running"
      /\ status = "succeeded" <=> say.local = "succeeded"
      /\ status = "failed" <=> say.local \in {"failed", "rolled_back"}
  BY <1>1 DEF ResultOf, Statuses, Verdicts
<1>3. /\ \A x \in Work \ {w} : verdict'[x] = verdict[x]
      /\ verdict'[w] = verdict[w] \/ (w \in Outstanding /\ verdict'[w] = status)
      /\ GatewayTakes(w, status) => (w \in Outstanding => verdict'[w] = status)
  BY <1>1, <1>2, GatewayTakesEffect, TypeParts
<1>4. exe \in [Work -> Executions] /\ todo = {} /\ verdict \in [Work -> Verdicts]
  BY <1>1, TypeParts DEF AgentdType, GatewayType, UpgradeInv, TodoOK
<1> HIDE DEF w, status
<1>5. ProcessInv'
  BY <1>1, ProcessInvKept, InvParts
<1>6. TodoOK' /\ SayOK'
  BY <1>1, <1>4 DEF TodoOK, SayOK
<1>7. \A x \in Work : InView(x) => InView(x)' \/ (x = w /\ say.local # "running")
  BY <1>1, <1>4 DEF InView, ExecutionInFlight
<1>8. ViewOK'
  <2> SUFFICES ASSUME NEW x \in Work \ forgot, Launched(x)
               PROVE  verdict'[x] # "none" /\ ((x \notin Outstanding)' \/ InView(x)')
    BY <1>1 DEF ViewOK, Launched
  <2>1. verdict[x] # "none" /\ (x \notin Outstanding \/ InView(x))
    BY DEF UpgradeInv, ViewOK
  <2>2. verdict'[x] # "none" /\ (x \notin Outstanding => (x \notin Outstanding)')
    BY <1>1, <1>2, <1>3, <2>1 DEF Outstanding, Statuses
  <2>3. CASE InView(x)'
    BY <2>2, <2>3
  <2>4. CASE InView(x) /\ ~ InView(x)'
    <3>1. x = w /\ say.local # "running" /\ exe' # exe
      BY <1>1, <1>7, <2>4 DEF InView
    <3>2. GatewayTakes(w, status) /\ status # "running" /\ status # "open"
      BY <1>1, <1>2, <3>1 DEF Verdicts, Statuses
    <3>3. (x \notin Outstanding)'
      BY <1>3, <2>2, <3>1, <3>2 DEF Outstanding
    <3> QED
      BY <2>2, <3>3
  <2> QED
    BY <2>1, <2>2, <2>3, <2>4
<1>9. LiveOK'
  <2> SUFFICES ASSUME NEW i \in Slot, Live(i), up[i].work \notin forgot, NEW x, x = up[i].work
               PROVE  InView(x)'
    BY <1>1 DEF LiveOK, Live, InView
  <2>1. x \in Work
    BY ProcessFields, TypeParts
  <2>2. InView(x)
    BY DEF UpgradeInv, LiveOK
  <2>3. ~ (x = w /\ say.local # "running")
    BY <1>1 DEF UpgradeInv, SayOK, w
  <2> QED
    BY <1>7, <2>1, <2>2, <2>3
<1>10. VerdictOK'
  <2> SUFFICES ASSUME NEW x \in Work \ forgot PROVE VerdictFor(x)'
    BY <1>1 DEF VerdictOK
  <2>1. VerdictFor(x)
    BY DEF UpgradeInv, VerdictOK
  <2>2. CASE verdict'[x] = verdict[x]
    BY <1>1, <2>1, <2>2 DEF VerdictFor, Live
  <2>3. CASE x = w /\ verdict'[x] = status
    <3>1. status = "succeeded" => \E i \in Slot : up[i].work = x /\ up[i].status = "succeeded"
      BY <1>1, <1>2, <2>3 DEF UpgradeInv, SayOK, w
    <3>2. status = "failed" => /\ \A i \in Slot : up[i].work = x => ~ Live(i)
                               /\ rec # [work |-> x, status |-> "succeeded"]
      BY <1>1, <1>2, <2>3 DEF UpgradeInv, SayOK, w
    <3> QED
      BY <1>1, <1>4, <2>3, <3>1, <3>2 DEF VerdictFor, Live
  <2> QED
    BY <1>3, <2>2, <2>3
<1> QED
  BY <1>5, <1>6, <1>8, <1>9, <1>10, InvParts

LEMMA StoreViewInv ==
  ASSUME TypeInv, UpgradeInv, StoreView PROVE UpgradeInv'
<1>1. /\ UNCHANGED <<verdict, exe, todo, up, launches, rec, beat, wiped, forgot>>
      /\ pc = "store" /\ pc' = "idle"
  BY DEF StoreView, gateway, wiped
<1>2. ProcessInv'
  BY <1>1, ProcessInvKept, InvParts
<1>3. TodoOK' /\ SayOK'
  BY <1>1 DEF UpgradeInv, TodoOK, SayOK, Launched
<1>4. ViewOK' /\ LiveOK'
  BY <1>1 DEF UpgradeInv, ViewOK, LiveOK, Launched, Outstanding, InView, Live
<1>5. VerdictOK'
  BY <1>1 DEF UpgradeInv, VerdictOK, VerdictFor, Live
<1> QED
  BY <1>2, <1>3, <1>4, <1>5, InvParts

LEMMA AgentdStartsInv ==
  ASSUME TypeInv, UpgradeInv, AgentdStarts PROVE UpgradeInv'
<1>1. /\ UNCHANGED <<verdict, wexe, todo, up, launches, rec, beat, wiped, forgot>>
      /\ pc = "down" /\ pc' = "idle" /\ exe' = wexe
  BY DEF AgentdStarts, RestoreView, gateway, view, wiped
<1>2. ProcessInv'
  BY <1>1, ProcessInvKept, InvParts
<1>3. TodoOK' /\ SayOK'
  BY <1>1 DEF UpgradeInv, TodoOK, SayOK, Launched
<1>4. ViewOK' /\ LiveOK'
  BY <1>1 DEF UpgradeInv, ViewOK, LiveOK, Launched, Outstanding, InView, Live
<1>5. VerdictOK'
  BY <1>1 DEF UpgradeInv, VerdictOK, VerdictFor, Live
<1> QED
  BY <1>2, <1>3, <1>4, <1>5, InvParts

LEMMA HeartbeatExpiresInv ==
  ASSUME TypeInv, UpgradeInv, HeartbeatExpires PROVE UpgradeInv'
<1>1. /\ UNCHANGED <<verdict, wexe, exe, todo, say, pc, up, launches, rec, wiped, forgot>>
      /\ \A i \in Slot : ~ Live(i) \/ up[i].pc = "start"
  BY DEF HeartbeatExpires, gateway, view, agentd, wiped
<1>2. BeatOK'
  BY <1>1 DEF BeatOK, Live
<1>3. SlotsOK' /\ OnceOK' /\ StatusOK'
  BY <1>1 DEF UpgradeInv, SlotsOK, OnceOK, StatusOK
<1>4. RecOK'
  BY <1>1 DEF UpgradeInv, RecOK
<1>5. TodoOK' /\ SayOK'
  BY <1>1 DEF UpgradeInv, TodoOK, SayOK, Launched, Live
<1>6. ViewOK' /\ LiveOK'
  BY <1>1 DEF UpgradeInv, ViewOK, LiveOK, Launched, Outstanding, InView, Live
<1>7. VerdictOK'
  BY <1>1 DEF UpgradeInv, VerdictOK, VerdictFor, Live
<1> QED
  BY <1>2, <1>3, <1>4, <1>5, <1>6, <1>7 DEF UpgradeInv

\* agentd that goes away forgets only works it counts in forgot: of every other
\* work work.json knows what agentd knew.
LEMMA GoneKeepsView ==
  ASSUME TypeInv, AgentdGone, UNCHANGED view, NEW w \in Work, w \notin forgot', InView(w)
  PROVE  InView(w)'
BY DEF AgentdGone, Unstored, InView, view

LEMMA AgentdCrashesInv ==
  ASSUME TypeInv, UpgradeInv, AgentdCrashes PROVE UpgradeInv'
<1>1. /\ UNCHANGED <<verdict, view, up, launches, rec, beat>>
      /\ AgentdGone /\ pc' = "down" /\ todo' = {} /\ forgot \subseteq forgot'
  BY DEF AgentdCrashes, AgentdGone, gateway
<1>2. \A w \in Work : w \notin forgot' /\ InView(w) => InView(w)'
  BY <1>1, GoneKeepsView
<1>3. SlotsOK' /\ OnceOK' /\ StatusOK'
  BY <1>1 DEF UpgradeInv, SlotsOK, OnceOK, StatusOK
<1>4. RecOK'
  BY <1>1 DEF UpgradeInv, RecOK
<1>5. BeatOK'
  BY <1>1 DEF UpgradeInv, BeatOK, Live
<1>6. TodoOK' /\ SayOK'
  BY <1>1 DEF TodoOK, SayOK
<1>7. ViewOK'
  BY <1>1, <1>2 DEF UpgradeInv, ViewOK, Launched, Outstanding
<1>8. LiveOK'
  <2> SUFFICES ASSUME NEW i \in Slot, Live(i), up[i].work \notin forgot', NEW x, x = up[i].work
               PROVE  InView(x)'
    BY <1>1 DEF LiveOK, Live, InView
  <2>1. x \in Work
    BY ProcessFields, TypeParts
  <2>2. InView(x)
    BY <1>1 DEF UpgradeInv, LiveOK
  <2> QED
    BY <1>2, <2>1, <2>2
<1>9. VerdictOK'
  BY <1>1 DEF UpgradeInv, VerdictOK, VerdictFor, Live
<1> QED
  BY <1>3, <1>4, <1>5, <1>6, <1>7, <1>8, <1>9 DEF UpgradeInv

LEMMA UpgraderInv ==
  ASSUME TypeInv, UpgradeInv, NEW i \in Slot, NEW q, UpgraderEffect(i, q) PROVE UpgradeInv'
<1>1. /\ Live(i) /\ q.work = up[i].work /\ q.pc \notin {"none", "start"}
      /\ up'[i] = q /\ \A j \in Slot \ {i} : up'[j] = up[j]
  BY TypeParts DEF UpgraderEffect, GoesOn, UpgraderType
<1>2. \A j \in Slot : up'[j].work = up[j].work
  BY <1>1
<1>3. /\ UNCHANGED <<verdict, wexe, launches>> /\ UNCHANGED view
      /\ AgentdGone \/ UNCHANGED <<pc, exe, todo, say, forgot>>
      /\ forgot \subseteq forgot' /\ todo' \subseteq todo
  BY DEF UpgraderEffect, gateway, view, agentd, wiped, AgentdGone
<1>4. \A j \in Slot : Live(j)' => Live(j)
  BY <1>1 DEF Live
<1>5. up[i].status = "succeeded" => q.status = "succeeded" /\ q.pc = "gone"
  BY <1>1 DEF UpgraderEffect, StatusEffect, UpgradeInv, StatusOK, Live
<1>6. \A j \in Slot : up[j].status = "succeeded" => up'[j].status = "succeeded"
  BY <1>1, <1>5
<1>7. SlotsOK'
  BY <1>1, <1>3 DEF UpgradeInv, SlotsOK, Live
<1>8. OnceOK'
  BY <1>2, <1>3 DEF UpgradeInv, OnceOK
<1>9. StatusOK'
  BY <1>1, <1>5 DEF UpgraderEffect, StatusEffect, UpgradeInv, StatusOK
<1>10. BeatOK'
  BY <1>1 DEF UpgraderEffect, UpgradeInv, BeatOK, Live
<1>11. RecOK'
  <2>1. CASE rec' = rec
    <3> SUFFICES ASSUME rec.work # NoWork
                 PROVE  \E j \in Slot :
                          /\ up'[j].work = rec.work /\ up'[j].pc \notin {"none", "start"}
                          /\ rec.status # "running" => up'[j].pc = "gone" /\ up'[j].status = rec.status
      BY <2>1 DEF RecOK
    <3>1. PICK j \in Slot : /\ up[j].work = rec.work /\ up[j].pc \notin {"none", "start"}
                            /\ rec.status # "running" => up[j].pc = "gone" /\ up[j].status = rec.status
      BY DEF UpgradeInv, RecOK
    <3>2. CASE j = i
      BY <1>1, <3>1, <3>2 DEF Live
    <3>3. CASE j # i
      BY <1>1, <3>1, <3>3
    <3> QED
      BY <3>2, <3>3
  <2>2. CASE rec' = [work |-> up[i].work, status |-> "running"]
    BY <1>1, <2>2 DEF RecOK
  <2>3. CASE /\ up[i].pc = "finish" /\ q.pc = "gone"
             /\ rec' = [work |-> up[i].work, status |-> up[i].status]
    <3>1. q.status = up[i].status
      BY <2>3 DEF UpgraderEffect, StatusEffect
    <3> QED
      BY <1>1, <2>3, <3>1 DEF RecOK
  <2> QED
    BY <2>1, <2>2, <2>3 DEF UpgraderEffect, RecordEffect
<1>12. TodoOK'
  BY <1>2, <1>3 DEF UpgradeInv, TodoOK, Launched, AgentdGone
<1>13. \A w \in Work : w \notin forgot' /\ InView(w) => InView(w)'
  <2>1. CASE AgentdGone
    BY <1>3, <2>1, GoneKeepsView
  <2>2. CASE UNCHANGED <<pc, exe>>
    BY <1>3, <2>2 DEF InView
  <2> QED
    BY <1>3, <2>1, <2>2
<1>14. ViewOK'
  BY <1>2, <1>3, <1>13 DEF UpgradeInv, ViewOK, Launched, Outstanding
<1>15. LiveOK'
  <2> SUFFICES ASSUME NEW j \in Slot, Live(j)', up'[j].work \notin forgot', NEW x, x = up'[j].work
               PROVE  InView(x)'
    BY DEF LiveOK, InView
  <2>1. Live(j) /\ x = up[j].work /\ x \notin forgot
    BY <1>2, <1>3, <1>4
  <2>2. x \in Work
    BY <2>1, ProcessFields, TypeParts
  <2>3. InView(x)
    BY <2>1 DEF UpgradeInv, LiveOK
  <2> QED
    BY <1>13, <2>2, <2>3
\* A record is written only for a work whose upgrader lives.
<1>16. ASSUME NEW w, \A j \in Slot : up[j].work = w => ~ Live(j),
              rec # [work |-> w, status |-> "succeeded"]
       PROVE  rec' # [work |-> w, status |-> "succeeded"]
  BY <1>1, <1>16 DEF UpgraderEffect, RecordEffect
<1>17. SayOK'
  <2>1. CASE AgentdGone
    BY <2>1 DEF AgentdGone, SayOK
  <2>2. CASE UNCHANGED <<pc, exe, todo, say, forgot>>
    <3>1. pc = "report" /\ say.local # "running" /\ say.work \notin forgot =>
            \A j \in Slot : up'[j].work = say.work => ~ Live(j)'
      BY <1>2, <1>4 DEF UpgradeInv, SayOK
    <3>2. pc = "report" /\ say.local = "succeeded" =>
            \E j \in Slot : up'[j].work = say.work /\ up'[j].status = "succeeded"
      BY <1>2, <1>6 DEF UpgradeInv, SayOK
    <3>3. pc = "report" /\ say.local \in {"failed", "rolled_back"} /\ say.work \notin forgot =>
            rec' # [work |-> say.work, status |-> "succeeded"]
      BY <1>16 DEF UpgradeInv, SayOK
    <3>4. pc = "tell" => say.work \notin todo /\ (Launched(say.work)' => say.work \in forgot)
      BY <1>2, <2>2 DEF UpgradeInv, SayOK, Launched
    <3> QED
      BY <2>2, <3>1, <3>2, <3>3, <3>4 DEF SayOK, Launched
  <2> QED
    BY <1>3, <2>1, <2>2
<1>18. VerdictOK'
  <2> SUFFICES ASSUME NEW w \in Work \ forgot' PROVE VerdictFor(w)'
    BY DEF VerdictOK
  <2>1. VerdictFor(w)
    BY <1>3 DEF UpgradeInv, VerdictOK
  <2>2. verdict[w] = "succeeded" => \E j \in Slot : up'[j].work = w /\ up'[j].status = "succeeded"
    BY <1>2, <1>6, <2>1 DEF VerdictFor
  <2>3. verdict[w] = "failed" => \A j \in Slot : up'[j].work = w => ~ Live(j)'
    BY <1>2, <1>4, <2>1 DEF VerdictFor
  <2>4. verdict[w] = "failed" => rec' # [work |-> w, status |-> "succeeded"] /\ w \notin todo'
    BY <1>3, <1>16, <2>1 DEF VerdictFor
  <2> QED
    BY <1>3, <2>2, <2>3, <2>4 DEF VerdictFor
<1> QED
  BY <1>7, <1>8, <1>9, <1>10, <1>11, <1>12, <1>14, <1>15, <1>17, <1>18 DEF UpgradeInv

LEMMA InvStep == TypeInv /\ UpgradeInv /\ [Next]_vars => UpgradeInv'
<1> SUFFICES ASSUME TypeInv, UpgradeInv, [Next]_vars PROVE UpgradeInv'
  OBVIOUS
<1>1. CASE UNCHANGED vars
  <2>1. /\ UNCHANGED <<verdict, wexe, exe, todo, say, pc, up, launches, rec, beat, forgot>>
        /\ UNCHANGED wiped
    BY <1>1 DEF vars, gateway, view, agentd, wiped
  <2>2. ProcessInv'
    BY <2>1, ProcessInvKept, InvParts
  <2>3. TodoOK' /\ SayOK'
    BY <2>1 DEF UpgradeInv, TodoOK, SayOK, Launched, Live
  <2>4. ViewOK' /\ LiveOK'
    BY <2>1 DEF UpgradeInv, ViewOK, LiveOK, Launched, Outstanding, InView, Live
  <2>5. VerdictOK'
    BY <2>1 DEF UpgradeInv, VerdictOK, VerdictFor, Live
  <2> QED
    BY <2>2, <2>3, <2>4, <2>5, InvParts
<1>2. ASSUME NEW i \in Slot, UpgraderStep(i) \/ UpgraderDies(i) PROVE UpgradeInv'
  BY <1>2, UpgraderStepEffect, UpgraderInv
<1>3. CASE AgentdStep
  BY <1>3, FetchGrantInv, UpgradeBusyInv, DispatchUpgradeInv, DispatchRefusedInv, AckWorkInv,
     TellRejectedInv, ReconcileRecordInv, ReportResultInv, StoreViewInv, AgentdStartsInv DEF AgentdStep
<1> QED
  BY <1>1, <1>2, <1>3, AgentdCrashesInv, HeartbeatExpiresInv, GrantInv DEF Next

LEMMA InvHolds == Spec => [](TypeInv /\ UpgradeInv)
BY InitType, InitInv, TypeStep, InvStep, PTL DEF Spec

(***************************************************************************)
(* The properties.                                                         *)
(***************************************************************************)

\* What the gateway was told last is what the upgrader recorded: "succeeded"
\* only for an upgrader that ended so, and never "failed" for a work whose
\* record says it succeeded, however reports are lost and repeated and whenever
\* agentd or the upgrader dies (reconcile_upgrade_record, work_result_of).
THEOREM VerdictIsTrueHolds == Spec => []VerdictIsTrue
<1>1. TypeInv /\ UpgradeInv => VerdictIsTrue
  BY DEF UpgradeInv, VerdictOK, VerdictFor, VerdictIsTrue
<1> QED
  BY <1>1, InvHolds, PTL

\* Two upgraders live at the same time only when agentd lost the dispatch of one
\* of them by going away before work.json was stored (has_upgrade_in_flight);
\* this part needs no systemd unit.
SecondIsForgotten ==
  \A i, j \in Slot : i # j /\ Live(i) /\ Live(j) => up[i].work \in forgot \/ up[j].work \in forgot

LEMMA SecondStep == TypeInv /\ UpgradeInv /\ SecondIsForgotten /\ [Next]_vars => SecondIsForgotten'
<1> SUFFICES ASSUME TypeInv, UpgradeInv, SecondIsForgotten, [Next]_vars PROVE SecondIsForgotten'
  OBVIOUS
<1>1. CASE UNCHANGED up /\ forgot \subseteq forgot'
  BY <1>1 DEF SecondIsForgotten, Live
<1>2. ASSUME NEW i \in Slot, UpgraderStep(i) \/ UpgraderDies(i) PROVE SecondIsForgotten'
  <2>1. PICK q : UpgraderEffect(i, q)
    BY <1>2, UpgraderStepEffect
  <2>2. /\ Live(i) /\ forgot \subseteq forgot' /\ q.work = up[i].work
        /\ up'[i] = q /\ \A j \in Slot \ {i} : up'[j] = up[j]
    BY <2>1, TypeParts DEF UpgraderEffect, GoesOn, UpgraderType, AgentdGone, wiped
  <2> QED
    BY <2>2 DEF SecondIsForgotten, Live
<1>3. ASSUME NEW w \in Work, DispatchUpgrade(w) PROVE SecondIsForgotten'
  <2>1. /\ launches' \in Slot /\ up' = [up EXCEPT ![launches'] = UpgraderFor(w)]
        /\ up \in [Slot -> Process]
    BY <1>3, DispatchUpgradeType, TypeParts DEF UpgraderType
  <2>2. UNCHANGED forgot
    BY <1>3 DEF DispatchUpgrade, wiped
  <2>3. \A i \in Slot \ {launches'} : up'[i] = up[i]
    BY <2>1
  <2> QED
    BY <1>3, <2>2, <2>3, DispatchAlone DEF SecondIsForgotten, Live
<1>4. ASSUME NEW w \in Work, UpgradeBusy(w) \/ DispatchRefused(w) \/ Grant(w) \/ Withdraw(w)
      PROVE  SecondIsForgotten'
  BY <1>1, <1>4 DEF UpgradeBusy, DispatchRefused, Grant, Withdraw, wiped
<1>5. CASE FetchGrant \/ AckWork \/ TellRejected \/ ReconcileRecord \/ ReportResult \/ StoreView
  BY <1>1, <1>5 DEF FetchGrant, AckWork, TellRejected, ReconcileRecord, ReportResult, StoreView, wiped
<1>6. CASE AgentdStarts \/ AgentdCrashes \/ HeartbeatExpires
  BY <1>1, <1>6 DEF AgentdStarts, AgentdCrashes, AgentdGone, HeartbeatExpires, wiped
<1>7. CASE UNCHANGED vars
  BY <1>1, <1>7 DEF vars, wiped
<1> QED
  BY <1>2, <1>3, <1>4, <1>5, <1>6, <1>7 DEF Next, AgentdStep

\* A second upgrader is one of a dispatch that agentd forgot, for any number of works
\* and launches (has_upgrade_in_flight).
THEOREM SecondIsForgottenHolds == Spec => []SecondIsForgotten
<1>1. Init => SecondIsForgotten
  BY DEF Init, NoProcess, SecondIsForgotten, Live
<1> QED
  BY <1>1, SecondStep, InvHolds, PTL DEF Spec

\* With systemd units, two upgraders that live are never of one work.
LEMMA UnitsDiffer ==
  ASSUME Units
  PROVE  Spec => [](\A i, j \in Slot : i # j /\ Live(i) /\ Live(j) => up[i].work # up[j].work)
<1> DEFINE Differ == \A i, j \in Slot : i # j /\ Live(i) /\ Live(j) => up[i].work # up[j].work
<1>1. Init => Differ
  BY DEF Init, NoProcess, Live
<1>2. TypeInv /\ Differ /\ [Next]_vars => Differ'
  <2> SUFFICES ASSUME TypeInv, Differ, [Next]_vars PROVE Differ'
    OBVIOUS
  <2>1. CASE UNCHANGED up
    BY <2>1 DEF Live
  <2>2. ASSUME NEW i \in Slot, UpgraderStep(i) \/ UpgraderDies(i) PROVE Differ'
    <3>1. PICK q : UpgraderEffect(i, q)
      BY <2>2, UpgraderStepEffect
    <3>2. /\ Live(i) /\ q.work = up[i].work
          /\ up'[i] = q /\ \A j \in Slot \ {i} : up'[j] = up[j]
      BY <3>1, TypeParts DEF UpgraderEffect, GoesOn, UpgraderType
    <3>3. \A j \in Slot : up'[j].work = up[j].work /\ (Live(j)' => Live(j))
      BY <3>2 DEF Live
    <3> QED
      BY <3>3
  <2>3. ASSUME NEW w \in Work, DispatchUpgrade(w) PROVE Differ'
    <3>1. /\ launches' \in Slot /\ up' = [up EXCEPT ![launches'] = UpgraderFor(w)]
          /\ UpgraderFor(w).work = w /\ up \in [Slot -> Process]
      BY <2>3, DispatchUpgradeType, TypeParts DEF UpgraderType
    <3>2. up'[launches'].work = w /\ \A i \in Slot \ {launches'} : up'[i] = up[i]
      BY <3>1
    <3>3. \A i \in Slot : Live(i) => up[i].work # w
      BY <2>3 DEF DispatchUpgrade, NameTaken
    <3>4. ASSUME NEW i \in Slot, NEW j \in Slot, i # j, Live(i)', Live(j)'
          PROVE  up'[i].work # up'[j].work
      <4>1. CASE i # launches' /\ j # launches'
        BY <3>2, <3>4, <4>1 DEF Live
      <4>2. CASE i = launches'
        BY <3>2, <3>3, <3>4, <4>2 DEF Live
      <4>3. CASE j = launches'
        BY <3>2, <3>3, <3>4, <4>3 DEF Live
      <4> QED
        BY <4>1, <4>2, <4>3
    <3> QED
      BY <3>4
  <2>4. ASSUME NEW w \in Work, UpgradeBusy(w) \/ DispatchRefused(w) \/ Grant(w) \/ Withdraw(w)
        PROVE  UNCHANGED up
    BY <2>4 DEF UpgradeBusy, DispatchRefused, Grant, Withdraw
  <2>5. CASE FetchGrant \/ AckWork \/ TellRejected \/ ReconcileRecord \/ ReportResult \/ StoreView
    BY <2>1, <2>5 DEF FetchGrant, AckWork, TellRejected, ReconcileRecord, ReportResult, StoreView
  <2>6. CASE AgentdStarts \/ AgentdCrashes \/ HeartbeatExpires
    BY <2>1, <2>6 DEF AgentdStarts, AgentdCrashes, HeartbeatExpires
  <2>7. CASE UNCHANGED vars
    BY <2>1, <2>7 DEF vars
  <2> QED
    BY <2>1, <2>2, <2>3, <2>4, <2>5, <2>6, <2>7 DEF Next, AgentdStep
<1> HIDE DEF Differ
<1>3. Spec => []Differ
  BY <1>1, <1>2, InvHolds, PTL DEF Spec
<1> QED
  BY <1>3 DEF Differ

\* Where upgraders run as systemd units named after the work, at most one
\* upgrader swaps the binaries at a time, but for a dispatch that agentd's
\* restart wiped out before work.json was stored, and never two of one work
\* (has_upgrade_in_flight, upgrader_unit_name).
THEOREM OneUpgraderHolds == ASSUME Units PROVE Spec => []OneUpgrader
<1>1. /\ SecondIsForgotten
      /\ \A i, j \in Slot : i # j /\ Live(i) /\ Live(j) => up[i].work # up[j].work
      => OneUpgrader
  BY DEF SecondIsForgotten, OneUpgrader
<1> QED
  BY <1>1, SecondIsForgottenHolds, UnitsDiffer, PTL

(***************************************************************************)
(* EndsWhole: what is installed at each step of an upgrade, while no       *)
(* dispatch was wiped out.                                                 *)
(***************************************************************************)

Early == {"none", "start", "fetch", "verify_digest", "stage", "verify_artifact"}
Swapping == {"copy", "copying", "swap"}
Swapped == {"restart", "wait_ready"}

\* The binaries before the one at hand are the package's; those a package
\* without companions leaves alone are not installed.
PackageAt(i) ==
  /\ up[i].pc \in Swapping \cup Swapped \cup {"undo"} =>
       \A b \in Bin : b > Staged(up[i].work) => bins[b] = 0
  /\ up[i].pc \in Swapping => \A b \in Bin : b < up[i].k => bins[b] = PkgVersion[up[i].work]
  /\ up[i].pc \in Swapped =>
       \A b \in Bin : b <= Staged(up[i].work) => bins[b] = PkgVersion[up[i].work]
  /\ up[i].pc = "undo" => up[i].m <= Staged(up[i].work)

\* No backup is of the version that is being installed; on the way back the
\* binaries done are not of that version any more.
Foreign(w) == \A b \in Bin, v \in Versions : baks[b][v] # PkgVersion[w]

BackupAt(i) ==
  /\ up[i].pc \in Swapping \cup Swapped \cup {"undo"} => Foreign(up[i].work)
  /\ up[i].pc \in Swapping => \A b \in Bin : b >= up[i].k => bins[b] # PkgVersion[up[i].work]
  /\ up[i].pc = "undo" =>
       /\ \A b \in Bin : b < up[i].k /\ b <= up[i].m => bins[b] # PkgVersion[up[i].work]
       /\ up[i].why # "install" => up[i].m = Staged(up[i].work)

\* A version is nowhere on the machine before its package is being installed.
Fresh(w) == \A i \in Slot : up[i].work = w => up[i].pc \in Early
FreshOK == \A w \in Work : Fresh(w) => Foreign(w) /\ \A b \in Bin : bins[b] # PkgVersion[w]

PackageOK == forgot = {} => \A i \in Slot : Live(i) => PackageAt(i)
BackupOK == forgot = {} => FreshOK /\ \A i \in Slot : Live(i) => BackupAt(i)

\* Each work brings a version of its own.
OwnVersions ==
  /\ \A w, x \in Work : PkgVersion[w] = PkgVersion[x] => w = x
  /\ \A w \in Work, b \in Bin : Installed[b] # PkgVersion[w]

\* An upgrader before the swap finds nothing of its version.
FreshAt(i) ==
  up[i].pc \in Early =>
    Foreign(up[i].work) /\ \A b \in Bin : bins[b] # PkgVersion[up[i].work]

\* What a step writes to the bin directory.
Writes(i) ==
  \/ UNCHANGED <<bins, baks>>
  \/ /\ up[i].pc \notin Early
     /\ \A b \in Bin : bins'[b] \in {bins[b], PkgVersion[up[i].work], 0, baks[b][up[i].from]}
     /\ \A b \in Bin, v \in Versions : baks'[b][v] \in {baks[b][v], Torn, bins[b]}

Advance(i) ==
  /\ up'[i].pc \in Early => up[i].pc \in Early
  /\ PackageAt(i) => PackageAt(i)'
  /\ PackageAt(i) /\ BackupAt(i) /\ FreshAt(i) => BackupAt(i)'
  /\ Writes(i)

\* Steps that install nothing and lead to no step that does.
LEMMA PlainAdvance ==
  ASSUME TypeInv, NEW i \in Slot, UNCHANGED <<bins, baks>>, up'[i].work = up[i].work,
         up'[i].pc \in Early => up[i].pc \in Early,
         up'[i].pc \in Swapped => up[i].pc \in Swapped,
         up'[i].pc \notin Swapping \cup {"undo"}
  PROVE  Advance(i)
BY DEF Advance, Writes, PackageAt, BackupAt, Foreign, Swapping, Swapped

\* The start of a rollback.
LEMMA UndoneAdvance ==
  ASSUME TypeInv, NEW i \in Slot, Live(i), NEW m \in 0..NBins, NEW why \in {"install", "restart"},
         RollsBack(i, m, why), UNCHANGED <<bins, baks>>,
         up[i].pc \in Swapping \cup Swapped, m <= Staged(up[i].work),
         why = "restart" => m = Staged(up[i].work)
  PROVE  Advance(i)
<1>1. up[i] \in Process /\ up \in [Slot -> Process]
  BY TypeParts, ProcessFields DEF UpgraderType
<1>2. up'[i] = [up[i] EXCEPT !.pc = "undo", !.k = 1, !.m = m, !.why = why]
  BY <1>1 DEF RollsBack
<1>3. /\ up'[i].work = up[i].work /\ up'[i].pc = "undo" /\ up'[i].k = 1
      /\ up'[i].m = m /\ up'[i].why = why
  BY <1>1, <1>2 DEF Process
<1>4. PackageAt(i) => PackageAt(i)'
  BY <1>3 DEF PackageAt, Swapping, Swapped, Staged
<1>5. \A b \in Bin : ~ (b < 1)
  BY DEF Bin
<1>6. BackupAt(i) => BackupAt(i)'
  BY <1>3, <1>5 DEF BackupAt, Swapping, Swapped, Foreign, Staged
<1> QED
  BY <1>3, <1>4, <1>6 DEF Advance, Writes, Early

LEMMA EarlyAdvance ==
  ASSUME TypeInv, NEW i \in Slot,
         \/ UpgraderStarts(i) \/ ArtifactUnusable(i)
         \/ FetchesPackage(i) \/ VerifiesDigest(i) \/ StagesPackage(i)
  PROVE  Advance(i)
<1>1. up[i].pc \in Early /\ Live(i) /\ UNCHANGED <<bins, baks>>
  BY DEF UpgraderStarts, ArtifactUnusable, FetchesPackage, VerifiesDigest, StagesPackage,
         ReadOnlyStep, Early, Live, machine
<1>2. \/ \E p \in {"fetch", "verify_digest", "stage", "verify_artifact"} : Goes(i, p)
      \/ Ends(i, "finish", "failed")
  BY DEF UpgraderStarts, ArtifactUnusable, FetchesPackage, VerifiesDigest, StagesPackage, ReadOnlyStep
<1>3. up \in [Slot -> Process]
  BY TypeParts DEF UpgraderType
<1>4. /\ up'[i].work = up[i].work
      /\ up'[i].pc \in {"fetch", "verify_digest", "stage", "verify_artifact", "finish"}
  BY <1>2, <1>3 DEF Goes, Ends, Process
<1> QED
  BY <1>1, <1>4, PlainAdvance DEF Early, Swapping, Swapped

LEMMA LateAdvance ==
  ASSUME TypeInv, NEW i \in Slot,
         Restores(i) \/ RestartsAgain(i) \/ Finishes(i) \/ UpgraderDies(i)
  PROVE  Advance(i)
<1>1. Live(i) /\ UNCHANGED <<bins, baks>>
  BY DEF Restores, RestartsAgain, Finishes, UpgraderDies, Live, machine
<1>2. \/ \E p \in {"finish", "gone"} : Goes(i, p)
      \/ \E p \in {"finish", "again"}, status \in {"failed", "rolled_back"} : Ends(i, p, status)
  BY DEF Restores, RestartsAgain, Finishes, UpgraderDies, AfterUndo
<1>3. up \in [Slot -> Process]
  BY TypeParts DEF UpgraderType
<1>4. up'[i].work = up[i].work /\ up'[i].pc \in {"finish", "gone", "again"}
  BY <1>2, <1>3 DEF Goes, Ends, Process
<1> QED
  BY <1>1, <1>4, PlainAdvance DEF Early, Swapping, Swapped

LEMMA InstallFailsAdvance ==
  ASSUME TypeInv, NEW i \in Slot, InstallFails(i) PROVE Advance(i)
<1>1. Live(i) /\ up[i].pc \in Swapping /\ UNCHANGED <<bins, baks>> /\ RollsBack(i, up[i].k - 1, "install")
  BY DEF InstallFails, Live, Swapping, machine
<1>2. up[i].k - 1 \in 0..NBins /\ up[i].k - 1 <= Staged(up[i].work)
  BY <1>1, ProcessFields, TypeParts DEF Bin, Swapping
<1> QED
  BY <1>1, <1>2, UndoneAdvance

LEMMA RestartAdvance ==
  ASSUME TypeInv, NEW i \in Slot, Restarts(i) \/ WaitsReady(i) PROVE Advance(i)
<1>1. Live(i) /\ up[i].pc \in Swapped /\ UNCHANGED <<bins, baks>>
  BY DEF Restarts, WaitsReady, Live, Swapped, machine
<1>2. Staged(up[i].work) \in 0..NBins /\ Staged(up[i].work) <= Staged(up[i].work)
  BY <1>1, ProcessFields, TypeParts DEF Bin
<1>3. CASE RollsBack(i, Staged(up[i].work), "restart")
  BY <1>1, <1>2, <1>3, UndoneAdvance
<1>4. CASE Goes(i, "wait_ready") \/ Ends(i, "finish", "succeeded")
  <2>1. up \in [Slot -> Process]
    BY TypeParts DEF UpgraderType
  <2>2. up'[i].work = up[i].work /\ up'[i].pc \in {"wait_ready", "finish"}
    BY <1>4, <2>1 DEF Goes, Ends, Process
  <2> QED
    BY <1>1, <2>2, PlainAdvance DEF Early, Swapping, Swapped
<1> QED
  BY <1>3, <1>4 DEF Restarts, WaitsReady

LEMMA ArtifactAdvance ==
  ASSUME TypeInv, NEW i \in Slot, VerifiesArtifact(i) PROVE Advance(i)
<1>1. Live(i) /\ up[i].pc = "verify_artifact" /\ UNCHANGED <<bins, baks>>
  BY DEF VerifiesArtifact, Live, machine
<1>2. up \in [Slot -> Process] /\ up[i] \in Process /\ up[i].work \in Work
  BY <1>1, ProcessFields, TypeParts DEF UpgraderType
<1>3. CASE Ends(i, "finish", "failed")
  <2>1. up'[i].work = up[i].work /\ up'[i].pc = "finish"
    BY <1>2, <1>3 DEF Ends, Process
  <2> QED
    BY <1>1, <2>1, PlainAdvance DEF Early, Swapping, Swapped
<1>4. CASE /\ KeepsBinDirectoryConsistent(up[i].work)
           /\ up' = [up EXCEPT ![i].pc = "copy", ![i].k = 1]
  <2>1. up'[i].work = up[i].work /\ up'[i].pc = "copy" /\ up'[i].k = 1
    BY <1>2, <1>4 DEF Process
  <2>2. \A b \in Bin : b > Staged(up[i].work) => bins[b] = 0
    BY <1>2, <1>4 DEF KeepsBinDirectoryConsistent, Staged, Bin
  <2>3. \A b \in Bin : ~ (b < 1)
    BY DEF Bin
  <2>4. PackageAt(i)'
    BY <1>1, <2>1, <2>2, <2>3 DEF PackageAt, Swapping, Swapped, Staged
  <2>5. FreshAt(i) => BackupAt(i)'
    BY <1>1, <2>1 DEF FreshAt, BackupAt, Early, Swapping, Swapped, Foreign
  <2> QED
    BY <1>1, <2>1, <2>4, <2>5 DEF Advance, Writes, Early
<1> QED
  BY <1>3, <1>4 DEF VerifiesArtifact

LEMMA BacksUpAdvance ==
  ASSUME TypeInv, NEW i \in Slot, BacksUp(i) PROVE Advance(i)
<1> DEFINE p == up[i]
<1>1. Live(i) /\ p.pc = "copy" /\ UNCHANGED bins
  BY DEF BacksUp, Live
<1>2. /\ up \in [Slot -> Process] /\ p \in Process /\ p.work \in Work /\ p.k \in Bin
      /\ baks \in [Bin -> [Versions -> Content]]
  BY <1>1, ProcessFields, TypeParts DEF UpgraderType, MachineType, Bin
<1>3. PICK next \in {"copying", "swap"} :
        up' = [up EXCEPT ![i].pc = next, ![i].before[p.k] = bins[p.k]]
  BY DEF BacksUp
<1>4. up'[i].work = p.work /\ up'[i].pc = next /\ up'[i].k = p.k
  BY <1>2, <1>3 DEF Process
<1>5. baks' = baks \/ baks' = [baks EXCEPT ![p.k][p.from] = Torn]
  BY DEF BacksUp
<1>6. \A b \in Bin, v \in Versions : baks'[b][v] \in {baks[b][v], Torn}
  <2>1. CASE baks' = baks
    BY <2>1
  <2>2. CASE baks' = [baks EXCEPT ![p.k][p.from] = Torn]
    BY <1>2, <2>2
  <2> QED
    BY <1>5, <2>1, <2>2
<1>7. PkgVersion[p.work] # Torn
  BY <1>2
<1>8. PackageAt(i) => PackageAt(i)'
  BY <1>1, <1>4 DEF PackageAt, Swapping, Swapped, Staged
<1>9. BackupAt(i) => BackupAt(i)'
  <2> SUFFICES ASSUME BackupAt(i) PROVE BackupAt(i)'
    OBVIOUS
  <2>1. Foreign(p.work) /\ \A b \in Bin : b >= p.k => bins[b] # PkgVersion[p.work]
    BY <1>1 DEF BackupAt, Swapping
  <2>2. \A b \in Bin, v \in Versions : baks'[b][v] # PkgVersion[p.work]
    BY <1>6, <1>7, <2>1 DEF Foreign
  <2> QED
    BY <1>1, <1>4, <2>1, <2>2 DEF BackupAt, Foreign, Swapping, Swapped
<1> QED
  BY <1>1, <1>4, <1>6, <1>8, <1>9 DEF Advance, Writes, Early

LEMMA BackedUpAdvance ==
  ASSUME TypeInv, NEW i \in Slot, BackedUp(i) PROVE Advance(i)
<1> DEFINE p == up[i]
<1>1. Live(i) /\ p.pc = "copying" /\ UNCHANGED bins /\ baks' = [baks EXCEPT ![p.k][p.from] = bins[p.k]]
  BY DEF BackedUp, Live
<1>2. /\ up \in [Slot -> Process] /\ p \in Process /\ p.k \in 1..Staged(p.work) /\ p.k \in Bin
      /\ baks \in [Bin -> [Versions -> Content]]
  BY <1>1, ProcessFields, TypeParts DEF UpgraderType, MachineType, Bin
<1>3. up'[i].work = p.work /\ up'[i].pc = "swap" /\ up'[i].k = p.k
  BY <1>2 DEF BackedUp, Goes, Process
<1>4. \A b \in Bin, v \in Versions :
        \/ baks'[b][v] = baks[b][v]
        \/ b = p.k /\ baks'[b][v] = bins[b]
  BY <1>1, <1>2
<1>5. PackageAt(i) => PackageAt(i)'
  BY <1>1, <1>3 DEF PackageAt, Swapping, Swapped, Staged
<1>6. BackupAt(i) => BackupAt(i)'
  <2> SUFFICES ASSUME BackupAt(i) PROVE BackupAt(i)'
    OBVIOUS
  <2>1. Foreign(p.work) /\ \A b \in Bin : b >= p.k => bins[b] # PkgVersion[p.work]
    BY <1>1 DEF BackupAt, Swapping
  <2>2. \A b \in Bin, v \in Versions : baks'[b][v] # PkgVersion[p.work]
    <3>1. p.k >= p.k
      BY <1>2 DEF Bin
    <3> QED
      BY <1>4, <2>1, <3>1 DEF Foreign
  <2> QED
    BY <1>1, <1>3, <2>1, <2>2 DEF BackupAt, Foreign, Swapping, Swapped
<1> QED
  BY <1>1, <1>3, <1>4, <1>5, <1>6 DEF Advance, Writes, Early

LEMMA SwapsAdvance ==
  ASSUME TypeInv, NEW i \in Slot, Swaps(i) PROVE Advance(i)
<1> DEFINE p == up[i]
<1>1. Live(i) /\ p.pc = "swap" /\ UNCHANGED baks /\ bins' = [bins EXCEPT ![p.k] = PkgVersion[p.work]]
  BY DEF Swaps, Live
<1>2. /\ up \in [Slot -> Process] /\ p \in Process
      /\ p.k \in 1..Staged(p.work) /\ Staged(p.work) \in Bin
      /\ bins \in [Bin -> Content]
  BY <1>1, ProcessFields, TypeParts DEF UpgraderType, MachineType
<1>3. \A b \in Bin : bins'[b] = IF b = p.k THEN PkgVersion[p.work] ELSE bins[b]
  BY <1>1, <1>2
<1>4. up'[i].work = p.work
  BY <1>2 DEF Swaps, Process
<1>5. \/ up'[i].pc = "copy" /\ up'[i].k = p.k + 1
      \/ up'[i].pc = "restart" /\ p.k = Staged(p.work)
  <2>1. CASE p.k < Staged(p.work)
    BY <1>2, <2>1 DEF Swaps, Process
  <2>2. CASE ~ (p.k < Staged(p.work))
    BY <1>2, <2>2 DEF Swaps, Process, Bin
  <2> QED
    BY <2>1, <2>2
<1>6. \A b \in Bin : b \in Nat
  BY DEF Bin
<1>7. PackageAt(i) => PackageAt(i)'
  <2> SUFFICES ASSUME PackageAt(i) PROVE PackageAt(i)'
    OBVIOUS
  <2>1. /\ \A b \in Bin : b > Staged(p.work) => bins[b] = 0
        /\ \A b \in Bin : b < p.k => bins[b] = PkgVersion[p.work]
    BY <1>1 DEF PackageAt, Swapping
  <2>2. \A b \in Bin : b > Staged(p.work) => bins'[b] = 0
    BY <1>2, <1>3, <1>6, <2>1
  <2>3. \A b \in Bin : b <= p.k => bins'[b] = PkgVersion[p.work]
    BY <1>2, <1>3, <1>6, <2>1
  <2>4. \A b \in Bin : b < p.k + 1 => b <= p.k
    BY <1>2, <1>6
  <2> QED
    BY <1>4, <1>5, <2>2, <2>3, <2>4 DEF PackageAt, Swapping, Swapped, Staged
<1>8. BackupAt(i) => BackupAt(i)'
  <2> SUFFICES ASSUME BackupAt(i) PROVE BackupAt(i)'
    OBVIOUS
  <2>1. Foreign(p.work) /\ \A b \in Bin : b >= p.k => bins[b] # PkgVersion[p.work]
    BY <1>1 DEF BackupAt, Swapping
  <2>2. \A b \in Bin : b >= p.k + 1 => bins'[b] # PkgVersion[p.work]
    <3>1. \A b \in Bin : b >= p.k + 1 => b >= p.k /\ b # p.k
      BY <1>2, <1>6
    <3> QED
      BY <1>3, <2>1, <3>1
  <2> QED
    BY <1>1, <1>4, <1>5, <2>1, <2>2 DEF BackupAt, Foreign, Swapping, Swapped
<1> QED
  BY <1>1, <1>3, <1>5, <1>7, <1>8 DEF Advance, Writes, Early

LEMMA RestoresBackupAdvance ==
  ASSUME TypeInv, NEW i \in Slot, RestoresBackup(i) PROVE Advance(i)
<1> DEFINE p == up[i]
<1>1. Live(i) /\ p.pc = "undo" /\ p.k <= p.m /\ UNCHANGED baks
  BY DEF RestoresBackup, Live
<1>2. /\ up \in [Slot -> Process] /\ p \in Process /\ p.work \in Work /\ p.from \in Versions
      /\ p.k \in Nat \ {0} /\ p.m \in Nat /\ p.m <= NBins /\ Staged(p.work) \in Bin
      /\ bins \in [Bin -> Content] /\ PkgVersion[p.work] # 0
  BY <1>1, ProcessFields, TypeParts DEF UpgraderType, MachineType
<1>3. p.k \in Bin
  BY <1>1, <1>2 DEF Bin
<1>4. CASE AfterUndo(i, FALSE) /\ UNCHANGED bins
  <2>1. up'[i].work = up[i].work /\ up'[i].pc \in {"finish", "again"}
    BY <1>2, <1>4 DEF AfterUndo, Ends, Process
  <2> QED
    BY <1>1, <1>4, <2>1, PlainAdvance DEF Early, Swapping, Swapped
<1>5. CASE /\ bins' = [bins EXCEPT ![p.k] = Restored(i)]
           /\ up' = [up EXCEPT ![i].k = p.k + 1]
  <2>1. /\ up'[i].work = p.work /\ up'[i].pc = "undo" /\ up'[i].k = p.k + 1
        /\ up'[i].m = p.m /\ up'[i].why = p.why
    BY <1>1, <1>2, <1>5 DEF Process
  <2>2. \A b \in Bin : bins'[b] = IF b = p.k THEN Restored(i) ELSE bins[b]
    BY <1>2, <1>5
  <2>3. Restored(i) \in {0, baks[p.k][p.from]}
    BY DEF Restored
  <2>4. PackageAt(i) => PackageAt(i)'
    <3> SUFFICES ASSUME PackageAt(i) PROVE PackageAt(i)'
      OBVIOUS
    <3>1. p.m <= Staged(p.work) /\ \A b \in Bin : b > Staged(p.work) => bins[b] = 0
      BY <1>1 DEF PackageAt
    <3>2. \A b \in Bin : b > Staged(p.work) => b # p.k
      BY <1>1, <1>2, <3>1 DEF Bin
    <3> QED
      BY <1>1, <2>1, <2>2, <3>1, <3>2 DEF PackageAt, Swapping, Swapped, Staged
  <2>5. BackupAt(i) => BackupAt(i)'
    <3> SUFFICES ASSUME BackupAt(i) PROVE BackupAt(i)'
      OBVIOUS
    <3>1. /\ Foreign(p.work)
          /\ \A b \in Bin : b < p.k /\ b <= p.m => bins[b] # PkgVersion[p.work]
          /\ p.why # "install" => p.m = Staged(p.work)
      BY <1>1 DEF BackupAt
    <3>2. Restored(i) # PkgVersion[p.work]
      BY <1>2, <1>3, <2>3, <3>1 DEF Foreign
    <3>3. \A b \in Bin : b < p.k + 1 => b < p.k \/ b = p.k
      BY <1>2 DEF Bin
    <3>4. \A b \in Bin : b < p.k + 1 /\ b <= p.m => bins'[b] # PkgVersion[p.work]
      BY <2>2, <3>1, <3>2, <3>3
    <3> QED
      BY <1>1, <2>1, <3>1, <3>4 DEF BackupAt, Foreign, Swapping, Swapped, Staged
  <2>6. Writes(i)
    BY <1>1, <2>2, <2>3 DEF Writes, Early
  <2> QED
    BY <1>1, <2>1, <2>4, <2>5, <2>6 DEF Advance, Early
<1> QED
  BY <1>4, <1>5 DEF RestoresBackup

LEMMA UpgraderAdvance ==
  ASSUME TypeInv, NEW i \in Slot, UpgraderStep(i) \/ UpgraderDies(i) PROVE Advance(i)
BY EarlyAdvance, ArtifactAdvance, BacksUpAdvance, BackedUpAdvance, SwapsAdvance, InstallFailsAdvance,
   RestartAdvance, RestoresBackupAdvance, LateAdvance DEF UpgraderStep

\* Every other step leaves the bin directory alone, and an upgrader it adds is
\* at its start.
LEMMA OthersAdvance ==
  ASSUME TypeInv, UpgradeInv, [Next]_vars, ~ \E i \in Slot : UpgraderStep(i) \/ UpgraderDies(i)
  PROVE  /\ UNCHANGED <<bins, baks>> /\ forgot \subseteq forgot'
         /\ \/ UNCHANGED up
            \/ \E n \in Slot : /\ up[n].pc = "none" /\ up'[n].pc = "start"
                               /\ (up[n].work = NoWork /\ up'[n].work \in Work)
                               /\ (Launched(up'[n].work) => up'[n].work \in forgot)
                               /\ \A j \in Slot \ {n} : up'[j] = up[j]
<1>1. CASE \E w \in Work : DispatchUpgrade(w)
  <2>1. PICK w \in Work : DispatchUpgrade(w)
    BY <1>1
  <2> DEFINE n == launches'
  <2>2. /\ n \in Slot /\ n = launches + 1 /\ up' = [up EXCEPT ![n] = UpgraderFor(w)]
        /\ UpgraderFor(w).pc = "start" /\ UpgraderFor(w).work = w
        /\ up \in [Slot -> Process] /\ launches \in Nat
    BY <2>1, DispatchUpgradeType, TypeParts DEF UpgraderType
  <2>3. up[n].pc = "none" /\ up[n].work = NoWork
    BY <2>2 DEF UpgradeInv, SlotsOK
  <2>4. /\ up'[n].pc = "start" /\ up'[n].work = w /\ \A j \in Slot \ {n} : up'[j] = up[j]
    BY <2>2
  <2>5. UNCHANGED <<bins, baks, forgot>> /\ (Launched(w) => w \in forgot)
    BY <2>1 DEF DispatchUpgrade, machine, wiped, UpgradeInv, TodoOK
  <2> QED
    BY <2>2, <2>3, <2>4, <2>5
<1>2. ASSUME NEW w \in Work, UpgradeBusy(w) \/ DispatchRefused(w) \/ Grant(w) \/ Withdraw(w)
      PROVE  UNCHANGED <<up, bins, baks, forgot>>
  BY <1>2 DEF UpgradeBusy, DispatchRefused, Grant, Withdraw, wiped, machine
<1>3. CASE FetchGrant \/ AckWork \/ TellRejected \/ ReconcileRecord \/ ReportResult \/ StoreView
  BY <1>3 DEF FetchGrant, AckWork, TellRejected, ReconcileRecord, ReportResult, StoreView, wiped, machine
<1>4. CASE AgentdStarts \/ AgentdCrashes \/ HeartbeatExpires
  BY <1>4 DEF AgentdStarts, AgentdCrashes, AgentdGone, HeartbeatExpires, wiped, machine
<1>5. CASE UNCHANGED vars
  BY <1>5 DEF vars, wiped, machine
<1> QED
  BY <1>1, <1>2, <1>3, <1>4, <1>5 DEF Next, AgentdStep

LEMMA PackageStep ==
  TypeInv /\ UpgradeInv /\ SecondIsForgotten /\ PackageOK /\ [Next]_vars => PackageOK'
<1> SUFFICES ASSUME TypeInv, UpgradeInv, SecondIsForgotten, PackageOK, [Next]_vars, forgot' = {},
                    NEW j \in Slot, Live(j)'
             PROVE  PackageAt(j)'
  BY DEF PackageOK
<1>1. ASSUME NEW i \in Slot, UpgraderStep(i) \/ UpgraderDies(i) PROVE PackageAt(j)'
  <2>1. PICK q : UpgraderEffect(i, q)
    BY <1>1, UpgraderStepEffect
  <2>2. /\ Live(i) /\ forgot = {} /\ \A n \in Slot \ {i} : up'[n] = up[n]
    BY <2>1, TypeParts DEF UpgraderEffect, UpgraderType, AgentdGone, wiped
  <2>3. j = i
    BY <2>2 DEF SecondIsForgotten, Live
  <2> QED
    BY <1>1, <2>2, <2>3, UpgraderAdvance DEF PackageOK, Advance
<1>2. CASE ~ \E i \in Slot : UpgraderStep(i) \/ UpgraderDies(i)
  <2>1. UNCHANGED <<bins, baks>> /\ forgot = {}
    BY <1>2, OthersAdvance
  <2>2. CASE up'[j] = up[j]
    BY <2>1, <2>2 DEF PackageOK, PackageAt, Live, Staged
  <2>3. CASE up'[j].pc = "start"
    BY <2>3 DEF PackageAt, Swapping, Swapped
  <2> QED
    BY <1>2, <2>2, <2>3, OthersAdvance
<1> QED
  BY <1>1, <1>2

LEMMA BackupInit == ASSUME OwnVersions PROVE Init => BackupOK
<1> SUFFICES ASSUME Init PROVE FreshOK /\ \A i \in Slot : ~ Live(i)
  BY DEF BackupOK
<1>1. \A i \in Slot : ~ Live(i)
  BY DEF Init, NoProcess, Live
<1>2. FreshOK
  <2>1. \A w \in Work, b \in Bin : bins[b] # PkgVersion[w]
    BY DEF Init, OwnVersions
  <2>2. \A w \in Work, b \in Bin, v \in Versions : baks[b][v] # PkgVersion[w]
    BY DEF Init
  <2> QED
    BY <2>1, <2>2 DEF FreshOK, Foreign
<1> QED
  BY <1>1, <1>2

\* While nothing was wiped out, an upgrader is the only one its work ever had.
LEMMA OwnSlot ==
  ASSUME TypeInv, UpgradeInv, forgot = {}, NEW i \in Slot, Live(i), FreshOK
  PROVE  FreshAt(i)
<1>1. up[i].work \in Work
  BY ProcessFields, TypeParts
<1>2. \A j \in Slot : up[j].work = up[i].work => j = i
  BY <1>1 DEF UpgradeInv, OnceOK
<1> QED
  BY <1>1, <1>2 DEF FreshAt, FreshOK, Fresh

LEMMA BackupStep ==
  ASSUME OwnVersions
  PROVE  /\ TypeInv /\ UpgradeInv /\ SecondIsForgotten /\ PackageOK /\ BackupOK
         /\ [Next]_vars
         => BackupOK'
<1> SUFFICES ASSUME TypeInv, UpgradeInv, SecondIsForgotten, PackageOK, BackupOK, [Next]_vars,
                    forgot' = {}
             PROVE  FreshOK' /\ \A j \in Slot : Live(j)' => BackupAt(j)'
  BY DEF BackupOK
<1>1. ASSUME NEW i \in Slot, UpgraderStep(i) \/ UpgraderDies(i)
      PROVE  FreshOK' /\ \A j \in Slot : Live(j)' => BackupAt(j)'
  <2>1. PICK q : UpgraderEffect(i, q)
    BY <1>1, UpgraderStepEffect
  <2>2. /\ Live(i) /\ forgot = {} /\ \A n \in Slot \ {i} : up'[n] = up[n]
        /\ up'[i].work = up[i].work
    BY <2>1, TypeParts DEF UpgraderEffect, UpgraderType, AgentdGone, wiped, GoesOn
  <2>3. Advance(i) /\ FreshOK /\ BackupAt(i) /\ PackageAt(i) /\ FreshAt(i)
    BY <1>1, <2>2, UpgraderAdvance, OwnSlot DEF BackupOK, PackageOK
  <2>4. ASSUME NEW j \in Slot, Live(j)' PROVE BackupAt(j)'
    <3>1. j = i
      BY <2>2, <2>4 DEF SecondIsForgotten, Live
    <3> QED
      BY <2>3, <3>1 DEF Advance
  <2>5. ASSUME NEW w \in Work, Fresh(w)' PROVE Foreign(w)' /\ \A b \in Bin : bins'[b] # PkgVersion[w]
    <3>1. Fresh(w)
      BY <2>2, <2>3, <2>5 DEF Fresh, Advance
    <3>2. Foreign(w) /\ \A b \in Bin : bins[b] # PkgVersion[w]
      BY <2>3, <3>1 DEF FreshOK
    <3>3. CASE UNCHANGED <<bins, baks>>
      BY <3>2, <3>3 DEF Foreign
    <3>4. CASE ~ UNCHANGED <<bins, baks>>
      <4>1. /\ up[i].pc \notin Early
            /\ \A b \in Bin : bins'[b] \in {bins[b], PkgVersion[up[i].work], 0, baks[b][up[i].from]}
            /\ \A b \in Bin, v \in Versions : baks'[b][v] \in {baks[b][v], Torn, bins[b]}
        BY <2>3, <3>4 DEF Advance, Writes
      <4>2. up[i].work \in Work /\ up[i].from \in Versions
        BY <2>2, ProcessFields, TypeParts
      <4>3. PkgVersion[up[i].work] # PkgVersion[w]
        BY <3>1, <4>1, <4>2 DEF Fresh, OwnVersions
      <4>4. PkgVersion[w] # 0 /\ PkgVersion[w] # Torn
        OBVIOUS
      <4>5. \A b \in Bin : baks[b][up[i].from] # PkgVersion[w]
        BY <3>2, <4>2 DEF Foreign
      <4>6. \A b \in Bin : bins'[b] # PkgVersion[w]
        <5> TAKE b \in Bin
        <5>1. bins'[b] \in {bins[b], PkgVersion[up[i].work], 0, baks[b][up[i].from]}
          BY <4>1
        <5>2. bins[b] # PkgVersion[w] /\ baks[b][up[i].from] # PkgVersion[w]
          BY <3>2, <4>5
        <5> QED
          BY <4>3, <4>4, <5>1, <5>2
      <4>7. \A b \in Bin, v \in Versions : baks'[b][v] # PkgVersion[w]
        <5> TAKE b \in Bin, v \in Versions
        <5>1. baks'[b][v] \in {baks[b][v], Torn, bins[b]}
          BY <4>1
        <5>2. bins[b] # PkgVersion[w] /\ baks[b][v] # PkgVersion[w]
          BY <3>2 DEF Foreign
        <5> QED
          BY <4>4, <5>1, <5>2
      <4> QED
        BY <4>6, <4>7 DEF Foreign
    <3> QED
      BY <3>3, <3>4
  <2> QED
    BY <2>4, <2>5 DEF FreshOK
<1>2. CASE ~ \E i \in Slot : UpgraderStep(i) \/ UpgraderDies(i)
  <2>1. UNCHANGED <<bins, baks>> /\ forgot = {}
    BY <1>2, OthersAdvance
  <2>2. \A j \in Slot : up'[j] = up[j] \/ (up'[j].pc = "start" /\ up[j].work = NoWork)
    BY <1>2, OthersAdvance
  <2>3. ASSUME NEW j \in Slot, Live(j)' PROVE BackupAt(j)'
    <3>1. CASE up'[j] = up[j]
      BY <2>1, <2>3, <3>1 DEF BackupOK, BackupAt, Live, Foreign, Staged
    <3>2. CASE up'[j].pc = "start"
      BY <3>2 DEF BackupAt, Swapping, Swapped
    <3> QED
      BY <2>2, <3>1, <3>2
  <2>4. ASSUME NEW w \in Work, Fresh(w)' PROVE Fresh(w)
    BY <2>2, <2>4 DEF Fresh
  <2>5. FreshOK'
    BY <2>1, <2>4 DEF FreshOK, Foreign, BackupOK
  <2> QED
    BY <2>3, <2>5
<1> QED
  BY <1>1, <1>2

\* Only wait_for_version ends an upgrade with success.
LEMMA SuccessShape ==
  ASSUME TypeInv, UpgradeInv, [Next]_vars, NEW i \in Slot,
         up[i].pc = "wait_ready", up'[i].status = "succeeded"
  PROVE  SeesVersion(i)
<1>1. up \in [Slot -> Process] /\ up[i].status # "succeeded"
  BY TypeParts DEF UpgraderType, UpgradeInv, StatusOK
<1>2. UpgraderStep(i) \/ UpgraderDies(i)
  <2>1. ASSUME NEW j \in Slot, UpgraderStep(j) \/ UpgraderDies(j) PROVE j = i
    <3>1. PICK q : up' = [up EXCEPT ![j] = q]
      BY <2>1, UpgraderStepEffect DEF UpgraderEffect
    <3> QED
      BY <1>1, <3>1
  <2>2. CASE ~ \E j \in Slot : UpgraderStep(j) \/ UpgraderDies(j)
    BY <1>1, <2>2, OthersAdvance
  <2> QED
    BY <2>1, <2>2
<1>3. ~ UpgraderDies(i)
  BY <1>1 DEF UpgraderDies, Goes, Process
<1>4. WaitsReady(i)
  BY <1>2, <1>3 DEF UpgraderStep, UpgraderStarts, FetchesPackage, VerifiesDigest, StagesPackage,
     ReadOnlyStep, VerifiesArtifact, ArtifactUnusable, BacksUp, BackedUp, Swaps, InstallFails,
     Restarts, RestoresBackup, Restores, RestartsAgain, Finishes
<1> QED
  BY <1>1, <1>4 DEF WaitsReady, RollsBack, Process

\* Only a complete restore_backups ends an upgrade with a rollback.
LEMMA RollbackShape ==
  ASSUME TypeInv, UpgradeInv, [Next]_vars, NEW i \in Slot,
         up[i].status # "rolled_back", up'[i].status = "rolled_back"
  PROVE  up[i].pc = "undo" /\ up[i].k > up[i].m /\ up[i].why # "install"
<1>1. up \in [Slot -> Process]
  BY TypeParts DEF UpgraderType
<1>2. UpgraderStep(i) \/ UpgraderDies(i)
  <2>1. ASSUME NEW j \in Slot, UpgraderStep(j) \/ UpgraderDies(j) PROVE j = i
    <3>1. PICK q : up' = [up EXCEPT ![j] = q]
      BY <2>1, UpgraderStepEffect DEF UpgraderEffect
    <3> QED
      BY <1>1, <3>1
  <2>2. CASE ~ \E j \in Slot : UpgraderStep(j) \/ UpgraderDies(j)
    <3>1. up'[i] # up[i]
      OBVIOUS
    <3>2. PICK w \in Work : DispatchUpgrade(w)
      <4>1. ASSUME NEW w \in Work, UpgradeBusy(w) \/ DispatchRefused(w) \/ Grant(w) \/ Withdraw(w)
            PROVE  UNCHANGED up
        BY <4>1 DEF UpgradeBusy, DispatchRefused, Grant, Withdraw
      <4>2. CASE FetchGrant \/ AckWork \/ TellRejected \/ ReconcileRecord \/ ReportResult \/ StoreView
        BY <3>1, <4>2 DEF FetchGrant, AckWork, TellRejected, ReconcileRecord, ReportResult, StoreView
      <4>3. CASE AgentdStarts \/ AgentdCrashes \/ HeartbeatExpires \/ UNCHANGED vars
        BY <3>1, <4>3 DEF AgentdStarts, AgentdCrashes, HeartbeatExpires, vars
      <4> QED
        BY <2>2, <3>1, <4>1, <4>2, <4>3 DEF Next, AgentdStep
    <3>3. /\ up' = [up EXCEPT ![launches'] = UpgraderFor(w)] /\ UpgraderFor(w).status = "running"
      BY <3>2, DispatchUpgradeType
    <3> QED
      BY <1>1, <3>3
  <2> QED
    BY <2>1, <2>2
<1>3. ASSUME NEW p, Goes(i, p) PROVE FALSE
  BY <1>1, <1>3 DEF Goes, Process
<1>4. ASSUME NEW p, NEW status, Ends(i, p, status), status # "rolled_back" PROVE FALSE
  BY <1>1, <1>4 DEF Ends, Process
<1>5. ASSUME NEW m, NEW why, RollsBack(i, m, why) PROVE FALSE
  BY <1>1, <1>5 DEF RollsBack, Process
<1>6. ~ (UpgraderStarts(i) \/ FetchesPackage(i) \/ VerifiesDigest(i) \/ StagesPackage(i)
         \/ ArtifactUnusable(i))
  BY <1>3, <1>4 DEF UpgraderStarts, FetchesPackage, VerifiesDigest, StagesPackage, ReadOnlyStep, ArtifactUnusable
<1>7. ~ (VerifiesArtifact(i) \/ BacksUp(i) \/ BackedUp(i) \/ Swaps(i))
  <2>1. ~ VerifiesArtifact(i)
    BY <1>1, <1>4 DEF VerifiesArtifact, Process
  <2>2. ~ BacksUp(i)
    BY <1>1 DEF BacksUp, Process
  <2>3. ~ BackedUp(i)
    BY <1>3 DEF BackedUp
  <2>4. ~ Swaps(i)
    BY <1>1 DEF Swaps, Process
  <2> QED
    BY <2>1, <2>2, <2>3, <2>4
<1>8. ~ (InstallFails(i) \/ Restarts(i) \/ WaitsReady(i))
  BY <1>3, <1>4, <1>5 DEF InstallFails, Restarts, WaitsReady
<1>9. ~ (RestartsAgain(i) \/ Finishes(i) \/ UpgraderDies(i))
  BY <1>3 DEF RestartsAgain, Finishes, UpgraderDies
<1>10. ~ RestoresBackup(i)
  <2>1. ~ AfterUndo(i, FALSE)
    BY <1>4 DEF AfterUndo
  <2>2. up' # [up EXCEPT ![i].k = up[i].k + 1]
    BY <1>1 DEF Process
  <2> QED
    BY <2>1, <2>2 DEF RestoresBackup
<1>11. Restores(i)
  BY <1>2, <1>6, <1>7, <1>8, <1>9, <1>10 DEF UpgraderStep
<1>12. up[i].why # "install"
  BY <1>4, <1>11 DEF Restores, AfterUndo
<1> QED
  BY <1>11, <1>12 DEF Restores

\* An upgrade that reports success has seen the new agentd and has left no
\* binary of another version on the machine, while no dispatch was wiped out
\* (install_binaries, wait_for_version, check_upgrade_keeps_bin_directory_consistent).
SuccessIsWhole ==
  [][\A i \in Slot :
       forgot = {} /\ up[i].pc = "wait_ready" /\ up'[i].status = "succeeded" =>
         /\ rtv = PkgVersion[up[i].work]
         /\ \A b \in Bin : bins[b] \in {0, PkgVersion[up[i].work]}]_vars

LEMMA PackageHolds == Spec => []PackageOK
<1>1. Init => PackageOK
  BY DEF Init, NoProcess, PackageOK, Live
<1> QED
  BY <1>1, PackageStep, InvHolds, SecondIsForgottenHolds, PTL DEF Spec

LEMMA SuccessStep ==
  ASSUME TypeInv, UpgradeInv, PackageOK, [Next]_vars, NEW i \in Slot, forgot = {},
         up[i].pc = "wait_ready", up'[i].status = "succeeded"
  PROVE  /\ rtv = PkgVersion[up[i].work]
         /\ \A b \in Bin : bins[b] \in {0, PkgVersion[up[i].work]}
<1>1. rtv = PkgVersion[up[i].work]
  BY SuccessShape DEF SeesVersion
<1>2. PackageAt(i) /\ Live(i)
  BY DEF PackageOK, Live
<1>3. Staged(up[i].work) \in Bin
  BY <1>2, ProcessFields, TypeParts
<1>4. \A b \in Bin : b <= Staged(up[i].work) \/ b > Staged(up[i].work)
  BY <1>3 DEF Bin
<1> QED
  BY <1>1, <1>2, <1>4 DEF PackageAt, Swapped

\* Success is whole for every installation and every set of packages.
THEOREM SuccessIsWholeHolds == Spec => SuccessIsWhole
<1>1. TypeInv /\ UpgradeInv /\ PackageOK /\ [Next]_vars =>
        [\A i \in Slot :
           forgot = {} /\ up[i].pc = "wait_ready" /\ up'[i].status = "succeeded" =>
             /\ rtv = PkgVersion[up[i].work]
             /\ \A b \in Bin : bins[b] \in {0, PkgVersion[up[i].work]}]_vars
  BY SuccessStep
<1> QED
  BY <1>1, InvHolds, PackageHolds, PTL DEF Spec, SuccessIsWhole

LEMMA BackupHolds == ASSUME OwnVersions PROVE Spec => []BackupOK
BY BackupInit, BackupStep, InvHolds, SecondIsForgottenHolds, PackageHolds, PTL DEF Spec

\* A rollback that is complete leaves nothing of the package.
LEMMA RollbackStep ==
  ASSUME TypeInv, UpgradeInv, PackageOK, BackupOK, [Next]_vars, NEW i \in Slot, forgot = {},
         up[i].status # "rolled_back", up'[i].status = "rolled_back"
  PROVE  \A b \in Bin : bins[b] # PkgVersion[up[i].work]
<1>1. up[i].pc = "undo" /\ up[i].k > up[i].m /\ up[i].why # "install"
  BY RollbackShape
<1>2. PackageAt(i) /\ BackupAt(i) /\ Live(i)
  BY <1>1 DEF PackageOK, BackupOK, Live
<1>3. /\ up[i].work \in Work /\ Staged(up[i].work) \in Bin /\ PkgVersion[up[i].work] # 0
      /\ up[i].k \in Nat
  BY <1>2, ProcessFields, TypeParts
<1>4. up[i].m = Staged(up[i].work)
  BY <1>1, <1>2 DEF BackupAt
<1>5. ASSUME NEW b \in Bin PROVE b > Staged(up[i].work) \/ (b < up[i].k /\ b <= up[i].m)
  BY <1>1, <1>3, <1>4 DEF Bin
<1> QED
  BY <1>1, <1>2, <1>3, <1>5 DEF PackageAt, BackupAt

\* Where each work brings a version of its own, the machine is never left with
\* a mix of two versions and a verdict: an upgrade that ends "succeeded" has
\* replaced every binary that is installed, one that ends "rolled_back" has left
\* nothing of its package, whatever failed, crashed or was killed before
\* (install_binaries, restore_backups, apply).
THEOREM EndsWholeHolds == ASSUME OwnVersions PROVE Spec => EndsWhole
<1> DEFINE Ending ==
      \A i \in Slot : forgot = {} =>
        /\ up[i].pc = "wait_ready" /\ up'[i].status = "succeeded" =>
             /\ rtv = PkgVersion[up[i].work]
             /\ \A b \in Bin : bins[b] \in {0, PkgVersion[up[i].work]}
        /\ up[i].status # "rolled_back" /\ up'[i].status = "rolled_back" =>
             \A b \in Bin : bins[b] = PkgVersion[up[i].work] => up[i].before[b] = bins[b]
<1>1. TypeInv /\ UpgradeInv /\ PackageOK /\ BackupOK /\ [Next]_vars => [Ending]_vars
  BY SuccessStep, RollbackStep
<1>2. Spec => [][Ending]_vars
  <2> HIDE DEF Ending
  <2> QED
    BY <1>1, InvHolds, PackageHolds, BackupHolds, PTL DEF Spec
<1> QED
  BY <1>2 DEF EndsWhole


-----------------------------------------------------------------------------
(* The service command.                                                     *)

\* deactivate_commands: none of them launches anything.
StopNames == {"disable --now", "daemon-reload", "bootout"}

\* The memory of a service command.
Stages == {"idle", "enroll", "write", "commands", "status", "probed"}
ManagerCommands ==
  [name : StopNames \cup {"enable", "restart", "bootstrap"}, ignore_failure : BOOLEAN, retries : Nat]
CliShape ==
  cli \in [pc : Stages, req : Requests \cup {NoRequest}, todo : Seq(ManagerCommands),
           tries : Nat, failed : BOOLEAN, stopped : BOOLEAN]

\* Where a service command is says what was asked for.
StageOK ==
  /\ cli.pc \in {"enroll", "write"} => cli.req.action = "install"
  /\ cli.pc = "commands" => cli.req.action \in {"install", "uninstall"}
  /\ cli.pc \in {"idle", "status", "probed"} => cli.req.action \notin {"install", "uninstall"}

\* An uninstall has only commands left that stop, and what it has stopped stays
\* stopped, for nothing is left to restart.
Uninstalling == cli.pc = "commands" /\ cli.req.action = "uninstall"
OnlyStops == Uninstalling => \A k \in 1..Len(cli.todo) : cli.todo[k].name \in StopNames
StaysStopped == Uninstalling /\ cli.stopped => main = NoProc

LEMMA DeactivateShape ==
  /\ DeactivateCommands \in Seq(ManagerCommands)
  /\ \A k \in 1..Len(DeactivateCommands) : DeactivateCommands[k].name \in StopNames
<1> DEFINE a == Cmd("disable --now", TRUE, 0)
           b == Cmd("daemon-reload", FALSE, 0)
           c == Cmd("bootout", TRUE, 0)
<1>1. a \in ManagerCommands /\ a.name \in StopNames
  BY DEF Cmd, ManagerCommands, StopNames
<1>2. b \in ManagerCommands /\ b.name \in StopNames
  BY DEF Cmd, ManagerCommands, StopNames
<1>3. c \in ManagerCommands /\ c.name \in StopNames
  BY DEF Cmd, ManagerCommands, StopNames
<1>4. DeactivateCommands = IF platform = "systemd" THEN <<a, b>> ELSE <<c>>
  BY DEF DeactivateCommands
<1> HIDE DEF a, b, c
<1> QED
  BY <1>1, <1>2, <1>3, <1>4

LEMMA ActivateShape == ActivateCommands \in Seq(ManagerCommands)
<1> DEFINE a == Cmd("daemon-reload", FALSE, 0)
           b == Cmd("enable", FALSE, 0)
           c == Cmd("restart", FALSE, Retries)
           d == Cmd("bootout", TRUE, 0)
           e == Cmd("bootstrap", FALSE, Retries)
<1>0. Retries \in Nat
  BY ServiceAssumption
<1>1. a \in ManagerCommands /\ b \in ManagerCommands
  BY DEF Cmd, ManagerCommands, StopNames
<1>2. c \in ManagerCommands
  BY <1>0 DEF Cmd, ManagerCommands
<1>3. d \in ManagerCommands
  BY DEF Cmd, ManagerCommands, StopNames
<1>4. e \in ManagerCommands
  BY <1>0 DEF Cmd, ManagerCommands
<1>5. ActivateCommands = IF platform = "systemd" THEN <<a, b, c>> ELSE <<d, e, b>>
  BY DEF ActivateCommands
<1> HIDE DEF a, b, c, d, e
<1> QED
  BY <1>1, <1>2, <1>3, <1>4, <1>5

LEMMA IdleShapeOfCli ==
  IdleCli \in [pc : Stages, req : Requests \cup {NoRequest}, todo : Seq(ManagerCommands),
               tries : Nat, failed : BOOLEAN, stopped : BOOLEAN]
  BY DEF IdleCli, Stages

\* The memory of a service command keeps its shape.
LEMMA CliShapeStep == CliShape /\ [ServiceNext]_serviceVars => CliShape'
<1> SUFFICES ASSUME CliShape, [ServiceNext]_serviceVars PROVE CliShape'
  OBVIOUS
<1> USE DEF Says, Go, host, manager, serviceBounds, daemonFrame
<1>u. CASE UNCHANGED serviceVars
  BY <1>u DEF serviceVars, CliShape
<1>1. ASSUME NEW r \in Requests, RunService(r) PROVE CliShape'
  <2> DEFINE nowTodo == IF r.action = "uninstall" THEN DeactivateCommands ELSE <<>>
             nowPc == CASE r.action = "install" -> (IF r.token THEN "enroll" ELSE "write")
                     [] r.action = "uninstall" -> "commands"
                     [] OTHER -> "status"
  <2>1. nowTodo \in Seq(ManagerCommands) /\ nowPc \in Stages
    BY DeactivateShape DEF Stages
  <2>2. cli' = [IdleCli EXCEPT !.req = r, !.pc = nowPc, !.todo = nowTodo]
    BY <1>1 DEF RunService
  <2> HIDE DEF nowTodo, nowPc
  <2> QED
    BY <2>1, <2>2 DEF IdleCli, CliShape
<1>2. CASE EnrollFirst
  <2>1. cli' = IdleCli \/ cli' = [cli EXCEPT !.pc = "write", !.todo = <<>>]
    BY <1>2 DEF EnrollFirst, Says, Go
  <2>2. <<>> \in Seq(ManagerCommands)
    OBVIOUS
  <2> QED
    BY <2>1, <2>2, IdleShapeOfCli DEF CliShape, Stages
<1>3. CASE WriteDefinition
  <2>1. cli' = IdleCli \/ cli' = [cli EXCEPT !.pc = "commands", !.todo = ActivateCommands]
    BY <1>3 DEF WriteDefinition, AfterWrite, Says, Go
  <2> QED
    BY <2>1, IdleShapeOfCli, ActivateShape DEF CliShape, Stages
<1>4. CASE CommandWorks
  <2>1. cli' = [cli EXCEPT !.todo = Tail(@), !.tries = 0, !.failed = @ \/ FALSE,
                           !.stopped = @ \/ IsStop(Head(cli.todo).name)] /\ cli.todo # <<>>
    BY <1>4 DEF CommandWorks, Passed
  <2>2. IsStop(Head(cli.todo).name) \in BOOLEAN
    BY DEF IsStop
  <2>3. Tail(cli.todo) \in Seq(ManagerCommands) /\ cli.failed \in BOOLEAN /\ cli.stopped \in BOOLEAN
    BY <2>1 DEF CliShape
  <2> QED
    BY <2>1, <2>2, <2>3 DEF CliShape
<1>5. CASE CommandFails
  <2>1. \/ cli' = [cli EXCEPT !.tries = @ + 1]
        \/ \E failed \in BOOLEAN : cli' = [cli EXCEPT !.todo = Tail(@), !.tries = 0, !.failed = @ \/ failed, !.stopped = @ \/ FALSE]
    BY <1>5 DEF CommandFails, Passed
  <2>2. cli.todo # <<>>
    BY <1>5 DEF CommandFails
  <2>3. Tail(cli.todo) \in Seq(ManagerCommands) /\ cli.failed \in BOOLEAN /\ cli.stopped \in BOOLEAN /\ cli.tries \in Nat
    BY <2>2 DEF CliShape
  <2>4. CASE cli' = [cli EXCEPT !.tries = @ + 1]
    <3>1. cli.tries + 1 \in Nat
      BY <2>3
    <3>2. cli' = [cli EXCEPT !.tries = cli.tries + 1]
      BY <2>4 DEF CliShape
    <3> QED
      BY <3>1, <3>2 DEF CliShape
  <2>5. ASSUME NEW failed \in BOOLEAN,
               cli' = [cli EXCEPT !.todo = Tail(@), !.tries = 0, !.failed = @ \/ failed, !.stopped = @ \/ FALSE]
        PROVE  CliShape'
    BY <2>3, <2>5 DEF CliShape
  <2> QED
    BY <2>1, <2>4, <2>5
<1>6. CASE CommandsEnd
  BY <1>6, IdleShapeOfCli DEF CommandsEnd, CliShape, Stages
<1>7. CASE ProbeLock
  <2>1. cli' = IdleCli \/ cli' = [cli EXCEPT !.pc = "probed", !.todo = <<>>]
    BY <1>7 DEF ProbeLock, Says, Go
  <2>2. <<>> \in Seq(ManagerCommands)
    OBVIOUS
  <2> QED
    BY <2>1, <2>2, IdleShapeOfCli DEF CliShape, Stages
<1>8. CASE ProbeDone
  BY <1>8, IdleShapeOfCli DEF ProbeDone, CliShape, Stages
<1>9. CASE DefinitionWriteFails
  BY <1>9, IdleShapeOfCli DEF DefinitionWriteFails, CliShape, Stages
<1>10. CASE CommandMissing
  BY <1>10, IdleShapeOfCli DEF CommandMissing, CliShape, Stages
<1>11. CASE RemoveFails
  BY <1>11, IdleShapeOfCli DEF RemoveFails, CliShape, Stages
<1>12. CASE AcquireLock
  BY <1>12, IdleShapeOfCli DEF AcquireLock, CliShape, Stages
<1>13. CASE EnterLoop
  BY <1>13, IdleShapeOfCli DEF EnterLoop, CliShape, Stages
<1>14. CASE ManagerRestarts
  BY <1>14, IdleShapeOfCli DEF ManagerRestarts, CliShape, Stages
<1>15. CASE DaemonDies
  BY <1>15, IdleShapeOfCli DEF DaemonDies, CliShape, Stages
<1>16. CASE IntervalPasses
  BY <1>16, IdleShapeOfCli DEF IntervalPasses, CliShape, Stages
<1>17. CASE LeavingExits
  BY <1>17, IdleShapeOfCli DEF LeavingExits, CliShape, Stages
<1>17b. CASE HandExits
  BY <1>17b, IdleShapeOfCli DEF HandExits, CliShape, Stages
<1>17c. CASE HostChanges
  BY <1>17c, IdleShapeOfCli DEF HostChanges, CliShape, Stages
<1>18. CASE HandStarts
  BY <1>18, IdleShapeOfCli DEF HandStarts, CliShape, Stages
<1>19. CASE Boot
  BY <1>19, IdleShapeOfCli DEF Boot, CliShape, Stages
<1> QED
  BY <1>u, <1>1, <1>2, <1>3, <1>4, <1>5, <1>6, <1>7, <1>8, <1>9, <1>10, <1>11, <1>12, <1>13, <1>14, <1>15, <1>16, <1>17, <1>17b, <1>17c, <1>18, <1>19 DEF ServiceNext, CliStep, DaemonStep

\* Only run_service starts a command.
LEMMA StageStep == CliShape /\ StageOK /\ [ServiceNext]_serviceVars => StageOK'
<1> SUFFICES ASSUME CliShape, StageOK, [ServiceNext]_serviceVars PROVE StageOK'
  OBVIOUS
<1>c. /\ IdleCli.pc = "idle" /\ IdleCli.req.action = "none"
      /\ cli.pc \in Stages /\ cli.todo \in Seq(ManagerCommands) /\ cli.stopped \in BOOLEAN
  BY DEF CliShape, IdleCli, NoRequest
<1> USE DEF Says, Go, host, manager, serviceBounds, daemonFrame
<1>u. CASE UNCHANGED serviceVars
  BY <1>u, <1>c DEF serviceVars, StageOK
<1>1. ASSUME NEW r \in Requests, RunService(r) PROVE StageOK'
  <2>1. cli'.req = r /\ cli'.pc \in {"enroll", "write", "commands", "status"}
    BY <1>1 DEF RunService, IdleCli
  <2>2. /\ cli'.pc \in {"enroll", "write"} <=> r.action = "install"
        /\ cli'.pc = "commands" <=> r.action = "uninstall"
        /\ r.action = "uninstall" => cli'.todo = DeactivateCommands
        /\ cli'.stopped = FALSE
    BY <1>1 DEF RunService, IdleCli, Requests
  <2>3. r.action \in {"install", "uninstall", "status"}
    BY DEF Requests
  <2>4. UNCHANGED <<main, platform, defn, said>>
    BY <1>1 DEF RunService
  <2> QED
    BY <2>1, <2>2, <2>3 DEF StageOK
<1>2. CASE EnrollFirst
  BY <1>2, <1>c DEF EnrollFirst, StageOK, CliShape, Passed, AfterWrite
<1>3. CASE WriteDefinition
  BY <1>3, <1>c DEF WriteDefinition, StageOK, CliShape, Passed, AfterWrite
<1>4. CASE CommandWorks
  BY <1>4, <1>c DEF CommandWorks, StageOK, CliShape, Passed, AfterWrite
<1>5. CASE CommandFails
  BY <1>5, <1>c DEF CommandFails, StageOK, CliShape, Passed, AfterWrite
<1>6. CASE CommandsEnd
  BY <1>6, <1>c DEF CommandsEnd, StageOK, CliShape, Passed, AfterWrite
<1>7. CASE ProbeLock
  BY <1>7, <1>c DEF ProbeLock, StageOK, CliShape, Passed, AfterWrite
<1>8. CASE ProbeDone
  BY <1>8, <1>c DEF ProbeDone, StageOK, CliShape, Passed, AfterWrite
<1>9. CASE DefinitionWriteFails
  BY <1>9, <1>c DEF DefinitionWriteFails, StageOK, CliShape, Passed, AfterWrite
<1>10. CASE CommandMissing
  BY <1>10, <1>c DEF CommandMissing, StageOK, CliShape, Passed, AfterWrite
<1>11. CASE RemoveFails
  BY <1>11, <1>c DEF RemoveFails, StageOK, CliShape, Passed, AfterWrite
<1>12. CASE AcquireLock
  BY <1>12, <1>c DEF AcquireLock, StageOK, CliShape, Passed, AfterWrite
<1>13. CASE EnterLoop
  BY <1>13, <1>c DEF EnterLoop, StageOK, CliShape, Passed, AfterWrite
<1>14. CASE ManagerRestarts
  BY <1>14, <1>c DEF ManagerRestarts, StageOK, CliShape, Passed, AfterWrite
<1>15. CASE DaemonDies
  BY <1>15, <1>c DEF DaemonDies, StageOK, CliShape, Passed, AfterWrite
<1>16. CASE IntervalPasses
  BY <1>16, <1>c DEF IntervalPasses, StageOK, CliShape, Passed, AfterWrite
<1>17. CASE LeavingExits
  BY <1>17, <1>c DEF LeavingExits, StageOK, CliShape, Passed, AfterWrite
<1>17b. CASE HandExits
  BY <1>17b, <1>c DEF HandExits, StageOK, CliShape, Passed, AfterWrite
<1>17c. CASE HostChanges
  BY <1>17c, <1>c DEF HostChanges, StageOK, CliShape, Passed, AfterWrite
<1>18. CASE HandStarts
  BY <1>18, <1>c DEF HandStarts, StageOK, CliShape, Passed, AfterWrite
<1>19. CASE Boot
  BY <1>19, <1>c DEF Boot, StageOK, CliShape, Passed, AfterWrite
<1> QED
  BY <1>u, <1>1, <1>2, <1>3, <1>4, <1>5, <1>6, <1>7, <1>8, <1>9, <1>10, <1>11, <1>12, <1>13, <1>14, <1>15, <1>16, <1>17, <1>17b, <1>17c, <1>18, <1>19 DEF ServiceNext, CliStep, DaemonStep

\* An uninstall works through deactivate_commands.
LEMMA OnlyStopsStep == CliShape /\ StageOK /\ OnlyStops /\ [ServiceNext]_serviceVars => OnlyStops'
<1> SUFFICES ASSUME CliShape, StageOK, OnlyStops, [ServiceNext]_serviceVars PROVE OnlyStops'
  OBVIOUS
<1>c. /\ IdleCli.pc = "idle" /\ IdleCli.req.action = "none"
      /\ cli.pc \in Stages /\ cli.todo \in Seq(ManagerCommands) /\ cli.stopped \in BOOLEAN
  BY DEF CliShape, IdleCli, NoRequest
<1> USE DEF Says, Go, host, manager, serviceBounds, daemonFrame
<1>u. CASE UNCHANGED serviceVars
  BY <1>u, <1>c DEF serviceVars, OnlyStops, Uninstalling
<1>1. ASSUME NEW r \in Requests, RunService(r) PROVE OnlyStops'
  <2>1. cli'.req = r /\ cli'.pc \in {"enroll", "write", "commands", "status"}
    BY <1>1 DEF RunService, IdleCli
  <2>2. /\ cli'.pc \in {"enroll", "write"} <=> r.action = "install"
        /\ cli'.pc = "commands" <=> r.action = "uninstall"
        /\ r.action = "uninstall" => cli'.todo = DeactivateCommands
        /\ cli'.stopped = FALSE
    BY <1>1 DEF RunService, IdleCli, Requests
  <2>3. r.action \in {"install", "uninstall", "status"}
    BY DEF Requests
  <2>4. UNCHANGED <<main, platform, defn, said>>
    BY <1>1 DEF RunService
  <2> QED
    BY <2>1, <2>2, DeactivateShape DEF OnlyStops, Uninstalling
<1>2. CASE EnrollFirst
  BY <1>2, <1>c DEF EnrollFirst, OnlyStops, Uninstalling, CliShape, Passed
<1>3. CASE WriteDefinition
  <2>1. \/ UNCHANGED cli
        \/ cli' = IdleCli
        \/ /\ cli.pc = "write"
           /\ cli'.pc = "commands" /\ cli'.req = cli.req
    BY <1>3 DEF WriteDefinition, AfterWrite, Says, Go, CliShape
  <2> QED
    BY <1>c, <2>1 DEF StageOK, OnlyStops, Uninstalling
<1>4. CASE CommandWorks
  <2>1. cli.todo # <<>> /\ cli'.pc = cli.pc /\ cli'.req = cli.req /\ cli'.todo \in {cli.todo, Tail(cli.todo)}
    BY <1>4 DEF CommandWorks, Passed, CliShape
  <2>2. ASSUME Uninstalling, NEW k \in 1..Len(Tail(cli.todo)) PROVE Tail(cli.todo)[k].name \in StopNames
    <3>1. k + 1 \in 1..Len(cli.todo) /\ Tail(cli.todo)[k] = cli.todo[k + 1]
      BY <1>c, <2>1
    <3> QED
      BY <2>2, <3>1 DEF OnlyStops
  <2> QED
    BY <2>1, <2>2 DEF OnlyStops, Uninstalling
<1>5. CASE CommandFails
  <2>1. cli.todo # <<>> /\ cli'.pc = cli.pc /\ cli'.req = cli.req /\ cli'.todo \in {cli.todo, Tail(cli.todo)}
    BY <1>5 DEF CommandFails, Passed, CliShape
  <2>2. ASSUME Uninstalling, NEW k \in 1..Len(Tail(cli.todo)) PROVE Tail(cli.todo)[k].name \in StopNames
    <3>1. k + 1 \in 1..Len(cli.todo) /\ Tail(cli.todo)[k] = cli.todo[k + 1]
      BY <1>c, <2>1
    <3> QED
      BY <2>2, <3>1 DEF OnlyStops
  <2> QED
    BY <2>1, <2>2 DEF OnlyStops, Uninstalling
<1>6. CASE CommandsEnd
  BY <1>6, <1>c DEF CommandsEnd, OnlyStops, Uninstalling, CliShape, Passed
<1>7. CASE ProbeLock
  BY <1>7, <1>c DEF ProbeLock, OnlyStops, Uninstalling, CliShape, Passed
<1>8. CASE ProbeDone
  BY <1>8, <1>c DEF ProbeDone, OnlyStops, Uninstalling, CliShape, Passed
<1>9. CASE DefinitionWriteFails
  BY <1>9, <1>c DEF DefinitionWriteFails, OnlyStops, Uninstalling, CliShape, Passed
<1>10. CASE CommandMissing
  BY <1>10, <1>c DEF CommandMissing, OnlyStops, Uninstalling, CliShape, Passed
<1>11. CASE RemoveFails
  BY <1>11, <1>c DEF RemoveFails, OnlyStops, Uninstalling, CliShape, Passed
<1>12. CASE AcquireLock
  BY <1>12, <1>c DEF AcquireLock, OnlyStops, Uninstalling, CliShape, Passed
<1>13. CASE EnterLoop
  BY <1>13, <1>c DEF EnterLoop, OnlyStops, Uninstalling, CliShape, Passed
<1>14. CASE ManagerRestarts
  BY <1>14, <1>c DEF ManagerRestarts, OnlyStops, Uninstalling, CliShape, Passed
<1>15. CASE DaemonDies
  BY <1>15, <1>c DEF DaemonDies, OnlyStops, Uninstalling, CliShape, Passed
<1>16. CASE IntervalPasses
  BY <1>16, <1>c DEF IntervalPasses, OnlyStops, Uninstalling, CliShape, Passed
<1>17. CASE LeavingExits
  BY <1>17, <1>c DEF LeavingExits, OnlyStops, Uninstalling, CliShape, Passed
<1>17b. CASE HandExits
  BY <1>17b, <1>c DEF HandExits, OnlyStops, Uninstalling, CliShape, Passed
<1>17c. CASE HostChanges
  BY <1>17c, <1>c DEF HostChanges, OnlyStops, Uninstalling, CliShape, Passed
<1>18. CASE HandStarts
  BY <1>18, <1>c DEF HandStarts, OnlyStops, Uninstalling, CliShape, Passed
<1>19. CASE Boot
  BY <1>19, <1>c DEF Boot, OnlyStops, Uninstalling, CliShape, Passed
<1> QED
  BY <1>u, <1>1, <1>2, <1>3, <1>4, <1>5, <1>6, <1>7, <1>8, <1>9, <1>10, <1>11, <1>12, <1>13, <1>14, <1>15, <1>16, <1>17, <1>17b, <1>17c, <1>18, <1>19 DEF ServiceNext, CliStep, DaemonStep

\* Nothing the manager does on its own starts a service that was stopped.
LEMMA StaysStoppedStep == CliShape /\ StageOK /\ OnlyStops /\ StaysStopped /\ [ServiceNext]_serviceVars => StaysStopped'
<1> SUFFICES ASSUME CliShape, StageOK, OnlyStops, StaysStopped, [ServiceNext]_serviceVars PROVE StaysStopped'
  OBVIOUS
<1>c. /\ IdleCli.pc = "idle" /\ IdleCli.req.action = "none"
      /\ cli.pc \in Stages /\ cli.todo \in Seq(ManagerCommands) /\ cli.stopped \in BOOLEAN
  BY DEF CliShape, IdleCli, NoRequest
<1> USE DEF Says, Go, host, manager, serviceBounds, daemonFrame
<1>u. CASE UNCHANGED serviceVars
  BY <1>u, <1>c DEF serviceVars, StaysStopped, Uninstalling
<1>1. ASSUME NEW r \in Requests, RunService(r) PROVE StaysStopped'
  <2>1. cli'.req = r /\ cli'.pc \in {"enroll", "write", "commands", "status"}
    BY <1>1 DEF RunService, IdleCli
  <2>2. /\ cli'.pc \in {"enroll", "write"} <=> r.action = "install"
        /\ cli'.pc = "commands" <=> r.action = "uninstall"
        /\ r.action = "uninstall" => cli'.todo = DeactivateCommands
        /\ cli'.stopped = FALSE
    BY <1>1 DEF RunService, IdleCli, Requests
  <2>3. r.action \in {"install", "uninstall", "status"}
    BY DEF Requests
  <2>4. UNCHANGED <<main, platform, defn, said>>
    BY <1>1 DEF RunService
  <2> QED
    BY <2>2 DEF StaysStopped
<1>2. CASE EnrollFirst
  BY <1>2, <1>c DEF EnrollFirst, StaysStopped, Uninstalling, CliShape, Passed, NoProc, Exits, Launch, Stop
<1>3. CASE WriteDefinition
  <2>1. \/ UNCHANGED cli
        \/ cli' = IdleCli
        \/ /\ cli.pc = "write"
           /\ cli'.pc = "commands" /\ cli'.req = cli.req
    BY <1>3 DEF WriteDefinition, AfterWrite, Says, Go, CliShape
  <2>2. UNCHANGED main
    BY <1>3 DEF WriteDefinition
  <2> QED
    BY <1>c, <2>1, <2>2 DEF StageOK, StaysStopped, Uninstalling
<1>4. CASE CommandWorks
  <2> DEFINE c == Head(cli.todo)
  <2>1. cli.todo # <<>> /\ Effect(c.name) /\ cli'.pc = cli.pc /\ cli'.req = cli.req
    BY <1>4 DEF CommandWorks, Passed, CliShape
  <2>2. cli'.stopped => cli.stopped \/ IsStop(c.name)
    BY <1>4 DEF CommandWorks, Passed, CliShape
  <2>3. Uninstalling => c.name \in StopNames
    <3>1. c = cli.todo[1] /\ 1 \in 1..Len(cli.todo)
      BY <1>c, <2>1
    <3> QED
      BY <3>1 DEF OnlyStops
  <2> HIDE DEF c
  <2>4. CASE c.name = "daemon-reload"
    <3>1. UNCHANGED main
      BY <2>1, <2>4 DEF Effect
    <3>2. ~IsStop(c.name)
      BY <2>4 DEF IsStop
    <3> QED
      BY <2>1, <2>2, <3>1, <3>2 DEF StaysStopped, Uninstalling
  <2>5. CASE c.name \in {"disable --now", "bootout"}
    <3>1. main' = NoProc
      BY <2>1, <2>5 DEF Effect, Stop
    <3> QED
      BY <3>1 DEF StaysStopped
  <2> QED
    BY <2>1, <2>3, <2>4, <2>5 DEF StopNames, StaysStopped, Uninstalling
<1>5. CASE CommandFails
  <2>1. UNCHANGED main /\ cli'.pc = cli.pc /\ cli'.req = cli.req /\ cli'.stopped = cli.stopped
    BY <1>5 DEF CommandFails, Passed, CliShape
  <2> QED
    BY <2>1 DEF StaysStopped, Uninstalling
<1>6. CASE CommandsEnd
  BY <1>6, <1>c DEF CommandsEnd, StaysStopped, Uninstalling, CliShape, Passed, NoProc, Exits, Launch, Stop
<1>7. CASE ProbeLock
  BY <1>7, <1>c DEF ProbeLock, StaysStopped, Uninstalling, CliShape, Passed, NoProc, Exits, Launch, Stop
<1>8. CASE ProbeDone
  BY <1>8, <1>c DEF ProbeDone, StaysStopped, Uninstalling, CliShape, Passed, NoProc, Exits, Launch, Stop
<1>9. CASE DefinitionWriteFails
  BY <1>9, <1>c DEF DefinitionWriteFails, StaysStopped, Uninstalling, CliShape, Passed, NoProc, Exits, Launch, Stop
<1>10. CASE CommandMissing
  BY <1>10, <1>c DEF CommandMissing, StaysStopped, Uninstalling, CliShape, Passed, NoProc, Exits, Launch, Stop
<1>11. CASE RemoveFails
  BY <1>11, <1>c DEF RemoveFails, StaysStopped, Uninstalling, CliShape, Passed, NoProc, Exits, Launch, Stop
<1>12. CASE AcquireLock
  BY <1>12, <1>c DEF AcquireLock, StaysStopped, Uninstalling, CliShape, Passed, NoProc, Exits, Launch, Stop
<1>13. CASE EnterLoop
  BY <1>13, <1>c DEF EnterLoop, StaysStopped, Uninstalling, CliShape, Passed, NoProc, Exits, Launch, Stop
<1>14. CASE ManagerRestarts
  BY <1>14, <1>c DEF ManagerRestarts, StaysStopped, Uninstalling, CliShape, Passed, NoProc, Exits, Launch, Stop
<1>15. CASE DaemonDies
  BY <1>15, <1>c DEF DaemonDies, StaysStopped, Uninstalling, CliShape, Passed, NoProc, Exits, Launch, Stop
<1>16. CASE IntervalPasses
  BY <1>16, <1>c DEF IntervalPasses, StaysStopped, Uninstalling, CliShape, Passed, NoProc, Exits, Launch, Stop
<1>17. CASE LeavingExits
  BY <1>17, <1>c DEF LeavingExits, StaysStopped, Uninstalling, CliShape, Passed, NoProc, Exits, Launch, Stop
<1>17b. CASE HandExits
  BY <1>17b, <1>c DEF HandExits, StaysStopped, Uninstalling, CliShape, Passed, NoProc, Exits, Launch, Stop
<1>17c. CASE HostChanges
  BY <1>17c, <1>c DEF HostChanges, StaysStopped, Uninstalling, CliShape, Passed, NoProc, Exits, Launch, Stop
<1>18. CASE HandStarts
  BY <1>18, <1>c DEF HandStarts, StaysStopped, Uninstalling, CliShape, Passed, NoProc, Exits, Launch, Stop
<1>19. CASE Boot
  BY <1>19, <1>c DEF Boot, StaysStopped, Uninstalling, CliShape, Passed, NoProc, Exits, Launch, Stop
<1> QED
  BY <1>u, <1>1, <1>2, <1>3, <1>4, <1>5, <1>6, <1>7, <1>8, <1>9, <1>10, <1>11, <1>12, <1>13, <1>14, <1>15, <1>16, <1>17, <1>17b, <1>17c, <1>18, <1>19 DEF ServiceNext, CliStep, DaemonStep

\* The end of an uninstall, and what may follow it.
LEMMA UninstallStep == CliShape /\ StageOK /\ StageOK' /\ StaysStopped /\ UninstallStops /\ [ServiceNext]_serviceVars => UninstallStops'
<1> SUFFICES ASSUME CliShape, StageOK, StageOK', StaysStopped, UninstallStops, [ServiceNext]_serviceVars PROVE UninstallStops'
  OBVIOUS
<1>c. /\ IdleCli.pc = "idle" /\ IdleCli.req.action = "none"
      /\ cli.pc \in Stages /\ cli.todo \in Seq(ManagerCommands) /\ cli.stopped \in BOOLEAN
  BY DEF CliShape, IdleCli, NoRequest
<1> USE DEF Says, Go, host, manager, serviceBounds, daemonFrame, Changing
<1>u. CASE UNCHANGED serviceVars
  BY <1>u, <1>c DEF serviceVars, UninstallStops
<1>1. ASSUME NEW r \in Requests, RunService(r) PROVE UninstallStops'
  <2>1. cli'.req = r /\ cli'.pc \in {"enroll", "write", "commands", "status"}
    BY <1>1 DEF RunService, IdleCli
  <2>2. /\ cli'.pc \in {"enroll", "write"} <=> r.action = "install"
        /\ cli'.pc = "commands" <=> r.action = "uninstall"
        /\ r.action = "uninstall" => cli'.todo = DeactivateCommands
        /\ cli'.stopped = FALSE
    BY <1>1 DEF RunService, IdleCli, Requests
  <2>3. r.action \in {"install", "uninstall", "status"}
    BY DEF Requests
  <2>4. UNCHANGED <<main, platform, defn, said>>
    BY <1>1 DEF RunService
  <2>5. cli.req.action \notin {"install", "uninstall"}
    BY <1>1 DEF RunService, StageOK
  <2> QED
    BY <2>1, <2>2, <2>3, <2>4, <2>5 DEF UninstallStops
<1>2. CASE EnrollFirst
  <2>1. cli.req.action = "install"
    BY <1>2, <1>c DEF EnrollFirst, StageOK
  <2>2. \/ \E todo1 : cli' = [cli EXCEPT !.pc = "write", !.todo = todo1]
        \/ \E ok \in BOOLEAN : said' = [req |-> cli.req, ok |-> ok, stopped |-> cli.stopped]
    BY <1>2 DEF EnrollFirst, AfterWrite
  <2>3. cli'.pc = "write" \/ said'.req = cli.req
    <3>1. ASSUME NEW todo1, cli' = [cli EXCEPT !.pc = "write", !.todo = todo1] PROVE cli'.pc = "write"
      BY <3>1 DEF CliShape
    <3>2. ASSUME NEW ok \in BOOLEAN, said' = [req |-> cli.req, ok |-> ok, stopped |-> cli.stopped]
          PROVE said'.req = cli.req
      BY <3>2
    <3> QED
      BY <2>2, <3>1, <3>2
  <2> QED
    BY <2>1, <2>3 DEF UninstallStops, StageOK
<1>3. CASE WriteDefinition
  <2>1. cli.req.action = "install"
    BY <1>3, <1>c DEF WriteDefinition, StageOK
  <2>2. \/ \E todo1 : cli' = [cli EXCEPT !.pc = "commands", !.todo = todo1]
        \/ \E ok \in BOOLEAN : said' = [req |-> cli.req, ok |-> ok, stopped |-> cli.stopped]
    BY <1>3 DEF WriteDefinition, AfterWrite
  <2>3. cli'.pc = "commands" \/ said'.req = cli.req
    <3>1. ASSUME NEW todo1, cli' = [cli EXCEPT !.pc = "commands", !.todo = todo1] PROVE cli'.pc = "commands"
      BY <3>1 DEF CliShape
    <3>2. ASSUME NEW ok \in BOOLEAN, said' = [req |-> cli.req, ok |-> ok, stopped |-> cli.stopped]
          PROVE said'.req = cli.req
      BY <3>2
    <3> QED
      BY <2>2, <3>1, <3>2
  <2> QED
    BY <2>1, <2>3 DEF UninstallStops, StageOK
<1>4. CASE CommandWorks
  <2>1. cli'.pc = "commands"
    BY <1>4 DEF CommandWorks, Passed, CliShape
  <2> QED
    BY <2>1 DEF UninstallStops, StageOK
<1>5. CASE CommandFails
  <2>1. cli'.pc = "commands"
    BY <1>5 DEF CommandFails, Passed, CliShape
  <2> QED
    BY <2>1 DEF UninstallStops, StageOK
<1>6. CASE CommandsEnd
  BY <1>6, <1>c DEF CommandsEnd, UninstallStops, StaysStopped, Uninstalling, StageOK, CliShape, AfterWrite, NoProc, Exits
<1>7. CASE ProbeLock
  <2>1. UNCHANGED <<said, main, defn>> /\ cli.pc = "status"
    BY <1>7 DEF ProbeLock
  <2> QED
    BY <1>c, <2>1 DEF UninstallStops, StageOK
<1>8. CASE ProbeDone
  <2>1. UNCHANGED <<said, main, defn>> /\ cli.pc = "probed"
    BY <1>8 DEF ProbeDone
  <2> QED
    BY <1>c, <2>1 DEF UninstallStops, StageOK
<1>9. CASE DefinitionWriteFails
  BY <1>9, <1>c DEF DefinitionWriteFails, UninstallStops, StaysStopped, Uninstalling, StageOK, CliShape, AfterWrite, NoProc, Exits
<1>10. CASE CommandMissing
  BY <1>10, <1>c DEF CommandMissing, UninstallStops, StaysStopped, Uninstalling, StageOK, CliShape, AfterWrite, NoProc, Exits
<1>11. CASE RemoveFails
  BY <1>11, <1>c DEF RemoveFails, UninstallStops, StaysStopped, Uninstalling, StageOK, CliShape, AfterWrite, NoProc, Exits
<1>12. CASE AcquireLock
  BY <1>12, <1>c DEF AcquireLock, UninstallStops, StaysStopped, Uninstalling, StageOK, CliShape, AfterWrite, NoProc, Exits
<1>13. CASE EnterLoop
  BY <1>13, <1>c DEF EnterLoop, UninstallStops, StaysStopped, Uninstalling, StageOK, CliShape, AfterWrite, NoProc, Exits
<1>14. CASE ManagerRestarts
  BY <1>14, <1>c DEF ManagerRestarts, UninstallStops, StaysStopped, Uninstalling, StageOK, CliShape, AfterWrite, NoProc, Exits
<1>15. CASE DaemonDies
  BY <1>15, <1>c DEF DaemonDies, UninstallStops, StaysStopped, Uninstalling, StageOK, CliShape, AfterWrite, NoProc, Exits
<1>16. CASE IntervalPasses
  BY <1>16, <1>c DEF IntervalPasses, UninstallStops, StaysStopped, Uninstalling, StageOK, CliShape, AfterWrite, NoProc, Exits
<1>17. CASE LeavingExits
  BY <1>17, <1>c DEF LeavingExits, UninstallStops, StaysStopped, Uninstalling, StageOK, CliShape, AfterWrite, NoProc, Exits
<1>17b. CASE HandExits
  BY <1>17b, <1>c DEF HandExits, UninstallStops, StaysStopped, Uninstalling, StageOK, CliShape, AfterWrite, NoProc, Exits
<1>17c. CASE HostChanges
  BY <1>17c, <1>c DEF HostChanges, UninstallStops, StaysStopped, Uninstalling, StageOK, CliShape, AfterWrite, NoProc, Exits
<1>18. CASE HandStarts
  BY <1>18, <1>c DEF HandStarts, UninstallStops, StaysStopped, Uninstalling, StageOK, CliShape, AfterWrite, NoProc, Exits
<1>19. CASE Boot
  <2>1. Changing => said' = Unsaid
    BY <1>19 DEF Boot
  <2>2. Unsaid.ok = FALSE
    BY DEF Unsaid
  <2>3. ~Changing => UNCHANGED <<said, defn>> /\ (defn = None => main' = NoProc)
    BY <1>19 DEF Boot
  <2> QED
    BY <2>1, <2>2, <2>3 DEF UninstallStops
<1> QED
  BY <1>u, <1>1, <1>2, <1>3, <1>4, <1>5, <1>6, <1>7, <1>8, <1>9, <1>10, <1>11, <1>12, <1>13, <1>14, <1>15, <1>16, <1>17, <1>17b, <1>17c, <1>18, <1>19 DEF ServiceNext, CliStep, DaemonStep

-----------------------------------------------------------------------------
ServiceInv == CliShape /\ StageOK /\ OnlyStops /\ StaysStopped /\ UninstallStops

LEMMA ServiceInvInit == ServiceInit => ServiceInv
<1> SUFFICES ASSUME ServiceInit PROVE ServiceInv
  OBVIOUS
<1>1. CliShape
  BY IdleShapeOfCli DEF ServiceInit, CliShape
<1>2. cli.pc = "idle" /\ cli.req.action = "none" /\ said.ok = FALSE
  BY DEF ServiceInit, IdleCli, NoRequest, Unsaid
<1> QED
  BY <1>1, <1>2 DEF ServiceInv, StageOK, OnlyStops, StaysStopped, Uninstalling, UninstallStops

LEMMA ServiceInvStep == ServiceInv /\ [ServiceNext]_serviceVars => ServiceInv'
  BY CliShapeStep, StageStep, OnlyStopsStep, StaysStoppedStep, UninstallStep DEF ServiceInv

\* run_service_uninstall: for every set of definitions and every number of service
\* commands, retries, failures, kills, daemons started by hand and boots, an uninstall
\* that reported success and really stopped the service has left no daemon of the manager
\* and no definition, and none comes back until the next install or uninstall.
THEOREM UninstallStopsHolds == DeploySpec => []UninstallStops
<1>1. DeployInit => ServiceInv
  BY ServiceInvInit DEF DeployInit
<1>2. ServiceInv /\ [DeployNext]_deployVars => ServiceInv'
  <2> SUFFICES ASSUME ServiceInv, [DeployNext]_deployVars PROVE ServiceInv'
    OBVIOUS
  <2>1. [ServiceNext]_serviceVars
    BY DEF DeployNext, deployVars, Upgrading, Serving
  <2> QED
    BY <2>1, ServiceInvStep
<1>3. ServiceInv => UninstallStops
  BY DEF ServiceInv
<1> QED
  BY <1>1, <1>2, <1>3, PTL DEF DeploySpec

-----------------------------------------------------------------------------
(* The upgrades of a machine with a service.                                *)

\* Beside the service command an upgrade does what Upgrade says of it, so what is proved
\* of Upgrade holds of every behaviour of Deploy.
THEOREM DeployUpgrades == DeploySpec => Spec
<1>1. DeployInit => Init
  BY DEF DeployInit
<1>2. [DeployNext]_deployVars => [Next]_vars
  BY DEF DeployNext, deployVars, Upgrading, Serving
<1> QED
  BY <1>1, <1>2, PTL DEF DeploySpec, Spec

===============================================================================
