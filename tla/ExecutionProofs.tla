-------------------------- MODULE ExecutionProofs --------------------------
(***************************************************************************)
(* Theorems about Execution for every set of executions and every bound.   *)
(***************************************************************************)
EXTENDS Execution, FiniteSetTheorems, TLAPS

USE ExecutionAssumption

Distinct(q) == \A i, j \in 1..Len(q) : q[i] = q[j] => i = j

(***************************************************************************)
(* The two queue operations.                                               *)
(***************************************************************************)

\* ExecutionQueueState::remove drops the item and nothing else, and leaves a
\* queue without duplicates without duplicates.
LEMMA RemoveProperties ==
  ASSUME NEW S, NEW q \in Seq(S), NEW e, Distinct(q)
  PROVE  /\ Remove(q, e) \in Seq(S)
         /\ Distinct(Remove(q, e))
         /\ \A x : InQueue(x, Remove(q, e)) <=> InQueue(x, q) /\ x # e
<1>1. CASE ~ InQueue(e, q)
  BY <1>1 DEF Remove, InQueue
<1>2. CASE InQueue(e, q)
  <2> DEFINE k == CHOOSE i \in 1..Len(q) : q[i] = e
             r == [j \in 1..(Len(q) - 1) |-> IF j < k THEN q[j] ELSE q[j + 1]]
  <2>1. k \in 1..Len(q) /\ q[k] = e
    BY <1>2 DEF InQueue
  <2>2. Remove(q, e) = r
    BY <1>2 DEF Remove
  <2> HIDE DEF k
  <2>3. Len(q) \in Nat /\ \A i \in 1..Len(q) : q[i] \in S
    OBVIOUS
  <2>4. r \in Seq(S) /\ Len(r) = Len(q) - 1
    <3>1. Len(q) - 1 \in Nat
      BY <2>1, <2>3
    <3>2. \A j \in 1..(Len(q) - 1) : r[j] \in S
      BY <2>1, <2>3
    <3>3. r \in [1..(Len(q) - 1) -> S]
      BY <3>2
    <3> QED
      BY <3>1, <3>3
  <2>5. Distinct(r)
    <3> SUFFICES ASSUME NEW i \in 1..Len(r), NEW j \in 1..Len(r), r[i] = r[j]
                 PROVE  i = j
      BY DEF Distinct
    <3> DEFINE src(n) == IF n < k THEN n ELSE n + 1
    <3>1. ASSUME NEW n \in 1..Len(r) PROVE src(n) \in 1..Len(q) /\ r[n] = q[src(n)]
      BY <2>1, <2>3, <2>4
    <3>2. q[src(i)] = q[src(j)]
      BY <3>1
    <3>3. src(i) = src(j)
      BY <3>1, <3>2 DEF Distinct
    <3> QED
      BY <3>3, <2>1, <2>4
  <2>6. ASSUME NEW x PROVE InQueue(x, r) <=> InQueue(x, q) /\ x # e
    <3>1. ASSUME NEW j \in 1..Len(r), r[j] = x PROVE InQueue(x, q) /\ x # e
      BY <3>1, <2>1, <2>3, <2>4 DEF InQueue, Distinct
    <3>2. ASSUME NEW i \in 1..Len(q), q[i] = x, x # e PROVE InQueue(x, r)
      <4>1. CASE i < k
        <5>1. i \in 1..Len(r) /\ r[i] = x
          BY <3>2, <4>1, <2>1, <2>3, <2>4
        <5> QED BY <5>1 DEF InQueue
      <4>2. CASE i > k
        <5>1. i - 1 \in 1..Len(r) /\ r[i - 1] = x
          BY <3>2, <4>2, <2>1, <2>3, <2>4
        <5> QED BY <5>1 DEF InQueue
      <4> QED
        BY <4>1, <4>2, <3>2, <2>1, <2>3
    <3> QED
      BY <3>1, <3>2 DEF InQueue
  <2> QED
    BY <2>2, <2>4, <2>5, <2>6
<1> QED
  BY <1>1, <1>2

\* ExecutionQueueState::enqueue adds the item and nothing else.
LEMMA EnqueueProperties ==
  ASSUME NEW S, NEW q \in Seq(S), NEW e \in S, Distinct(q), ~ InQueue(e, q)
  PROVE  /\ Append(q, e) \in Seq(S)
         /\ Distinct(Append(q, e))
         /\ \A x : InQueue(x, Append(q, e)) <=> InQueue(x, q) \/ x = e
<1> DEFINE r == Append(q, e)
<1>1. /\ r \in Seq(S) /\ Len(r) = Len(q) + 1 /\ Len(q) \in Nat
      /\ \A i \in 1..Len(q) : r[i] = q[i]
      /\ r[Len(q) + 1] = e
  OBVIOUS
<1> HIDE DEF r
<1>2. Distinct(r)
  BY <1>1 DEF Distinct, InQueue
<1>3. ASSUME NEW x PROVE InQueue(x, r) <=> InQueue(x, q) \/ x = e
  <2>1. ASSUME NEW i \in 1..Len(r), r[i] = x PROVE InQueue(x, q) \/ x = e
    BY <2>1, <1>1 DEF InQueue
  <2>2. ASSUME InQueue(x, q) \/ x = e PROVE InQueue(x, r)
    BY <2>2, <1>1 DEF InQueue
  <2> QED BY <2>1, <2>2 DEF InQueue
<1> QED
  BY <1>1, <1>2, <1>3 DEF r

(***************************************************************************)
(* The inductive invariant behind SpawnedOnce.                             *)
(***************************************************************************)

\* Where the daemon works on an execution; on the queue head it loaded; with
\* a result of that execution on disk.
Busy == PCs \ {"down", "idle", "scan", "drain", "head"}
HeadPCs == {"headInspect", "reconcile", "spawn", "store", "wait", "grace", "collect", "finish", "qstore"}
SharedPCs == {"kill1", "kill2", "synth", "ensure", "prepEnv", "prepState", "rebuild", "reported"}
ResultPCs == {"ensure", "prepEnv", "prepState", "rebuild", "reported", "finish", "qstore"}

OnHead == pc \in HeadPCs \/ (pc \in SharedPCs /\ ctx # "scan")

CurOK == pc \in Busy => cur \in Exec

\* An id is queued once, and only after its plan was written.
QueueOK ==
  /\ Distinct(queue)
  /\ \A e \in Exec : InQueue(e, queue) => plan[e] # "none"
  /\ pc = "submit" => ~ InQueue(cur, queue) /\ plan[cur] # "none"
  /\ pc = "q5" => ~ InQueue(cur, queue)

\* drain_next works on the queue that is on disk.
LocalQueueOK ==
  /\ pc = "head" \/ OnHead => lq = queue
  /\ OnHead => InQueue(cur, queue)
  /\ pc = "recInspect" => ctx = "scan"

CountOK ==
  /\ \A e \in Exec : unrec[e] <= spawns[e] /\ spawns[e] <= unrec[e] + 1
  /\ \A e \in Exec : plan[e] = "none" => spawns[e] = unrec[e]
  /\ pc \in {"submit", "spawn"} => spawns[cur] = unrec[cur]
  /\ pc = "store" => spawns[cur] = unrec[cur] + 1

\* A queued execution whose spawn was recorded has left a trace that keeps the
\* queue head from spawning it again.
EvidenceOK ==
  \A e \in Exec :
    /\ spawns[e] = unrec[e] + 1
    /\ InQueue(e, queue)
    /\ ~ (pc = "store" /\ cur = e)
    => running[e].st # "none" \/ result[e].kind # "none"

ResultOK ==
  /\ pc \in ResultPCs => result[cur].kind # "none"
  /\ pc = "collect" => cls # "none"
  /\ \A e \in Exec : rep[e].st # "none" => result[e].kind # "none"

SpawnInv == TypeOK /\ CurOK /\ QueueOK /\ LocalQueueOK /\ CountOK /\ EvidenceOK /\ ResultOK

(***************************************************************************)
(* What the helpers of the model do to the types of its variables.         *)
(***************************************************************************)

\* The records the actions write are records of the state-store structs.

LEMMA Values ==
  /\ NoRunning \in RunningSet /\ NoResult \in ResultSet /\ NoRep \in RepSet
  /\ NoEnv \in EnvSet /\ NoHist \in HistSet
  /\ \A kind \in ResultKinds, k \in 0..MaxSpawns : [kind |-> kind, by |-> k] \in ResultSet
  /\ \A kind \in ResultKinds : Synth(kind) \in ResultSet
  /\ \A st \in {"none", "ok", "bad"}, k \in 0..MaxSpawns : [st |-> st, pid |-> k] \in RunningSet
  /\ \A r \in RunningSet, st \in {"none", "ok", "bad"} : [r EXCEPT !.st = st] \in RunningSet
  /\ \A st \in {"none", "ok", "bad"}, d \in ResultSet : [st |-> st, dig |-> d] \in RepSet
  /\ \A st \in {"none", "ok", "bad"}, r, d \in ResultSet : [st |-> st, res |-> r, dig |-> d] \in EnvSet
  /\ \A d \in RepSet : d.dig \in ResultSet
  /\ [NoRep EXCEPT !.st = "bad"] \in RepSet /\ [NoEnv EXCEPT !.st = "bad"] \in EnvSet
  /\ \A b \in BOOLEAN : [quarantined |-> TRUE, known |-> b] \in HistSet
BY DEF NoRunning, RunningSet, NoResult, ResultSet, NoRep, RepSet, NoEnv, EnvSet, NoHist, HistSet, ResultKinds, Synth

\* A step that writes no file keeps the types of the files.
LEMMA UnchangedDisk == DiskTypeOK /\ UNCHANGED disk => DiskTypeOK'
BY DEF DiskTypeOK, disk

\* A step that leaves the processes alone keeps their types.
LEMMA UnchangedOs == OsTypeOK /\ UNCHANGED os => OsTypeOK'
BY DEF OsTypeOK, os

\* A step outside the daemon keeps the types of the daemon's memory.
LEMMA UnchangedDaemon == DaemonTypeOK /\ CurOK /\ UNCHANGED daemon => DaemonTypeOK' /\ CurOK'
BY DEF DaemonTypeOK, CurOK, daemon

\* A step without a crash, fault or accepted plan keeps the bookkeeping.
LEMMA UnchangedBooks == BooksTypeOK /\ UNCHANGED books => BooksTypeOK'
BY DEF BooksTypeOK, books

\* At the end of a tick, or of the process, the daemon's memory is empty.
LEMMA ForgetType ==
  ASSUME NEW p \in PCs \ Busy, Forget(p) PROVE DaemonTypeOK' /\ CurOK'
<1>1. <<>> \in Seq(Exec)
  OBVIOUS
<1>2. known' \in BOOLEAN
  BY DEF Forget
<1> QED
  BY <1>1, <1>2, Values DEF Forget, DaemonTypeOK, CurOK

\* Removing an id from a queue gives a queue (ExecutionQueueState::remove).
LEMMA RemoveType ==
  ASSUME NEW q \in Seq(Exec), NEW e PROVE Remove(q, e) \in Seq(Exec)
<1>1. CASE ~ InQueue(e, q)
  BY <1>1 DEF Remove
<1>2. CASE InQueue(e, q)
  <2> DEFINE k == CHOOSE i \in 1..Len(q) : q[i] = e
             r == [j \in 1..(Len(q) - 1) |-> IF j < k THEN q[j] ELSE q[j + 1]]
  <2>1. k \in 1..Len(q)
    BY <1>2 DEF InQueue
  <2>2. Remove(q, e) = r
    BY <1>2 DEF Remove
  <2> HIDE DEF k
  <2>3. Len(q) - 1 \in Nat
    BY <2>1
  <2>4. r \in [1..(Len(q) - 1) -> Exec]
    BY <2>1
  <2> QED
    BY <2>2, <2>3, <2>4
<1> QED
  BY <1>1, <1>2

\* A process that changes its state is still a process.
LEMMA ChildUpdateType ==
  ASSUME OsTypeOK, NEW e, NEW k, NEW st \in ChildStates
  PROVE  [child EXCEPT ![e][k] = st] \in [Exec -> [1..MaxSpawns -> ChildStates]]
BY DEF OsTypeOK

\* A spawn without a running record is counted.
LEMMA UnrecUpdateType ==
  ASSUME BooksTypeOK, NEW e \in Exec
  PROVE  [unrec EXCEPT ![e] = @ + 1] \in [Exec -> Nat]
BY DEF BooksTypeOK

\* Corruption makes no file appear or disappear.
LEMMA CorruptKeepsFiles ==
  ASSUME DiskTypeOK, NEW e \in Exec, Corrupt(e)
  PROVE  \A f \in Exec :
           /\ plan'[f] = "none" <=> plan[f] = "none"
           /\ running'[f].st = "none" <=> running[f].st = "none"
           /\ result'[f].kind = "none" <=> result[f].kind = "none"
           /\ rep'[f].st = "none" <=> rep[f].st = "none"
<1> TAKE f \in Exec
<1>1. plan'[f] = "none" <=> plan[f] = "none"
  BY DEF Corrupt, DiskTypeOK
<1>2. running'[f].st = "none" <=> running[f].st = "none"
  BY DEF Corrupt, DiskTypeOK
<1>3. result'[f].kind = "none" <=> result[f].kind = "none"
  BY DEF Corrupt, DiskTypeOK, Readable, Synth
<1>4. rep'[f].st = "none" <=> rep[f].st = "none"
  <2>1. \/ rep' = rep
        \/ rep[e].st = "ok" /\ rep' = [rep EXCEPT ![e] = [NoRep EXCEPT !.st = "bad"]]
    BY DEF Corrupt
  <2> QED
    BY <2>1 DEF DiskTypeOK, NoRep
<1> QED
  BY <1>1, <1>2, <1>3, <1>4

\* A daemon that is busy works on an execution.
LEMMA CurInExec ==
  ASSUME DaemonTypeOK, CurOK, pc \in Busy PROVE cur \in Exec
BY DEF DaemonTypeOK, CurOK

\* Going on with the same execution keeps the types of the memory.
LEMMA GotoType ==
  ASSUME NEW p \in PCs, DaemonTypeOK, cur \in Exec, Goto(p) PROVE DaemonTypeOK' /\ CurOK'
BY DEF Goto, DaemonTypeOK, CurOK

\* So does entering quarantine_execution.
LEMMA QuarantineType ==
  ASSUME NEW e \in Exec, NEW b \in BOOLEAN, NEW c \in {"none", "scan", "head", "exec"},
         DaemonTypeOK, Quarantine(e, b, c)
  PROVE  DaemonTypeOK' /\ CurOK'
BY DEF Quarantine, DaemonTypeOK, CurOK, PCs

\* A fault is counted within its bound.
LEMMA FaultType == BooksTypeOK /\ Fault /\ UNCHANGED <<crashes, unrec, accepted>> => BooksTypeOK'
BY DEF BooksTypeOK, Fault

\* Every step keeps the types, and a busy daemon works on an execution.
LEMMA TypeStep == TypeOK /\ CurOK /\ [Next]_vars => TypeOK' /\ CurOK'
<1> DEFINE Goal == DiskTypeOK' /\ OsTypeOK' /\ DaemonTypeOK' /\ CurOK' /\ BooksTypeOK'
<1> SUFFICES ASSUME DiskTypeOK, OsTypeOK, DaemonTypeOK, BooksTypeOK, CurOK, [Next]_vars PROVE Goal
  BY DEF TypeOK
<1>1. ASSUME SubmitQueue PROVE Goal
  <2>1. DiskTypeOK'
    <3>1. cur \in Exec
      BY <1>1 DEF SubmitQueue, CurOK, Busy, PCs
    <3>2. queue' \in Seq(Exec)
      BY <1>1, <3>1 DEF SubmitQueue, DiskTypeOK
    <3> QED
      BY <1>1, <3>2 DEF SubmitQueue, DiskTypeOK
  <2>2. OsTypeOK'
    BY <1>1, UnchangedOs DEF SubmitQueue
  <2>3. DaemonTypeOK' /\ CurOK'
    BY <1>1, ForgetType DEF SubmitQueue, CurOK, Busy, PCs
  <2>4. BooksTypeOK'
    <3>1. cur \in Exec
      BY <1>1 DEF SubmitQueue, CurOK, Busy, PCs
    <3> QED
      BY <1>1, <3>1 DEF SubmitQueue, BooksTypeOK
  <2> QED BY <2>1, <2>2, <2>3, <2>4
<1>2. ASSUME TickBegin PROVE Goal
  <2>1. DiskTypeOK'
    BY <1>2, UnchangedDisk DEF TickBegin
  <2>2. OsTypeOK'
    BY <1>2, UnchangedOs DEF TickBegin
  <2>3. DaemonTypeOK' /\ CurOK'
    BY <1>2 DEF TickBegin, DaemonTypeOK, CurOK, Busy, PCs
  <2>4. BooksTypeOK'
    BY <1>2, UnchangedBooks DEF TickBegin
  <2> QED BY <2>1, <2>2, <2>3, <2>4
<1>3. ASSUME ScanDone PROVE Goal
  <2>1. DiskTypeOK'
    BY <1>3, UnchangedDisk DEF ScanDone
  <2>2. OsTypeOK'
    BY <1>3, UnchangedOs DEF ScanDone
  <2>3. DaemonTypeOK' /\ CurOK'
    BY <1>3, ForgetType DEF ScanDone, CurOK, Busy, PCs
  <2>4. BooksTypeOK'
    BY <1>3, UnchangedBooks DEF ScanDone
  <2> QED BY <2>1, <2>2, <2>3, <2>4
<1>4. ASSUME InspectInactive PROVE Goal
  <2>1. DiskTypeOK'
    BY <1>4, UnchangedDisk DEF InspectInactive
  <2>2. OsTypeOK'
    BY <1>4, UnchangedOs DEF InspectInactive
  <2>3. DaemonTypeOK' /\ CurOK'
    BY <1>4, GotoType DEF InspectInactive, Inspecting, ProcessGone, CurOK, Busy, PCs
  <2>4. BooksTypeOK'
    BY <1>4, UnchangedBooks DEF InspectInactive
  <2> QED BY <2>1, <2>2, <2>3, <2>4
<1>5. ASSUME InspectActive PROVE Goal
  <2>1. DiskTypeOK'
    BY <1>5, UnchangedDisk DEF InspectActive
  <2>2. OsTypeOK'
    BY <1>5, UnchangedOs DEF InspectActive
  <2>3. DaemonTypeOK' /\ CurOK'
    BY <1>5, ForgetType DEF InspectActive, Inspecting, LeaveRunning, DaemonTypeOK, CurOK, Busy, PCs
  <2>4. BooksTypeOK'
    BY <1>5, UnchangedBooks DEF InspectActive
  <2> QED BY <2>1, <2>2, <2>3, <2>4
<1>6. ASSUME InspectExpired PROVE Goal
  <2>1. DiskTypeOK'
    BY <1>6, UnchangedDisk DEF InspectExpired
  <2>2. OsTypeOK'
    BY <1>6, UnchangedOs DEF InspectExpired
  <2>3. DaemonTypeOK' /\ CurOK'
    BY <1>6, GotoType DEF InspectExpired, Inspecting, CurOK, Busy, PCs
  <2>4. BooksTypeOK'
    BY <1>6, UnchangedBooks DEF InspectExpired
  <2> QED BY <2>1, <2>2, <2>3, <2>4
<1>7. ASSUME RecordKill PROVE Goal
  <2>1. DiskTypeOK'
    BY <1>7, UnchangedDisk DEF RecordKill, TickError, DiskTypeOK
  <2>2. OsTypeOK'
    BY <1>7, UnchangedOs DEF RecordKill, TickError, OsTypeOK
  <2>3. DaemonTypeOK' /\ CurOK'
    BY <1>7, GotoType, ForgetType DEF RecordKill, TickError, CurOK, Busy, PCs
  <2>4. BooksTypeOK'
    BY <1>7, UnchangedBooks DEF RecordKill, TickError, BooksTypeOK
  <2> QED BY <2>1, <2>2, <2>3, <2>4
<1>8. ASSUME ForceKill PROVE Goal
  <2>1. DiskTypeOK'
    BY <1>8, UnchangedDisk DEF ForceKill
  <2>2. OsTypeOK'
    BY <1>8, ChildUpdateType DEF ForceKill, OsTypeOK, ChildStates
  <2>3. DaemonTypeOK' /\ CurOK'
    BY <1>8, GotoType DEF ForceKill, ProcessGone, CurOK, Busy, PCs
  <2>4. BooksTypeOK'
    BY <1>8, UnchangedBooks DEF ForceKill
  <2> QED BY <2>1, <2>2, <2>3, <2>4
<1>9. ASSUME WriteRecoveryResult PROVE Goal
  <2>1. DiskTypeOK'
    BY <1>9, Values DEF WriteRecoveryResult, ResultKinds, DiskTypeOK
  <2>2. OsTypeOK'
    BY <1>9, UnchangedOs DEF WriteRecoveryResult
  <2>3. DaemonTypeOK' /\ CurOK'
    BY <1>9, Values DEF WriteRecoveryResult, ResultKinds, DaemonTypeOK, CurOK, Busy, PCs
  <2>4. BooksTypeOK'
    BY <1>9, UnchangedBooks DEF WriteRecoveryResult
  <2> QED BY <2>1, <2>2, <2>3, <2>4
<1>10. ASSUME EnsureLocalReport PROVE Goal
  <2>1. DiskTypeOK'
    BY <1>10, UnchangedDisk DEF EnsureLocalReport
  <2>2. OsTypeOK'
    BY <1>10, UnchangedOs DEF EnsureLocalReport
  <2>3. DaemonTypeOK' /\ CurOK'
    BY <1>10, GotoType DEF EnsureLocalReport, CurOK, Busy, PCs
  <2>4. BooksTypeOK'
    BY <1>10, UnchangedBooks DEF EnsureLocalReport
  <2> QED BY <2>1, <2>2, <2>3, <2>4
<1>11. ASSUME PrepareEnvelope PROVE Goal
  <2>1. DiskTypeOK'
    BY <1>11, Values, GotoType DEF PrepareEnvelope, DaemonTypeOK, CurOK, Busy, PCs, DiskTypeOK
  <2>2. OsTypeOK'
    BY <1>11, UnchangedOs DEF PrepareEnvelope
  <2>3. DaemonTypeOK' /\ CurOK'
    BY <1>11, GotoType DEF PrepareEnvelope, CurOK, Busy, PCs
  <2>4. BooksTypeOK'
    BY <1>11, UnchangedBooks DEF PrepareEnvelope
  <2> QED BY <2>1, <2>2, <2>3, <2>4
<1>12. ASSUME PrepareState PROVE Goal
  <2>1. DiskTypeOK'
    BY <1>12, Values DEF PrepareState, DaemonTypeOK, DiskTypeOK
  <2>2. OsTypeOK'
    BY <1>12, UnchangedOs DEF PrepareState
  <2>3. DaemonTypeOK' /\ CurOK'
    BY <1>12, GotoType DEF PrepareState, CurOK, Busy, PCs
  <2>4. BooksTypeOK'
    BY <1>12, UnchangedBooks DEF PrepareState
  <2> QED BY <2>1, <2>2, <2>3, <2>4
<1>13. ASSUME RebuildEnvelope PROVE Goal
  <2>1. DiskTypeOK'
    BY <1>13, Values DEF RebuildEnvelope, DaemonTypeOK, CurOK, Busy, PCs, DiskTypeOK
  <2>2. OsTypeOK'
    BY <1>13, UnchangedOs DEF RebuildEnvelope
  <2>3. DaemonTypeOK' /\ CurOK'
    BY <1>13, GotoType DEF RebuildEnvelope, CurOK, Busy, PCs
  <2>4. BooksTypeOK'
    BY <1>13, UnchangedBooks DEF RebuildEnvelope
  <2> QED BY <2>1, <2>2, <2>3, <2>4
<1>14. ASSUME RemoveRunning PROVE Goal
  <2>1. DiskTypeOK'
    BY <1>14, Values DEF RemoveRunning, DiskTypeOK
  <2>2. OsTypeOK'
    BY <1>14, UnchangedOs DEF RemoveRunning
  <2>3. DaemonTypeOK' /\ CurOK'
    BY <1>14, GotoType, Values DEF RemoveRunning, DaemonTypeOK, CurOK, Busy, PCs
  <2>4. BooksTypeOK'
    BY <1>14, UnchangedBooks DEF RemoveRunning
  <2> QED BY <2>1, <2>2, <2>3, <2>4
<1>15. ASSUME QuarantineDropState PROVE Goal
  <2>1. DiskTypeOK'
    BY <1>15, Values DEF QuarantineDropState, DiskTypeOK
  <2>2. OsTypeOK'
    BY <1>15, UnchangedOs DEF QuarantineDropState
  <2>3. DaemonTypeOK' /\ CurOK'
    BY <1>15, GotoType DEF QuarantineDropState, CurOK, Busy, PCs
  <2>4. BooksTypeOK'
    BY <1>15, UnchangedBooks DEF QuarantineDropState
  <2> QED BY <2>1, <2>2, <2>3, <2>4
<1>16. ASSUME QuarantineDropEnvelope PROVE Goal
  <2>1. DiskTypeOK'
    BY <1>16, Values DEF QuarantineDropEnvelope, DiskTypeOK
  <2>2. OsTypeOK'
    BY <1>16, UnchangedOs DEF QuarantineDropEnvelope
  <2>3. DaemonTypeOK' /\ CurOK'
    BY <1>16, GotoType DEF QuarantineDropEnvelope, CurOK, Busy, PCs
  <2>4. BooksTypeOK'
    BY <1>16, UnchangedBooks DEF QuarantineDropEnvelope
  <2> QED BY <2>1, <2>2, <2>3, <2>4
<1>17. ASSUME QuarantineStoreHistory PROVE Goal
  <2>1. DiskTypeOK'
    BY <1>17, Values DEF QuarantineStoreHistory, DaemonTypeOK, DiskTypeOK
  <2>2. OsTypeOK'
    BY <1>17, UnchangedOs DEF QuarantineStoreHistory
  <2>3. DaemonTypeOK' /\ CurOK'
    BY <1>17, GotoType DEF QuarantineStoreHistory, CurOK, Busy, PCs
  <2>4. BooksTypeOK'
    BY <1>17, UnchangedBooks DEF QuarantineStoreHistory
  <2> QED BY <2>1, <2>2, <2>3, <2>4
<1>18. ASSUME QuarantineDequeue PROVE Goal
  <2>1. DiskTypeOK'
    <3>1. queue' \in Seq(Exec)
      BY <1>18, RemoveType DEF QuarantineDequeue, DiskTypeOK
    <3> QED
      BY <1>18, <3>1 DEF QuarantineDequeue, DiskTypeOK
  <2>2. OsTypeOK'
    BY <1>18, UnchangedOs DEF QuarantineDequeue
  <2>3. DaemonTypeOK' /\ CurOK'
    BY <1>18, GotoType DEF QuarantineDequeue, CurOK, Busy, PCs
  <2>4. BooksTypeOK'
    BY <1>18, UnchangedBooks DEF QuarantineDequeue
  <2> QED BY <2>1, <2>2, <2>3, <2>4
<1>19. ASSUME QuarantineDropRunning PROVE Goal
  <2>1. DiskTypeOK'
    BY <1>19, Values DEF QuarantineDropRunning, DiskTypeOK
  <2>2. OsTypeOK'
    BY <1>19, UnchangedOs DEF QuarantineDropRunning
  <2>3. DaemonTypeOK' /\ CurOK'
    BY <1>19, ForgetType, Values DEF QuarantineDropRunning, DaemonTypeOK, CurOK, Busy, PCs
  <2>4. BooksTypeOK'
    BY <1>19, UnchangedBooks DEF QuarantineDropRunning
  <2> QED BY <2>1, <2>2, <2>3, <2>4
<1>20. ASSUME DrainLoadQueue PROVE Goal
  <2>1. DiskTypeOK'
    BY <1>20, UnchangedDisk DEF DrainLoadQueue
  <2>2. OsTypeOK'
    BY <1>20, UnchangedOs DEF DrainLoadQueue
  <2>3. DaemonTypeOK' /\ CurOK'
    BY <1>20 DEF DrainLoadQueue, DiskTypeOK, DaemonTypeOK, CurOK, Busy, PCs
  <2>4. BooksTypeOK'
    BY <1>20, UnchangedBooks DEF DrainLoadQueue
  <2> QED BY <2>1, <2>2, <2>3, <2>4
<1>21. ASSUME HeadEmpty PROVE Goal
  <2>1. DiskTypeOK'
    BY <1>21, UnchangedDisk DEF HeadEmpty
  <2>2. OsTypeOK'
    BY <1>21, UnchangedOs DEF HeadEmpty
  <2>3. DaemonTypeOK' /\ CurOK'
    BY <1>21, ForgetType DEF HeadEmpty, CurOK, Busy, PCs
  <2>4. BooksTypeOK'
    BY <1>21, UnchangedBooks DEF HeadEmpty
  <2> QED BY <2>1, <2>2, <2>3, <2>4
<1>22. ASSUME HeadQuarantine PROVE Goal
  <2>1. DiskTypeOK'
    BY <1>22, UnchangedDisk DEF HeadQuarantine
  <2>2. OsTypeOK'
    BY <1>22, UnchangedOs DEF HeadQuarantine
  <2>3. DaemonTypeOK' /\ CurOK'
    <3>1. Head(lq) \in Exec
      BY <1>22 DEF HeadQuarantine, DaemonTypeOK
    <3> QED
      BY <1>22, <3>1, QuarantineType DEF HeadQuarantine
  <2>4. BooksTypeOK'
    BY <1>22, UnchangedBooks DEF HeadQuarantine
  <2> QED BY <2>1, <2>2, <2>3, <2>4
<1>23. ASSUME HeadBegin PROVE Goal
  <2>1. DiskTypeOK'
    BY <1>23, UnchangedDisk DEF HeadBegin
  <2>2. OsTypeOK'
    BY <1>23, UnchangedOs DEF HeadBegin
  <2>3. DaemonTypeOK' /\ CurOK'
    <3>1. Head(lq) \in Exec
      BY <1>23 DEF HeadBegin, DaemonTypeOK
    <3> QED
      BY <1>23, <3>1 DEF HeadBegin, DaemonTypeOK, CurOK, Busy, PCs
  <2>4. BooksTypeOK'
    BY <1>23, UnchangedBooks DEF HeadBegin
  <2> QED BY <2>1, <2>2, <2>3, <2>4
<1>24. ASSUME ReconcileCompleted PROVE Goal
  <2>1. DiskTypeOK'
    BY <1>24, UnchangedDisk DEF ReconcileCompleted
  <2>2. OsTypeOK'
    BY <1>24, UnchangedOs DEF ReconcileCompleted
  <2>3. DaemonTypeOK' /\ CurOK'
    BY <1>24 DEF ReconcileCompleted, DiskTypeOK, DaemonTypeOK, CurOK, Busy, PCs
  <2>4. BooksTypeOK'
    BY <1>24, UnchangedBooks DEF ReconcileCompleted
  <2> QED BY <2>1, <2>2, <2>3, <2>4
<1>25. ASSUME ReconcileUnreadable PROVE Goal
  <2>1. DiskTypeOK'
    BY <1>25, UnchangedDisk DEF ReconcileUnreadable, TickError, DiskTypeOK
  <2>2. OsTypeOK'
    BY <1>25, UnchangedOs DEF ReconcileUnreadable, TickError, OsTypeOK
  <2>3. DaemonTypeOK' /\ CurOK'
    BY <1>25, ForgetType DEF ReconcileUnreadable, TickError, CurOK, Busy, PCs
  <2>4. BooksTypeOK'
    BY <1>25, UnchangedBooks DEF ReconcileUnreadable, TickError, BooksTypeOK
  <2> QED BY <2>1, <2>2, <2>3, <2>4
<1>26. ASSUME DequeueCompleted PROVE Goal
  <2>1. DiskTypeOK'
    <3>1. queue' \in Seq(Exec)
      BY <1>26, RemoveType DEF DequeueCompleted, DaemonTypeOK
    <3> QED
      BY <1>26, <3>1 DEF DequeueCompleted, DiskTypeOK
  <2>2. OsTypeOK'
    BY <1>26, UnchangedOs DEF DequeueCompleted
  <2>3. DaemonTypeOK' /\ CurOK'
    BY <1>26, ForgetType DEF DequeueCompleted, CurOK, Busy, PCs
  <2>4. BooksTypeOK'
    BY <1>26, UnchangedBooks DEF DequeueCompleted
  <2> QED BY <2>1, <2>2, <2>3, <2>4
<1>27. ASSUME Spawn PROVE Goal
  <2>1. DiskTypeOK'
    BY <1>27 DEF Spawn, DiskTypeOK
  <2>2. OsTypeOK'
    <3>1. cur \in Exec
      BY <1>27 DEF Spawn, CurOK, Busy, PCs
    <3>2. spawns' \in [Exec -> 0..MaxSpawns]
      BY <1>27, <3>1 DEF Spawn, OsTypeOK
    <3>3. child' \in [Exec -> [1..MaxSpawns -> ChildStates]]
      BY <1>27, ChildUpdateType DEF Spawn, ChildStates
    <3> QED
      BY <1>27, <3>2, <3>3 DEF Spawn, OsTypeOK
  <2>3. DaemonTypeOK' /\ CurOK'
    BY <1>27 DEF Spawn, DaemonTypeOK, CurOK, Busy, PCs
  <2>4. BooksTypeOK'
    BY <1>27, UnchangedBooks DEF Spawn
  <2> QED BY <2>1, <2>2, <2>3, <2>4
<1>28. ASSUME StoreRunning PROVE Goal
  <2>1. DiskTypeOK'
    BY <1>28, Values DEF StoreRunning, OsTypeOK, DaemonTypeOK, CurOK, Busy, PCs, DiskTypeOK
  <2>2. OsTypeOK'
    BY <1>28, UnchangedOs DEF StoreRunning
  <2>3. DaemonTypeOK' /\ CurOK'
    BY <1>28, GotoType DEF StoreRunning, CurOK, Busy, PCs
  <2>4. BooksTypeOK'
    BY <1>28, UnchangedBooks DEF StoreRunning
  <2> QED BY <2>1, <2>2, <2>3, <2>4
<1>29. ASSUME ChildExited PROVE Goal
  <2>1. DiskTypeOK'
    BY <1>29, UnchangedDisk DEF ChildExited
  <2>2. OsTypeOK'
    BY <1>29, UnchangedOs DEF ChildExited
  <2>3. DaemonTypeOK' /\ CurOK'
    BY <1>29 DEF ChildExited, DaemonTypeOK, CurOK, Busy, PCs
  <2>4. BooksTypeOK'
    BY <1>29, UnchangedBooks DEF ChildExited
  <2> QED BY <2>1, <2>2, <2>3, <2>4
<1>30. ASSUME WaitTimesOut PROVE Goal
  <2>1. DiskTypeOK'
    BY <1>30, UnchangedDisk DEF WaitTimesOut
  <2>2. OsTypeOK'
    BY <1>30, UnchangedOs DEF WaitTimesOut
  <2>3. DaemonTypeOK' /\ CurOK'
    BY <1>30, GotoType, QuarantineType DEF WaitTimesOut, CurOK, Busy, PCs
  <2>4. BooksTypeOK'
    BY <1>30, UnchangedBooks DEF WaitTimesOut
  <2> QED BY <2>1, <2>2, <2>3, <2>4
<1>31. ASSUME GraceExpires PROVE Goal
  <2>1. DiskTypeOK'
    BY <1>31, UnchangedDisk DEF GraceExpires
  <2>2. OsTypeOK'
    <3>1. child' \in [Exec -> [1..MaxSpawns -> ChildStates]]
      BY <1>31, ChildUpdateType DEF GraceExpires, OsTypeOK, ChildStates
    <3> QED
      BY <1>31, <3>1 DEF GraceExpires, OsTypeOK
  <2>3. DaemonTypeOK' /\ CurOK'
    BY <1>31, QuarantineType DEF GraceExpires, DaemonTypeOK, CurOK, Busy, PCs
  <2>4. BooksTypeOK'
    BY <1>31, UnchangedBooks DEF GraceExpires
  <2> QED BY <2>1, <2>2, <2>3, <2>4
<1>32. ASSUME CollectResult PROVE Goal
  <2>1. DiskTypeOK'
    BY <1>32, Values DEF CollectResult, DaemonTypeOK, CollectedResult, ResultKinds, CurOK, Busy, PCs, DiskTypeOK
  <2>2. OsTypeOK'
    BY <1>32, UnchangedOs DEF CollectResult
  <2>3. DaemonTypeOK' /\ CurOK'
    BY <1>32, Values DEF CollectResult, DiskTypeOK, CollectedResult, ResultKinds, DaemonTypeOK, CurOK, Busy, PCs
  <2>4. BooksTypeOK'
    BY <1>32, UnchangedBooks DEF CollectResult
  <2> QED BY <2>1, <2>2, <2>3, <2>4
<1>33. ASSUME CollectQuarantine PROVE Goal
  <2>1. DiskTypeOK'
    BY <1>33, UnchangedDisk DEF CollectQuarantine
  <2>2. OsTypeOK'
    BY <1>33, UnchangedOs DEF CollectQuarantine
  <2>3. DaemonTypeOK' /\ CurOK'
    BY <1>33, QuarantineType DEF CollectQuarantine, CurOK, Busy, PCs
  <2>4. BooksTypeOK'
    BY <1>33, UnchangedBooks DEF CollectQuarantine
  <2> QED BY <2>1, <2>2, <2>3, <2>4
<1>34. ASSUME StoreFinished PROVE Goal
  <2>1. DiskTypeOK'
    BY <1>34, Values DEF StoreFinished, OsTypeOK, DaemonTypeOK, CurOK, Busy, PCs, DiskTypeOK
  <2>2. OsTypeOK'
    BY <1>34, UnchangedOs DEF StoreFinished
  <2>3. DaemonTypeOK' /\ CurOK'
    BY <1>34, GotoType DEF StoreFinished, CurOK, Busy, PCs
  <2>4. BooksTypeOK'
    BY <1>34, UnchangedBooks DEF StoreFinished
  <2> QED BY <2>1, <2>2, <2>3, <2>4
<1>35. ASSUME Restart PROVE Goal
  <2>1. DiskTypeOK'
    BY <1>35, UnchangedDisk DEF Restart
  <2>2. OsTypeOK'
    BY <1>35, UnchangedOs DEF Restart
  <2>3. DaemonTypeOK' /\ CurOK'
    BY <1>35, ForgetType DEF Restart, CurOK, Busy, PCs
  <2>4. BooksTypeOK'
    BY <1>35, UnchangedBooks DEF Restart
  <2> QED BY <2>1, <2>2, <2>3, <2>4
<1>36. ASSUME SubmitQueueFails PROVE Goal
  <2>1. DiskTypeOK'
    BY <1>36 DEF SubmitQueueFails, DiskTypeOK
  <2>2. OsTypeOK'
    BY <1>36, UnchangedOs DEF SubmitQueueFails
  <2>3. DaemonTypeOK' /\ CurOK'
    BY <1>36, ForgetType DEF SubmitQueueFails, CurOK, Busy, PCs
  <2>4. BooksTypeOK'
    BY <1>36, FaultType DEF SubmitQueueFails, BooksTypeOK
  <2> QED BY <2>1, <2>2, <2>3, <2>4
<1>37. ASSUME InspectUnavailable PROVE Goal
  <2>1. DiskTypeOK'
    BY <1>37, UnchangedDisk DEF InspectUnavailable
  <2>2. OsTypeOK'
    BY <1>37, UnchangedOs DEF InspectUnavailable
  <2>3. DaemonTypeOK' /\ CurOK'
    BY <1>37, ForgetType DEF InspectUnavailable, Inspecting, LeaveRunning, DaemonTypeOK, CurOK, Busy, PCs
  <2>4. BooksTypeOK'
    BY <1>37, FaultType DEF InspectUnavailable, BooksTypeOK
  <2> QED BY <2>1, <2>2, <2>3, <2>4
<1>38. ASSUME ForceKillUnconfirmed PROVE Goal
  <2>1. DiskTypeOK'
    BY <1>38, UnchangedDisk DEF ForceKillUnconfirmed
  <2>2. OsTypeOK'
    BY <1>38, UnchangedOs DEF ForceKillUnconfirmed
  <2>3. DaemonTypeOK' /\ CurOK'
    BY <1>38, ForgetType DEF ForceKillUnconfirmed, LeaveRunning, DaemonTypeOK, CurOK, Busy, PCs
  <2>4. BooksTypeOK'
    BY <1>38, FaultType DEF ForceKillUnconfirmed, BooksTypeOK
  <2> QED BY <2>1, <2>2, <2>3, <2>4
<1>39. ASSUME ReportFails PROVE Goal
  <2>1. DiskTypeOK'
    BY <1>39, UnchangedDisk DEF ReportFails
  <2>2. OsTypeOK'
    BY <1>39, UnchangedOs DEF ReportFails
  <2>3. DaemonTypeOK' /\ CurOK'
    <3>1. cur \in Exec /\ ctx \in {"none", "scan", "head", "exec"}
      BY <1>39 DEF ReportFails, CurOK, Busy, PCs, DaemonTypeOK
    <3>2. CASE ctx = "head"
      BY <1>39, <3>2, ForgetType DEF ReportFails, Busy, PCs
    <3>3. CASE ctx # "head"
      BY <1>39, <3>1, <3>3, QuarantineType DEF ReportFails
    <3> QED
      BY <3>2, <3>3
  <2>4. BooksTypeOK'
    BY <1>39, FaultType DEF ReportFails, BooksTypeOK
  <2> QED BY <2>1, <2>2, <2>3, <2>4
<1>40. ASSUME SpawnFails PROVE Goal
  <2>1. DiskTypeOK'
    BY <1>40, UnchangedDisk DEF SpawnFails
  <2>2. OsTypeOK'
    BY <1>40, UnchangedOs DEF SpawnFails
  <2>3. DaemonTypeOK' /\ CurOK'
    BY <1>40, QuarantineType DEF SpawnFails, CurOK, Busy, PCs
  <2>4. BooksTypeOK'
    BY <1>40, FaultType DEF SpawnFails, BooksTypeOK
  <2> QED BY <2>1, <2>2, <2>3, <2>4
<1>41. ASSUME StoreRunningFails PROVE Goal
  <2>1. DiskTypeOK'
    BY <1>41, UnchangedDisk DEF StoreRunningFails
  <2>2. OsTypeOK'
    <3>1. cur \in Exec
      BY <1>41 DEF StoreRunningFails, CurOK, Busy, PCs
    <3>2. CASE UNCHANGED child
      BY <1>41, <3>2 DEF StoreRunningFails, OsTypeOK
    <3>3. CASE child' = [child EXCEPT ![cur][spawns[cur]] = IF Alive(@) THEN "err" ELSE @]
      <4>1. child' \in [Exec -> [1..MaxSpawns -> ChildStates]]
        BY <3>1, <3>3 DEF OsTypeOK, ChildStates, Alive
      <4> QED
        BY <1>41, <4>1 DEF StoreRunningFails, OsTypeOK
    <3> QED
      BY <1>41, <3>2, <3>3 DEF StoreRunningFails
  <2>3. DaemonTypeOK' /\ CurOK'
    BY <1>41, QuarantineType DEF StoreRunningFails, CurOK, Busy, PCs
  <2>4. BooksTypeOK'
    <3>1. cur \in Exec
      BY <1>41 DEF StoreRunningFails, CurOK, Busy, PCs
    <3> QED
      BY <1>41, <3>1, UnrecUpdateType DEF StoreRunningFails, Fault, BooksTypeOK
  <2> QED BY <2>1, <2>2, <2>3, <2>4
<1>42. ASSUME StoreFinishedFails PROVE Goal
  <2>1. DiskTypeOK'
    BY <1>42, UnchangedDisk DEF StoreFinishedFails
  <2>2. OsTypeOK'
    BY <1>42, UnchangedOs DEF StoreFinishedFails
  <2>3. DaemonTypeOK' /\ CurOK'
    BY <1>42, QuarantineType DEF StoreFinishedFails, CurOK, Busy, PCs
  <2>4. BooksTypeOK'
    BY <1>42, FaultType DEF StoreFinishedFails, BooksTypeOK
  <2> QED BY <2>1, <2>2, <2>3, <2>4
<1>43. ASSUME Crash PROVE Goal
  <2>1. DiskTypeOK'
    BY <1>43, UnchangedDisk DEF Crash
  <2>2. OsTypeOK'
    BY <1>43, UnchangedOs DEF Crash
  <2>3. DaemonTypeOK' /\ CurOK'
    BY <1>43, ForgetType DEF Crash, CurOK, Busy, PCs
  <2>4. BooksTypeOK'
    <3>1. unrec' \in [Exec -> Nat]
      <4>1. CASE pc = "store"
        BY <1>43, <4>1, CurInExec, UnrecUpdateType DEF Crash, Busy, PCs
      <4>2. CASE pc # "store"
        BY <1>43, <4>2 DEF Crash, BooksTypeOK
      <4> QED BY <4>1, <4>2
    <3> QED
      BY <1>43, <3>1 DEF Crash, BooksTypeOK
  <2> QED BY <2>1, <2>2, <2>3, <2>4
<1>44. ASSUME NEW e \in Exec, ScanQuarantine(e) PROVE Goal
  <2>1. DiskTypeOK'
    BY <1>44, UnchangedDisk DEF ScanQuarantine
  <2>2. OsTypeOK'
    BY <1>44, UnchangedOs DEF ScanQuarantine
  <2>3. DaemonTypeOK' /\ CurOK'
    BY <1>44, QuarantineType DEF ScanQuarantine, InQueue, CurOK, Busy, PCs
  <2>4. BooksTypeOK'
    BY <1>44, UnchangedBooks DEF ScanQuarantine
  <2> QED BY <2>1, <2>2, <2>3, <2>4
<1>45. ASSUME NEW e \in Exec, ScanHasResult(e) PROVE Goal
  <2>1. DiskTypeOK'
    BY <1>45, UnchangedDisk DEF ScanHasResult
  <2>2. OsTypeOK'
    BY <1>45, UnchangedOs DEF ScanHasResult
  <2>3. DaemonTypeOK' /\ CurOK'
    BY <1>45 DEF ScanHasResult, DiskTypeOK, DaemonTypeOK, CurOK, Busy, PCs
  <2>4. BooksTypeOK'
    BY <1>45, UnchangedBooks DEF ScanHasResult
  <2> QED BY <2>1, <2>2, <2>3, <2>4
<1>46. ASSUME NEW e \in Exec, ScanNoResult(e) PROVE Goal
  <2>1. DiskTypeOK'
    BY <1>46, UnchangedDisk DEF ScanNoResult
  <2>2. OsTypeOK'
    BY <1>46, UnchangedOs DEF ScanNoResult
  <2>3. DaemonTypeOK' /\ CurOK'
    BY <1>46 DEF ScanNoResult, DaemonTypeOK, CurOK, Busy, PCs
  <2>4. BooksTypeOK'
    BY <1>46, UnchangedBooks DEF ScanNoResult
  <2> QED BY <2>1, <2>2, <2>3, <2>4
<1>47. ASSUME NEW e \in Exec, SubmitPlan(e) PROVE Goal
  <2>1. DiskTypeOK'
    BY <1>47 DEF SubmitPlan, DiskTypeOK
  <2>2. OsTypeOK'
    BY <1>47, UnchangedOs DEF SubmitPlan
  <2>3. DaemonTypeOK' /\ CurOK'
    BY <1>47 DEF SubmitPlan, DaemonTypeOK, CurOK, Busy, PCs
  <2>4. BooksTypeOK'
    BY <1>47, UnchangedBooks DEF SubmitPlan
  <2> QED BY <2>1, <2>2, <2>3, <2>4
<1>48. ASSUME NEW e \in Exec, DeadlineElapses(e) PROVE Goal
  <2>1. DiskTypeOK'
    BY <1>48, UnchangedDisk DEF DeadlineElapses
  <2>2. OsTypeOK'
    BY <1>48 DEF DeadlineElapses, OsTypeOK
  <2>3. DaemonTypeOK' /\ CurOK'
    BY <1>48, UnchangedDaemon DEF DeadlineElapses
  <2>4. BooksTypeOK'
    BY <1>48, UnchangedBooks DEF DeadlineElapses
  <2> QED BY <2>1, <2>2, <2>3, <2>4
<1>49. ASSUME NEW e \in Exec, Corrupt(e) PROVE Goal
  <2>1. DiskTypeOK'
    <3>1. /\ plan' \in [Exec -> {"none", "ok", "bad"}] /\ queue' = queue /\ hist' = hist
      BY <1>49 DEF Corrupt, DiskTypeOK
    <3>2. running' \in [Exec -> RunningSet]
      <4>1. [st |-> "bad", pid |-> running[e].pid] \in RunningSet
        BY <1>49 DEF DiskTypeOK, RunningSet
      <4>2. \/ running' = running
            \/ running' = [running EXCEPT ![e] = [st |-> "bad", pid |-> running[e].pid]]
        BY <1>49 DEF Corrupt
      <4> QED
        BY <4>1, <4>2 DEF DiskTypeOK
    <3>3. result' \in [Exec -> ResultSet]
      BY <1>49, Values DEF Corrupt, DiskTypeOK, ResultKinds
    <3>4. rep' \in [Exec -> RepSet]
      BY <1>49, Values DEF Corrupt, DiskTypeOK
    <3>5. env' \in [Exec -> EnvSet]
      BY <1>49, Values DEF Corrupt, DiskTypeOK
    <3> QED
      BY <3>1, <3>2, <3>3, <3>4, <3>5 DEF DiskTypeOK
  <2>2. OsTypeOK'
    BY <1>49, UnchangedOs DEF Corrupt
  <2>3. DaemonTypeOK' /\ CurOK'
    BY <1>49, UnchangedDaemon DEF Corrupt
  <2>4. BooksTypeOK'
    BY <1>49, FaultType DEF Corrupt, BooksTypeOK
  <2> QED BY <2>1, <2>2, <2>3, <2>4
<1>50. ASSUME NEW e \in Exec, NEW k \in 1..MaxSpawns, ChildWrites(e, k) PROVE Goal
  <2>1. DiskTypeOK'
    BY <1>50, Values DEF ChildWrites, ResultKinds, DiskTypeOK
  <2>2. OsTypeOK'
    BY <1>50 DEF ChildWrites, ChildStates, OsTypeOK
  <2>3. DaemonTypeOK' /\ CurOK'
    BY <1>50, UnchangedDaemon DEF ChildWrites
  <2>4. BooksTypeOK'
    BY <1>50, UnchangedBooks DEF ChildWrites
  <2> QED BY <2>1, <2>2, <2>3, <2>4
<1>51. ASSUME NEW e \in Exec, NEW k \in 1..MaxSpawns, ChildExits(e, k) PROVE Goal
  <2>1. DiskTypeOK'
    BY <1>51, UnchangedDisk DEF ChildExits
  <2>2. OsTypeOK'
    BY <1>51 DEF ChildExits, ChildStates, OsTypeOK
  <2>3. DaemonTypeOK' /\ CurOK'
    BY <1>51, UnchangedDaemon DEF ChildExits
  <2>4. BooksTypeOK'
    BY <1>51, UnchangedBooks DEF ChildExits
  <2> QED BY <2>1, <2>2, <2>3, <2>4
<1>52. ASSUME NEW e \in Exec, NEW k \in 1..MaxSpawns, ChildFails(e, k) PROVE Goal
  <2>1. DiskTypeOK'
    BY <1>52, UnchangedDisk DEF ChildFails
  <2>2. OsTypeOK'
    BY <1>52 DEF ChildFails, ChildStates, OsTypeOK
  <2>3. DaemonTypeOK' /\ CurOK'
    BY <1>52, UnchangedDaemon DEF ChildFails
  <2>4. BooksTypeOK'
    BY <1>52, UnchangedBooks DEF ChildFails
  <2> QED BY <2>1, <2>2, <2>3, <2>4
<1>53. CASE UNCHANGED vars
  BY <1>53, UnchangedDisk, UnchangedOs, UnchangedDaemon, UnchangedBooks DEF vars
<1> QED
  BY <1>1, <1>2, <1>3, <1>4, <1>5, <1>6, <1>7, <1>8, <1>9, <1>10, <1>11, <1>12, <1>13, <1>14, <1>15, <1>16, <1>17, <1>18, <1>19, <1>20, <1>21, <1>22, <1>23, <1>24, <1>25, <1>26, <1>27, <1>28, <1>29, <1>30, <1>31, <1>32, <1>33, <1>34, <1>35, <1>36, <1>37, <1>38, <1>39, <1>40, <1>41, <1>42, <1>43, <1>44, <1>45, <1>46, <1>47, <1>48, <1>49, <1>50, <1>51, <1>52, <1>53
  DEF Next, DaemonStep, FaultStep, ChildStep, RecoverStep, ControlStep, ReportStep,
      QuarantineStep, DrainStep, ExecuteStep

\* The queue stays free of duplicates, and holds planned executions only.
LEMMA QueueStep == SpawnInv /\ [Next]_vars => QueueOK'
<1> DEFINE Goal == QueueOK'
<1> SUFFICES ASSUME DiskTypeOK, DaemonTypeOK, CurOK, QueueOK, LocalQueueOK, [Next]_vars PROVE Goal
  BY DEF SpawnInv, TypeOK
<1> USE DEF QueueOK, disk, os, daemon, books
<1>1. ASSUME SubmitQueue PROVE Goal
  <2>1. cur \in Exec /\ queue \in Seq(Exec)
    BY <1>1 DEF SubmitQueue, CurOK, Busy, PCs, DiskTypeOK
  <2>2. /\ Distinct(queue')
        /\ \A x : InQueue(x, queue') <=> InQueue(x, queue) \/ x = cur
    BY <1>1, <2>1, EnqueueProperties DEF SubmitQueue
  <2> QED
    BY <1>1, <2>1, <2>2 DEF SubmitQueue, Forget
<1>2. ASSUME TickBegin PROVE Goal
  BY <1>2 DEF TickBegin
<1>3. ASSUME ScanDone PROVE Goal
  BY <1>3 DEF ScanDone, Forget
<1>4. ASSUME InspectInactive PROVE Goal
  BY <1>4 DEF InspectInactive, Inspecting, ProcessGone, Goto
<1>5. ASSUME InspectActive PROVE Goal
  BY <1>5 DEF InspectActive, Inspecting, LeaveRunning, Forget
<1>6. ASSUME InspectExpired PROVE Goal
  BY <1>6 DEF InspectExpired, Inspecting, Goto
<1>7. ASSUME RecordKill PROVE Goal
  BY <1>7 DEF RecordKill, Goto, TickError, Forget
<1>8. ASSUME ForceKill PROVE Goal
  BY <1>8 DEF ForceKill, ProcessGone, Goto
<1>9. ASSUME WriteRecoveryResult PROVE Goal
  BY <1>9 DEF WriteRecoveryResult, Synth
<1>10. ASSUME EnsureLocalReport PROVE Goal
  BY <1>10 DEF EnsureLocalReport, Goto
<1>11. ASSUME PrepareEnvelope PROVE Goal
  BY <1>11 DEF PrepareEnvelope, Goto
<1>12. ASSUME PrepareState PROVE Goal
  BY <1>12 DEF PrepareState, Goto
<1>13. ASSUME RebuildEnvelope PROVE Goal
  BY <1>13 DEF RebuildEnvelope, Goto
<1>14. ASSUME RemoveRunning PROVE Goal
  BY <1>14 DEF RemoveRunning, Goto
<1>15. ASSUME QuarantineDropState PROVE Goal
  BY <1>15 DEF QuarantineDropState, Goto
<1>16. ASSUME QuarantineDropEnvelope PROVE Goal
  BY <1>16 DEF QuarantineDropEnvelope, Goto
<1>17. ASSUME QuarantineStoreHistory PROVE Goal
  BY <1>17 DEF QuarantineStoreHistory, Goto
<1>18. ASSUME QuarantineDequeue PROVE Goal
  <2>1. /\ Distinct(queue')
        /\ \A x : InQueue(x, queue') <=> InQueue(x, queue) /\ x # cur
    BY <1>18, RemoveProperties DEF QuarantineDequeue, DiskTypeOK
  <2> QED
    BY <1>18, <2>1 DEF QuarantineDequeue, Goto
<1>19. ASSUME QuarantineDropRunning PROVE Goal
  BY <1>19 DEF QuarantineDropRunning, Goto, Forget
<1>20. ASSUME DrainLoadQueue PROVE Goal
  BY <1>20 DEF DrainLoadQueue
<1>21. ASSUME HeadEmpty PROVE Goal
  BY <1>21 DEF HeadEmpty, Forget
<1>22. ASSUME HeadQuarantine PROVE Goal
  BY <1>22 DEF HeadQuarantine, Quarantine
<1>23. ASSUME HeadBegin PROVE Goal
  BY <1>23 DEF HeadBegin
<1>24. ASSUME ReconcileCompleted PROVE Goal
  BY <1>24 DEF ReconcileCompleted, Ready, Readable
<1>25. ASSUME ReconcileUnreadable PROVE Goal
  BY <1>25 DEF ReconcileUnreadable, TickError, Forget
<1>26. ASSUME DequeueCompleted PROVE Goal
  <2>1. lq = queue
    BY <1>26 DEF DequeueCompleted, LocalQueueOK, OnHead, HeadPCs
  <2>2. /\ Distinct(queue')
        /\ \A x : InQueue(x, queue') <=> InQueue(x, queue) /\ x # cur
    BY <1>26, <2>1, RemoveProperties DEF DequeueCompleted, DiskTypeOK
  <2> QED
    BY <1>26, <2>2 DEF DequeueCompleted, Forget
<1>27. ASSUME Spawn PROVE Goal
  BY <1>27 DEF Spawn
<1>28. ASSUME StoreRunning PROVE Goal
  BY <1>28 DEF StoreRunning, Goto
<1>29. ASSUME ChildExited PROVE Goal
  BY <1>29 DEF ChildExited
<1>30. ASSUME WaitTimesOut PROVE Goal
  BY <1>30 DEF WaitTimesOut, Goto, Quarantine
<1>31. ASSUME GraceExpires PROVE Goal
  BY <1>31 DEF GraceExpires, Quarantine
<1>32. ASSUME CollectResult PROVE Goal
  BY <1>32 DEF CollectResult, CollectedResult, Synth
<1>33. ASSUME CollectQuarantine PROVE Goal
  BY <1>33 DEF CollectQuarantine, Quarantine
<1>34. ASSUME StoreFinished PROVE Goal
  BY <1>34 DEF StoreFinished, Goto
<1>35. ASSUME Restart PROVE Goal
  BY <1>35 DEF Restart, Forget
<1>36. ASSUME SubmitQueueFails PROVE Goal
  BY <1>36 DEF SubmitQueueFails, Fault, Forget
<1>37. ASSUME InspectUnavailable PROVE Goal
  BY <1>37 DEF InspectUnavailable, Inspecting, LeaveRunning, Forget
<1>38. ASSUME ForceKillUnconfirmed PROVE Goal
  BY <1>38 DEF ForceKillUnconfirmed, LeaveRunning, Forget
<1>39. ASSUME ReportFails PROVE Goal
  BY <1>39 DEF ReportFails, Quarantine, Forget
<1>40. ASSUME SpawnFails PROVE Goal
  BY <1>40 DEF SpawnFails, Quarantine
<1>41. ASSUME StoreRunningFails PROVE Goal
  BY <1>41 DEF StoreRunningFails, Quarantine
<1>42. ASSUME StoreFinishedFails PROVE Goal
  BY <1>42 DEF StoreFinishedFails, Quarantine
<1>43. ASSUME Crash PROVE Goal
  BY <1>43 DEF Crash, Forget
<1>44. ASSUME NEW e \in Exec, ScanQuarantine(e) PROVE Goal
  BY <1>44 DEF ScanQuarantine, Quarantine
<1>45. ASSUME NEW e \in Exec, ScanHasResult(e) PROVE Goal
  BY <1>45 DEF ScanHasResult, Readable
<1>46. ASSUME NEW e \in Exec, ScanNoResult(e) PROVE Goal
  BY <1>46 DEF ScanNoResult
<1>47. ASSUME NEW e \in Exec, SubmitPlan(e) PROVE Goal
  <2>1. \A f \in Exec : plan'[f] = IF f = e THEN "ok" ELSE plan[f]
    BY <1>47 DEF SubmitPlan, DiskTypeOK
  <2> QED
    BY <1>47, <2>1 DEF SubmitPlan
<1>48. ASSUME NEW e \in Exec, DeadlineElapses(e) PROVE Goal
  BY <1>48 DEF DeadlineElapses
<1>49. ASSUME NEW e \in Exec, Corrupt(e) PROVE Goal
  BY <1>49, CorruptKeepsFiles DEF Corrupt, CurOK, Busy, PCs
<1>50. ASSUME NEW e \in Exec, NEW k \in 1..MaxSpawns, ChildWrites(e, k) PROVE Goal
  BY <1>50 DEF ChildWrites
<1>51. ASSUME NEW e \in Exec, NEW k \in 1..MaxSpawns, ChildExits(e, k) PROVE Goal
  BY <1>51 DEF ChildExits
<1>52. ASSUME NEW e \in Exec, NEW k \in 1..MaxSpawns, ChildFails(e, k) PROVE Goal
  BY <1>52 DEF ChildFails
<1>53. CASE UNCHANGED vars
  BY <1>53 DEF vars
<1> QED
  BY <1>1, <1>2, <1>3, <1>4, <1>5, <1>6, <1>7, <1>8, <1>9, <1>10, <1>11, <1>12, <1>13, <1>14, <1>15, <1>16, <1>17, <1>18, <1>19, <1>20, <1>21, <1>22, <1>23, <1>24, <1>25, <1>26, <1>27, <1>28, <1>29, <1>30, <1>31, <1>32, <1>33, <1>34, <1>35, <1>36, <1>37, <1>38, <1>39, <1>40, <1>41, <1>42, <1>43, <1>44, <1>45, <1>46, <1>47, <1>48, <1>49, <1>50, <1>51, <1>52, <1>53
  DEF Next, DaemonStep, FaultStep, ChildStep, RecoverStep, ControlStep, ReportStep,
      QuarantineStep, DrainStep, ExecuteStep

\* drain_next and the disk agree on the queue until the head is done.
LEMMA LocalQueueStep == SpawnInv /\ [Next]_vars => LocalQueueOK'
<1> DEFINE Goal == LocalQueueOK'
<1> SUFFICES ASSUME DiskTypeOK, DaemonTypeOK, CurOK, LocalQueueOK, [Next]_vars PROVE Goal
  BY DEF SpawnInv, TypeOK
<1> USE DEF LocalQueueOK, OnHead, HeadPCs, SharedPCs, disk, os, daemon, books
<1>1. ASSUME SubmitQueue PROVE Goal
  BY <1>1 DEF SubmitQueue, Forget
<1>2. ASSUME TickBegin PROVE Goal
  BY <1>2 DEF TickBegin
<1>3. ASSUME ScanDone PROVE Goal
  BY <1>3 DEF ScanDone, Forget
<1>4. ASSUME InspectInactive PROVE Goal
  BY <1>4 DEF InspectInactive, Inspecting, ProcessGone, Goto
<1>5. ASSUME InspectActive PROVE Goal
  BY <1>5 DEF InspectActive, Inspecting, LeaveRunning, Forget
<1>6. ASSUME InspectExpired PROVE Goal
  BY <1>6 DEF InspectExpired, Inspecting, Goto
<1>7. ASSUME RecordKill PROVE Goal
  BY <1>7 DEF RecordKill, Goto, TickError, Forget
<1>8. ASSUME ForceKill PROVE Goal
  BY <1>8 DEF ForceKill, ProcessGone, Goto
<1>9. ASSUME WriteRecoveryResult PROVE Goal
  BY <1>9 DEF WriteRecoveryResult, Synth
<1>10. ASSUME EnsureLocalReport PROVE Goal
  BY <1>10 DEF EnsureLocalReport, Goto
<1>11. ASSUME PrepareEnvelope PROVE Goal
  BY <1>11 DEF PrepareEnvelope, Goto
<1>12. ASSUME PrepareState PROVE Goal
  BY <1>12 DEF PrepareState, Goto
<1>13. ASSUME RebuildEnvelope PROVE Goal
  BY <1>13 DEF RebuildEnvelope, Goto
<1>14. ASSUME RemoveRunning PROVE Goal
  BY <1>14 DEF RemoveRunning, Goto
<1>15. ASSUME QuarantineDropState PROVE Goal
  BY <1>15 DEF QuarantineDropState, Goto
<1>16. ASSUME QuarantineDropEnvelope PROVE Goal
  BY <1>16 DEF QuarantineDropEnvelope, Goto
<1>17. ASSUME QuarantineStoreHistory PROVE Goal
  BY <1>17 DEF QuarantineStoreHistory, Goto
<1>18. ASSUME QuarantineDequeue PROVE Goal
  BY <1>18 DEF QuarantineDequeue, Goto
<1>19. ASSUME QuarantineDropRunning PROVE Goal
  BY <1>19 DEF QuarantineDropRunning, Goto, Forget
<1>20. ASSUME DrainLoadQueue PROVE Goal
  BY <1>20 DEF DrainLoadQueue
<1>21. ASSUME HeadEmpty PROVE Goal
  BY <1>21 DEF HeadEmpty, Forget
<1>22. ASSUME HeadQuarantine PROVE Goal
  BY <1>22 DEF HeadQuarantine, Quarantine
<1>23. ASSUME HeadBegin PROVE Goal
  <2>1. InQueue(Head(lq), lq)
    BY <1>23 DEF HeadBegin, DaemonTypeOK, InQueue
  <2> QED
    BY <1>23, <2>1 DEF HeadBegin
<1>24. ASSUME ReconcileCompleted PROVE Goal
  BY <1>24 DEF ReconcileCompleted, Ready, Readable
<1>25. ASSUME ReconcileUnreadable PROVE Goal
  BY <1>25 DEF ReconcileUnreadable, TickError, Forget
<1>26. ASSUME DequeueCompleted PROVE Goal
  BY <1>26 DEF DequeueCompleted, Forget
<1>27. ASSUME Spawn PROVE Goal
  BY <1>27 DEF Spawn
<1>28. ASSUME StoreRunning PROVE Goal
  BY <1>28 DEF StoreRunning, Goto
<1>29. ASSUME ChildExited PROVE Goal
  BY <1>29 DEF ChildExited
<1>30. ASSUME WaitTimesOut PROVE Goal
  BY <1>30 DEF WaitTimesOut, Goto, Quarantine
<1>31. ASSUME GraceExpires PROVE Goal
  BY <1>31 DEF GraceExpires, Quarantine
<1>32. ASSUME CollectResult PROVE Goal
  BY <1>32 DEF CollectResult, CollectedResult, Synth
<1>33. ASSUME CollectQuarantine PROVE Goal
  BY <1>33 DEF CollectQuarantine, Quarantine
<1>34. ASSUME StoreFinished PROVE Goal
  BY <1>34 DEF StoreFinished, Goto
<1>35. ASSUME Restart PROVE Goal
  BY <1>35 DEF Restart, Forget
<1>36. ASSUME SubmitQueueFails PROVE Goal
  BY <1>36 DEF SubmitQueueFails, Fault, Forget
<1>37. ASSUME InspectUnavailable PROVE Goal
  BY <1>37 DEF InspectUnavailable, Inspecting, LeaveRunning, Forget
<1>38. ASSUME ForceKillUnconfirmed PROVE Goal
  BY <1>38 DEF ForceKillUnconfirmed, LeaveRunning, Forget
<1>39. ASSUME ReportFails PROVE Goal
  BY <1>39 DEF ReportFails, Quarantine, Forget
<1>40. ASSUME SpawnFails PROVE Goal
  BY <1>40 DEF SpawnFails, Quarantine
<1>41. ASSUME StoreRunningFails PROVE Goal
  BY <1>41 DEF StoreRunningFails, Quarantine
<1>42. ASSUME StoreFinishedFails PROVE Goal
  BY <1>42 DEF StoreFinishedFails, Quarantine
<1>43. ASSUME Crash PROVE Goal
  BY <1>43 DEF Crash, Forget
<1>44. ASSUME NEW e \in Exec, ScanQuarantine(e) PROVE Goal
  BY <1>44 DEF ScanQuarantine, Quarantine
<1>45. ASSUME NEW e \in Exec, ScanHasResult(e) PROVE Goal
  BY <1>45 DEF ScanHasResult, Readable
<1>46. ASSUME NEW e \in Exec, ScanNoResult(e) PROVE Goal
  BY <1>46 DEF ScanNoResult
<1>47. ASSUME NEW e \in Exec, SubmitPlan(e) PROVE Goal
  BY <1>47 DEF SubmitPlan
<1>48. ASSUME NEW e \in Exec, DeadlineElapses(e) PROVE Goal
  BY <1>48 DEF DeadlineElapses
<1>49. ASSUME NEW e \in Exec, Corrupt(e) PROVE Goal
  BY <1>49 DEF Corrupt, Readable, Synth
<1>50. ASSUME NEW e \in Exec, NEW k \in 1..MaxSpawns, ChildWrites(e, k) PROVE Goal
  BY <1>50 DEF ChildWrites
<1>51. ASSUME NEW e \in Exec, NEW k \in 1..MaxSpawns, ChildExits(e, k) PROVE Goal
  BY <1>51 DEF ChildExits
<1>52. ASSUME NEW e \in Exec, NEW k \in 1..MaxSpawns, ChildFails(e, k) PROVE Goal
  BY <1>52 DEF ChildFails
<1>53. CASE UNCHANGED vars
  BY <1>53 DEF vars
<1> QED
  BY <1>1, <1>2, <1>3, <1>4, <1>5, <1>6, <1>7, <1>8, <1>9, <1>10, <1>11, <1>12, <1>13, <1>14, <1>15, <1>16, <1>17, <1>18, <1>19, <1>20, <1>21, <1>22, <1>23, <1>24, <1>25, <1>26, <1>27, <1>28, <1>29, <1>30, <1>31, <1>32, <1>33, <1>34, <1>35, <1>36, <1>37, <1>38, <1>39, <1>40, <1>41, <1>42, <1>43, <1>44, <1>45, <1>46, <1>47, <1>48, <1>49, <1>50, <1>51, <1>52, <1>53
  DEF Next, DaemonStep, FaultStep, ChildStep, RecoverStep, ControlStep, ReportStep,
      QuarantineStep, DrainStep, ExecuteStep

\* Spawns and unrecorded spawns stay within one of each other.
LEMMA CountStep == SpawnInv /\ [Next]_vars => CountOK'
<1> DEFINE Goal == CountOK'
<1> SUFFICES ASSUME DiskTypeOK, OsTypeOK, BooksTypeOK, DaemonTypeOK, CurOK, LocalQueueOK, CountOK, EvidenceOK, ResultOK, [Next]_vars PROVE Goal
  BY DEF SpawnInv, TypeOK
<1> USE DEF CountOK, disk, os, daemon, books
<1>1. ASSUME SubmitQueue PROVE Goal
  BY <1>1 DEF SubmitQueue, Forget
<1>2. ASSUME TickBegin PROVE Goal
  BY <1>2 DEF TickBegin
<1>3. ASSUME ScanDone PROVE Goal
  BY <1>3 DEF ScanDone, Forget
<1>4. ASSUME InspectInactive PROVE Goal
  BY <1>4 DEF InspectInactive, Inspecting, ProcessGone, Goto
<1>5. ASSUME InspectActive PROVE Goal
  BY <1>5 DEF InspectActive, Inspecting, LeaveRunning, Forget
<1>6. ASSUME InspectExpired PROVE Goal
  BY <1>6 DEF InspectExpired, Inspecting, Goto
<1>7. ASSUME RecordKill PROVE Goal
  BY <1>7 DEF RecordKill, Goto, TickError, Forget
<1>8. ASSUME ForceKill PROVE Goal
  BY <1>8 DEF ForceKill, ProcessGone, Goto
<1>9. ASSUME WriteRecoveryResult PROVE Goal
  BY <1>9 DEF WriteRecoveryResult, Synth
<1>10. ASSUME EnsureLocalReport PROVE Goal
  BY <1>10 DEF EnsureLocalReport, Goto
<1>11. ASSUME PrepareEnvelope PROVE Goal
  BY <1>11 DEF PrepareEnvelope, Goto
<1>12. ASSUME PrepareState PROVE Goal
  BY <1>12 DEF PrepareState, Goto
<1>13. ASSUME RebuildEnvelope PROVE Goal
  BY <1>13 DEF RebuildEnvelope, Goto
<1>14. ASSUME RemoveRunning PROVE Goal
  BY <1>14 DEF RemoveRunning, Goto
<1>15. ASSUME QuarantineDropState PROVE Goal
  BY <1>15 DEF QuarantineDropState, Goto
<1>16. ASSUME QuarantineDropEnvelope PROVE Goal
  BY <1>16 DEF QuarantineDropEnvelope, Goto
<1>17. ASSUME QuarantineStoreHistory PROVE Goal
  BY <1>17 DEF QuarantineStoreHistory, Goto
<1>18. ASSUME QuarantineDequeue PROVE Goal
  BY <1>18 DEF QuarantineDequeue, Goto
<1>19. ASSUME QuarantineDropRunning PROVE Goal
  BY <1>19 DEF QuarantineDropRunning, Goto, Forget
<1>20. ASSUME DrainLoadQueue PROVE Goal
  BY <1>20 DEF DrainLoadQueue
<1>21. ASSUME HeadEmpty PROVE Goal
  BY <1>21 DEF HeadEmpty, Forget
<1>22. ASSUME HeadQuarantine PROVE Goal
  BY <1>22 DEF HeadQuarantine, Quarantine
<1>23. ASSUME HeadBegin PROVE Goal
  BY <1>23 DEF HeadBegin
<1>24. ASSUME ReconcileCompleted PROVE Goal
  <2>1. cur \in Exec /\ InQueue(cur, queue)
    BY <1>24, CurInExec DEF ReconcileCompleted, Busy, PCs, LocalQueueOK, OnHead, HeadPCs
  <2>2. ASSUME pc' = "spawn" PROVE running[cur].st = "none" /\ result[cur].kind = "none"
    BY <1>24, <2>2 DEF ReconcileCompleted, Ready, Readable
  <2>3. pc' = "spawn" => spawns[cur] = unrec[cur]
    BY <1>24, <2>1, <2>2 DEF ReconcileCompleted, EvidenceOK, OsTypeOK, BooksTypeOK
  <2>4. pc' \notin {"submit", "store"} /\ UNCHANGED <<plan, spawns, unrec, cur>>
    BY <1>24 DEF ReconcileCompleted
  <2> QED
    BY <2>3, <2>4
<1>25. ASSUME ReconcileUnreadable PROVE Goal
  BY <1>25 DEF ReconcileUnreadable, TickError, Forget
<1>26. ASSUME DequeueCompleted PROVE Goal
  BY <1>26 DEF DequeueCompleted, Forget
<1>27. ASSUME Spawn PROVE Goal
  <2>1. cur \in Exec
    BY <1>27, CurInExec DEF Spawn, Busy, PCs
  <2> QED
    BY <1>27, <2>1 DEF Spawn, DiskTypeOK, OsTypeOK, BooksTypeOK
<1>28. ASSUME StoreRunning PROVE Goal
  BY <1>28 DEF StoreRunning, Goto
<1>29. ASSUME ChildExited PROVE Goal
  BY <1>29 DEF ChildExited
<1>30. ASSUME WaitTimesOut PROVE Goal
  BY <1>30 DEF WaitTimesOut, Goto, Quarantine
<1>31. ASSUME GraceExpires PROVE Goal
  BY <1>31 DEF GraceExpires, Quarantine
<1>32. ASSUME CollectResult PROVE Goal
  BY <1>32 DEF CollectResult, CollectedResult, Synth
<1>33. ASSUME CollectQuarantine PROVE Goal
  BY <1>33 DEF CollectQuarantine, Quarantine
<1>34. ASSUME StoreFinished PROVE Goal
  BY <1>34 DEF StoreFinished, Goto
<1>35. ASSUME Restart PROVE Goal
  BY <1>35 DEF Restart, Forget
<1>36. ASSUME SubmitQueueFails PROVE Goal
  <2>1. cur \in Exec
    BY <1>36, CurInExec DEF SubmitQueueFails, Busy, PCs
  <2> QED
    BY <1>36, <2>1 DEF SubmitQueueFails, Forget, DiskTypeOK
<1>37. ASSUME InspectUnavailable PROVE Goal
  BY <1>37 DEF InspectUnavailable, Inspecting, LeaveRunning, Forget
<1>38. ASSUME ForceKillUnconfirmed PROVE Goal
  BY <1>38 DEF ForceKillUnconfirmed, LeaveRunning, Forget
<1>39. ASSUME ReportFails PROVE Goal
  BY <1>39 DEF ReportFails, Quarantine, Forget
<1>40. ASSUME SpawnFails PROVE Goal
  BY <1>40 DEF SpawnFails, Quarantine
<1>41. ASSUME StoreRunningFails PROVE Goal
  <2>1. cur \in Exec
    BY <1>41, CurInExec DEF StoreRunningFails, Busy, PCs
  <2> QED
    BY <1>41, <2>1 DEF StoreRunningFails, Quarantine, DiskTypeOK, OsTypeOK, BooksTypeOK
<1>42. ASSUME StoreFinishedFails PROVE Goal
  BY <1>42 DEF StoreFinishedFails, Quarantine
<1>43. ASSUME Crash PROVE Goal
  <2>1. CASE pc = "store"
    <3>1. cur \in Exec
      BY <2>1, CurInExec DEF Busy, PCs
    <3> QED
      BY <1>43, <2>1, <3>1 DEF Crash, Forget, DiskTypeOK, OsTypeOK, BooksTypeOK
  <2>2. CASE pc # "store"
    BY <1>43, <2>2 DEF Crash, Forget
  <2> QED
    BY <2>1, <2>2
<1>44. ASSUME NEW e \in Exec, ScanQuarantine(e) PROVE Goal
  BY <1>44 DEF ScanQuarantine, Quarantine
<1>45. ASSUME NEW e \in Exec, ScanHasResult(e) PROVE Goal
  BY <1>45 DEF ScanHasResult, Readable
<1>46. ASSUME NEW e \in Exec, ScanNoResult(e) PROVE Goal
  BY <1>46 DEF ScanNoResult
<1>47. ASSUME NEW e \in Exec, SubmitPlan(e) PROVE Goal
  BY <1>47 DEF SubmitPlan, DiskTypeOK
<1>48. ASSUME NEW e \in Exec, DeadlineElapses(e) PROVE Goal
  BY <1>48 DEF DeadlineElapses
<1>49. ASSUME NEW e \in Exec, Corrupt(e) PROVE Goal
  BY <1>49, CorruptKeepsFiles DEF Corrupt
<1>50. ASSUME NEW e \in Exec, NEW k \in 1..MaxSpawns, ChildWrites(e, k) PROVE Goal
  BY <1>50 DEF ChildWrites
<1>51. ASSUME NEW e \in Exec, NEW k \in 1..MaxSpawns, ChildExits(e, k) PROVE Goal
  BY <1>51 DEF ChildExits
<1>52. ASSUME NEW e \in Exec, NEW k \in 1..MaxSpawns, ChildFails(e, k) PROVE Goal
  BY <1>52 DEF ChildFails
<1>53. CASE UNCHANGED vars
  BY <1>53 DEF vars
<1> QED
  BY <1>1, <1>2, <1>3, <1>4, <1>5, <1>6, <1>7, <1>8, <1>9, <1>10, <1>11, <1>12, <1>13, <1>14, <1>15, <1>16, <1>17, <1>18, <1>19, <1>20, <1>21, <1>22, <1>23, <1>24, <1>25, <1>26, <1>27, <1>28, <1>29, <1>30, <1>31, <1>32, <1>33, <1>34, <1>35, <1>36, <1>37, <1>38, <1>39, <1>40, <1>41, <1>42, <1>43, <1>44, <1>45, <1>46, <1>47, <1>48, <1>49, <1>50, <1>51, <1>52, <1>53
  DEF Next, DaemonStep, FaultStep, ChildStep, RecoverStep, ControlStep, ReportStep,
      QuarantineStep, DrainStep, ExecuteStep

\* The trace of a recorded spawn outlives its queue entry.
LEMMA EvidenceStep == SpawnInv /\ [Next]_vars => EvidenceOK'
<1> DEFINE Goal == EvidenceOK'
<1> SUFFICES ASSUME DiskTypeOK, OsTypeOK, BooksTypeOK, DaemonTypeOK, CurOK, QueueOK, LocalQueueOK, CountOK, EvidenceOK, ResultOK, [Next]_vars PROVE Goal
  BY DEF SpawnInv, TypeOK
<1> USE DEF EvidenceOK, disk, os, daemon, books
<1>1. ASSUME SubmitQueue PROVE Goal
  <2>1. cur \in Exec /\ queue \in Seq(Exec) /\ spawns[cur] = unrec[cur]
    BY <1>1, CurInExec DEF SubmitQueue, Busy, PCs, DiskTypeOK, CountOK
  <2>2. \A x : InQueue(x, queue') <=> InQueue(x, queue) \/ x = cur
    BY <1>1, <2>1, EnqueueProperties DEF SubmitQueue, QueueOK
  <2> QED
    BY <1>1, <2>1, <2>2 DEF SubmitQueue, Forget, OsTypeOK, BooksTypeOK
<1>2. ASSUME TickBegin PROVE Goal
  BY <1>2 DEF TickBegin
<1>3. ASSUME ScanDone PROVE Goal
  BY <1>3 DEF ScanDone, Forget
<1>4. ASSUME InspectInactive PROVE Goal
  BY <1>4 DEF InspectInactive, Inspecting, ProcessGone, Goto
<1>5. ASSUME InspectActive PROVE Goal
  BY <1>5 DEF InspectActive, Inspecting, LeaveRunning, Forget
<1>6. ASSUME InspectExpired PROVE Goal
  BY <1>6 DEF InspectExpired, Inspecting, Goto
<1>7. ASSUME RecordKill PROVE Goal
  BY <1>7 DEF RecordKill, Goto, TickError, Forget
<1>8. ASSUME ForceKill PROVE Goal
  BY <1>8 DEF ForceKill, ProcessGone, Goto
<1>9. ASSUME WriteRecoveryResult PROVE Goal
  BY <1>9 DEF WriteRecoveryResult, Synth
<1>10. ASSUME EnsureLocalReport PROVE Goal
  BY <1>10 DEF EnsureLocalReport, Goto
<1>11. ASSUME PrepareEnvelope PROVE Goal
  BY <1>11 DEF PrepareEnvelope, Goto
<1>12. ASSUME PrepareState PROVE Goal
  BY <1>12 DEF PrepareState, Goto
<1>13. ASSUME RebuildEnvelope PROVE Goal
  BY <1>13 DEF RebuildEnvelope, Goto
<1>14. ASSUME RemoveRunning PROVE Goal
  <2>1. cur \in Exec /\ result[cur].kind # "none"
    BY <1>14, CurInExec DEF RemoveRunning, Busy, PCs, ResultOK, ResultPCs
  <2> QED
    BY <1>14, <2>1 DEF RemoveRunning, Goto, DiskTypeOK
<1>15. ASSUME QuarantineDropState PROVE Goal
  BY <1>15 DEF QuarantineDropState, Goto
<1>16. ASSUME QuarantineDropEnvelope PROVE Goal
  BY <1>16 DEF QuarantineDropEnvelope, Goto
<1>17. ASSUME QuarantineStoreHistory PROVE Goal
  BY <1>17 DEF QuarantineStoreHistory, Goto
<1>18. ASSUME QuarantineDequeue PROVE Goal
  <2>1. \A x : InQueue(x, queue') <=> InQueue(x, queue) /\ x # cur
    BY <1>18, RemoveProperties DEF QuarantineDequeue, DiskTypeOK, QueueOK
  <2> QED
    BY <1>18, <2>1 DEF QuarantineDequeue, Goto
<1>19. ASSUME QuarantineDropRunning PROVE Goal
  <2>1. cur \in Exec /\ ~ InQueue(cur, queue)
    BY <1>19, CurInExec DEF QuarantineDropRunning, Busy, PCs, QueueOK
  <2> QED
    BY <1>19, <2>1 DEF QuarantineDropRunning, Forget, DiskTypeOK
<1>20. ASSUME DrainLoadQueue PROVE Goal
  BY <1>20 DEF DrainLoadQueue
<1>21. ASSUME HeadEmpty PROVE Goal
  BY <1>21 DEF HeadEmpty, Forget
<1>22. ASSUME HeadQuarantine PROVE Goal
  BY <1>22 DEF HeadQuarantine, Quarantine
<1>23. ASSUME HeadBegin PROVE Goal
  BY <1>23 DEF HeadBegin
<1>24. ASSUME ReconcileCompleted PROVE Goal
  BY <1>24 DEF ReconcileCompleted, Ready, Readable
<1>25. ASSUME ReconcileUnreadable PROVE Goal
  BY <1>25 DEF ReconcileUnreadable, TickError, Forget
<1>26. ASSUME DequeueCompleted PROVE Goal
  <2>1. lq = queue
    BY <1>26 DEF DequeueCompleted, LocalQueueOK, OnHead, HeadPCs
  <2>2. \A x : InQueue(x, queue') <=> InQueue(x, queue) /\ x # cur
    BY <1>26, <2>1, RemoveProperties DEF DequeueCompleted, DiskTypeOK, QueueOK
  <2> QED
    BY <1>26, <2>2 DEF DequeueCompleted, Forget
<1>27. ASSUME Spawn PROVE Goal
  BY <1>27 DEF Spawn
<1>28. ASSUME StoreRunning PROVE Goal
  <2>1. cur \in Exec
    BY <1>28, CurInExec DEF StoreRunning, Busy, PCs
  <2>2. \A e \in Exec : running'[e].st = IF e = cur THEN "ok" ELSE running[e].st
    BY <1>28, <2>1 DEF StoreRunning, DiskTypeOK
  <2> QED
    BY <1>28, <2>2 DEF StoreRunning, Goto
<1>29. ASSUME ChildExited PROVE Goal
  BY <1>29 DEF ChildExited
<1>30. ASSUME WaitTimesOut PROVE Goal
  BY <1>30 DEF WaitTimesOut, Goto, Quarantine
<1>31. ASSUME GraceExpires PROVE Goal
  BY <1>31 DEF GraceExpires, Quarantine
<1>32. ASSUME CollectResult PROVE Goal
  BY <1>32 DEF CollectResult, CollectedResult, Synth
<1>33. ASSUME CollectQuarantine PROVE Goal
  BY <1>33 DEF CollectQuarantine, Quarantine
<1>34. ASSUME StoreFinished PROVE Goal
  BY <1>34 DEF StoreFinished, Goto
<1>35. ASSUME Restart PROVE Goal
  BY <1>35 DEF Restart, Forget
<1>36. ASSUME SubmitQueueFails PROVE Goal
  BY <1>36 DEF SubmitQueueFails, Fault, Forget
<1>37. ASSUME InspectUnavailable PROVE Goal
  BY <1>37 DEF InspectUnavailable, Inspecting, LeaveRunning, Forget
<1>38. ASSUME ForceKillUnconfirmed PROVE Goal
  BY <1>38 DEF ForceKillUnconfirmed, LeaveRunning, Forget
<1>39. ASSUME ReportFails PROVE Goal
  BY <1>39 DEF ReportFails, Quarantine, Forget
<1>40. ASSUME SpawnFails PROVE Goal
  BY <1>40 DEF SpawnFails, Quarantine
<1>41. ASSUME StoreRunningFails PROVE Goal
  <2>1. cur \in Exec /\ spawns[cur] = unrec[cur] + 1
    BY <1>41, CurInExec DEF StoreRunningFails, Busy, PCs, CountOK
  <2>2. \A e \in Exec : unrec'[e] = IF e = cur THEN unrec[e] + 1 ELSE unrec[e]
    BY <1>41, <2>1 DEF StoreRunningFails, BooksTypeOK
  <2>3. UNCHANGED <<spawns, queue, running, result>> /\ unrec[cur] \in Nat
    BY <1>41, <2>1 DEF StoreRunningFails, BooksTypeOK
  <2> QED
    BY <1>41, <2>1, <2>2, <2>3 DEF StoreRunningFails
<1>42. ASSUME StoreFinishedFails PROVE Goal
  BY <1>42 DEF StoreFinishedFails, Quarantine
<1>43. ASSUME Crash PROVE Goal
  <2>1. CASE pc = "store"
    <3>1. cur \in Exec /\ spawns[cur] = unrec[cur] + 1
      BY <2>1, CurInExec DEF Busy, PCs, CountOK
    <3>2. \A e \in Exec : unrec'[e] = IF e = cur THEN unrec[e] + 1 ELSE unrec[e]
      BY <1>43, <2>1, <3>1 DEF Crash, BooksTypeOK
    <3>3. UNCHANGED <<spawns, queue, running, result>> /\ unrec[cur] \in Nat
      BY <1>43, <3>1 DEF Crash, BooksTypeOK
    <3> QED
      BY <2>1, <3>1, <3>2, <3>3
  <2>2. CASE pc # "store"
    BY <1>43, <2>2 DEF Crash, Forget
  <2> QED
    BY <2>1, <2>2
<1>44. ASSUME NEW e \in Exec, ScanQuarantine(e) PROVE Goal
  BY <1>44 DEF ScanQuarantine, Quarantine
<1>45. ASSUME NEW e \in Exec, ScanHasResult(e) PROVE Goal
  BY <1>45 DEF ScanHasResult, Readable
<1>46. ASSUME NEW e \in Exec, ScanNoResult(e) PROVE Goal
  BY <1>46 DEF ScanNoResult
<1>47. ASSUME NEW e \in Exec, SubmitPlan(e) PROVE Goal
  BY <1>47 DEF SubmitPlan
<1>48. ASSUME NEW e \in Exec, DeadlineElapses(e) PROVE Goal
  BY <1>48 DEF DeadlineElapses
<1>49. ASSUME NEW e \in Exec, Corrupt(e) PROVE Goal
  BY <1>49, CorruptKeepsFiles DEF Corrupt
<1>50. ASSUME NEW e \in Exec, NEW k \in 1..MaxSpawns, ChildWrites(e, k) PROVE Goal
  BY <1>50 DEF ChildWrites
<1>51. ASSUME NEW e \in Exec, NEW k \in 1..MaxSpawns, ChildExits(e, k) PROVE Goal
  BY <1>51 DEF ChildExits
<1>52. ASSUME NEW e \in Exec, NEW k \in 1..MaxSpawns, ChildFails(e, k) PROVE Goal
  BY <1>52 DEF ChildFails
<1>53. CASE UNCHANGED vars
  BY <1>53 DEF vars
<1> QED
  BY <1>1, <1>2, <1>3, <1>4, <1>5, <1>6, <1>7, <1>8, <1>9, <1>10, <1>11, <1>12, <1>13, <1>14, <1>15, <1>16, <1>17, <1>18, <1>19, <1>20, <1>21, <1>22, <1>23, <1>24, <1>25, <1>26, <1>27, <1>28, <1>29, <1>30, <1>31, <1>32, <1>33, <1>34, <1>35, <1>36, <1>37, <1>38, <1>39, <1>40, <1>41, <1>42, <1>43, <1>44, <1>45, <1>46, <1>47, <1>48, <1>49, <1>50, <1>51, <1>52, <1>53
  DEF Next, DaemonStep, FaultStep, ChildStep, RecoverStep, ControlStep, ReportStep,
      QuarantineStep, DrainStep, ExecuteStep

\* No report without a result.
LEMMA ResultStep == SpawnInv /\ [Next]_vars => ResultOK'
<1> DEFINE Goal == ResultOK'
<1> SUFFICES ASSUME DiskTypeOK, DaemonTypeOK, CurOK, ResultOK, [Next]_vars PROVE Goal
  BY DEF SpawnInv, TypeOK
<1> USE DEF ResultOK, ResultPCs, disk, os, daemon, books
<1>1. ASSUME SubmitQueue PROVE Goal
  BY <1>1 DEF SubmitQueue, Forget
<1>2. ASSUME TickBegin PROVE Goal
  BY <1>2 DEF TickBegin
<1>3. ASSUME ScanDone PROVE Goal
  BY <1>3 DEF ScanDone, Forget
<1>4. ASSUME InspectInactive PROVE Goal
  BY <1>4 DEF InspectInactive, Inspecting, ProcessGone, Goto
<1>5. ASSUME InspectActive PROVE Goal
  BY <1>5 DEF InspectActive, Inspecting, LeaveRunning, Forget
<1>6. ASSUME InspectExpired PROVE Goal
  BY <1>6 DEF InspectExpired, Inspecting, Goto
<1>7. ASSUME RecordKill PROVE Goal
  BY <1>7 DEF RecordKill, Goto, TickError, Forget
<1>8. ASSUME ForceKill PROVE Goal
  BY <1>8 DEF ForceKill, ProcessGone, Goto
<1>9. ASSUME WriteRecoveryResult PROVE Goal
  <2>1. cur \in Exec
    BY <1>9, CurInExec DEF WriteRecoveryResult, Busy, PCs
  <2>2. \A e \in Exec : result'[e] = IF e = cur THEN Synth("recovered") ELSE result[e]
    BY <1>9, <2>1 DEF WriteRecoveryResult, DiskTypeOK
  <2> QED
    BY <1>9, <2>1, <2>2 DEF WriteRecoveryResult, Synth
<1>10. ASSUME EnsureLocalReport PROVE Goal
  BY <1>10 DEF EnsureLocalReport, Goto
<1>11. ASSUME PrepareEnvelope PROVE Goal
  BY <1>11 DEF PrepareEnvelope, Goto
<1>12. ASSUME PrepareState PROVE Goal
  <2>1. cur \in Exec /\ result[cur].kind # "none"
    BY <1>12, CurInExec DEF PrepareState, Busy, PCs
  <2> QED
    BY <1>12, <2>1 DEF PrepareState, Goto, DiskTypeOK
<1>13. ASSUME RebuildEnvelope PROVE Goal
  BY <1>13 DEF RebuildEnvelope, Goto
<1>14. ASSUME RemoveRunning PROVE Goal
  BY <1>14 DEF RemoveRunning, Goto
<1>15. ASSUME QuarantineDropState PROVE Goal
  BY <1>15 DEF QuarantineDropState, Goto, DiskTypeOK, NoRep
<1>16. ASSUME QuarantineDropEnvelope PROVE Goal
  BY <1>16 DEF QuarantineDropEnvelope, Goto
<1>17. ASSUME QuarantineStoreHistory PROVE Goal
  BY <1>17 DEF QuarantineStoreHistory, Goto
<1>18. ASSUME QuarantineDequeue PROVE Goal
  BY <1>18 DEF QuarantineDequeue, Goto
<1>19. ASSUME QuarantineDropRunning PROVE Goal
  BY <1>19 DEF QuarantineDropRunning, Goto, Forget
<1>20. ASSUME DrainLoadQueue PROVE Goal
  BY <1>20 DEF DrainLoadQueue
<1>21. ASSUME HeadEmpty PROVE Goal
  BY <1>21 DEF HeadEmpty, Forget
<1>22. ASSUME HeadQuarantine PROVE Goal
  BY <1>22 DEF HeadQuarantine, Quarantine
<1>23. ASSUME HeadBegin PROVE Goal
  BY <1>23 DEF HeadBegin
<1>24. ASSUME ReconcileCompleted PROVE Goal
  <2>1. cur \in Exec
    BY <1>24, CurInExec DEF ReconcileCompleted, Busy, PCs
  <2>2. pc' \in {"reported", "ensure"} => result[cur].kind # "none"
    BY <1>24, <2>1 DEF ReconcileCompleted, Ready, Readable
  <2>3. pc' \in {"reported", "ensure", "spawn", "synth"} /\ UNCHANGED <<cur, result, rep, cls>>
    BY <1>24 DEF ReconcileCompleted
  <2> QED
    BY <2>2, <2>3
<1>25. ASSUME ReconcileUnreadable PROVE Goal
  BY <1>25 DEF ReconcileUnreadable, TickError, Forget
<1>26. ASSUME DequeueCompleted PROVE Goal
  BY <1>26 DEF DequeueCompleted, Forget
<1>27. ASSUME Spawn PROVE Goal
  BY <1>27 DEF Spawn
<1>28. ASSUME StoreRunning PROVE Goal
  BY <1>28 DEF StoreRunning, Goto
<1>29. ASSUME ChildExited PROVE Goal
  BY <1>29 DEF ChildExited
<1>30. ASSUME WaitTimesOut PROVE Goal
  BY <1>30 DEF WaitTimesOut, Goto, Quarantine
<1>31. ASSUME GraceExpires PROVE Goal
  BY <1>31 DEF GraceExpires, Quarantine
<1>32. ASSUME CollectResult PROVE Goal
  <2>1. cur \in Exec /\ cls \in {"completed", "completed_late", "timed_out"}
    BY <1>32, CurInExec DEF CollectResult, Busy, PCs, DaemonTypeOK
  <2>2. CollectedResult(result[cur], cls).kind # "none"
    BY <2>1 DEF CollectedResult, Synth
  <2>3. \A e \in Exec : result'[e] = IF e = cur THEN CollectedResult(result[cur], cls) ELSE result[e]
    BY <1>32, <2>1 DEF CollectResult, DiskTypeOK
  <2> QED
    BY <1>32, <2>1, <2>2, <2>3 DEF CollectResult
<1>33. ASSUME CollectQuarantine PROVE Goal
  BY <1>33 DEF CollectQuarantine, Quarantine
<1>34. ASSUME StoreFinished PROVE Goal
  BY <1>34 DEF StoreFinished, Goto
<1>35. ASSUME Restart PROVE Goal
  BY <1>35 DEF Restart, Forget
<1>36. ASSUME SubmitQueueFails PROVE Goal
  BY <1>36 DEF SubmitQueueFails, Fault, Forget
<1>37. ASSUME InspectUnavailable PROVE Goal
  BY <1>37 DEF InspectUnavailable, Inspecting, LeaveRunning, Forget
<1>38. ASSUME ForceKillUnconfirmed PROVE Goal
  BY <1>38 DEF ForceKillUnconfirmed, LeaveRunning, Forget
<1>39. ASSUME ReportFails PROVE Goal
  BY <1>39 DEF ReportFails, Quarantine, Forget
<1>40. ASSUME SpawnFails PROVE Goal
  BY <1>40 DEF SpawnFails, Quarantine
<1>41. ASSUME StoreRunningFails PROVE Goal
  BY <1>41 DEF StoreRunningFails, Quarantine
<1>42. ASSUME StoreFinishedFails PROVE Goal
  BY <1>42 DEF StoreFinishedFails, Quarantine
<1>43. ASSUME Crash PROVE Goal
  BY <1>43 DEF Crash, Forget
<1>44. ASSUME NEW e \in Exec, ScanQuarantine(e) PROVE Goal
  BY <1>44 DEF ScanQuarantine, Quarantine
<1>45. ASSUME NEW e \in Exec, ScanHasResult(e) PROVE Goal
  BY <1>45 DEF ScanHasResult, Readable
<1>46. ASSUME NEW e \in Exec, ScanNoResult(e) PROVE Goal
  BY <1>46 DEF ScanNoResult
<1>47. ASSUME NEW e \in Exec, SubmitPlan(e) PROVE Goal
  BY <1>47 DEF SubmitPlan
<1>48. ASSUME NEW e \in Exec, DeadlineElapses(e) PROVE Goal
  BY <1>48 DEF DeadlineElapses
<1>49. ASSUME NEW e \in Exec, Corrupt(e) PROVE Goal
  BY <1>49, CorruptKeepsFiles DEF Corrupt, CurOK, Busy, PCs
<1>50. ASSUME NEW e \in Exec, NEW k \in 1..MaxSpawns, ChildWrites(e, k) PROVE Goal
  BY <1>50 DEF ChildWrites
<1>51. ASSUME NEW e \in Exec, NEW k \in 1..MaxSpawns, ChildExits(e, k) PROVE Goal
  BY <1>51 DEF ChildExits
<1>52. ASSUME NEW e \in Exec, NEW k \in 1..MaxSpawns, ChildFails(e, k) PROVE Goal
  BY <1>52 DEF ChildFails
<1>53. CASE UNCHANGED vars
  BY <1>53 DEF vars
<1> QED
  BY <1>1, <1>2, <1>3, <1>4, <1>5, <1>6, <1>7, <1>8, <1>9, <1>10, <1>11, <1>12, <1>13, <1>14, <1>15, <1>16, <1>17, <1>18, <1>19, <1>20, <1>21, <1>22, <1>23, <1>24, <1>25, <1>26, <1>27, <1>28, <1>29, <1>30, <1>31, <1>32, <1>33, <1>34, <1>35, <1>36, <1>37, <1>38, <1>39, <1>40, <1>41, <1>42, <1>43, <1>44, <1>45, <1>46, <1>47, <1>48, <1>49, <1>50, <1>51, <1>52, <1>53
  DEF Next, DaemonStep, FaultStep, ChildStep, RecoverStep, ControlStep, ReportStep,
      QuarantineStep, DrainStep, ExecuteStep

(***************************************************************************)
(* The theorems.                                                           *)
(***************************************************************************)

\* The empty state directory of a first start satisfies the invariant.
LEMMA InitSpawnInv == Init => SpawnInv
<1> SUFFICES ASSUME Init PROVE SpawnInv
  OBVIOUS
<1>1. <<>> \in Seq(Exec)
  OBVIOUS
<1>2. DiskTypeOK
  BY <1>1, Values DEF Init, DiskTypeOK
<1>3. OsTypeOK
  BY DEF Init, OsTypeOK, ChildStates
<1>4. DaemonTypeOK /\ CurOK
  <2>1. known \in BOOLEAN
    BY DEF Init
  <2> QED
    BY <1>1, <2>1, Values DEF Init, DaemonTypeOK, CurOK, PCs, Busy
<1>5. BooksTypeOK
  BY DEF Init, BooksTypeOK
<1>6. QueueOK /\ LocalQueueOK
  BY DEF Init, QueueOK, LocalQueueOK, Distinct, InQueue, OnHead, HeadPCs, SharedPCs
<1>7. CountOK /\ EvidenceOK
  BY DEF Init, CountOK, EvidenceOK
<1>8. ResultOK
  BY DEF Init, ResultOK, ResultPCs, NoRep
<1> QED
  BY <1>2, <1>3, <1>4, <1>5, <1>6, <1>7, <1>8 DEF SpawnInv, TypeOK

\* Every step of the daemon, a child or the environment preserves it.
LEMMA StepSpawnInv == SpawnInv /\ [Next]_vars => SpawnInv'
<1> SUFFICES ASSUME SpawnInv, [Next]_vars PROVE SpawnInv'
  OBVIOUS
<1>1. TypeOK' /\ CurOK'
  BY TypeStep DEF SpawnInv
<1> QED
  BY <1>1, QueueStep, LocalQueueStep, CountStep, EvidenceStep, ResultStep DEF SpawnInv

\* Whatever the daemon, its children, crashes, I/O errors and corrupt files do,
\* every file and the daemon's memory keep the shape their structs have.
THEOREM TypeCorrect == Spec => []TypeOK
<1>1. SpawnInv => TypeOK
  BY DEF SpawnInv
<1> QED
  BY <1>1, InitSpawnInv, StepSpawnInv, PTL DEF Spec

\* For any number of executions, crashes and faults: no execution is spawned
\* again once a running record of it was stored.  The recovery scan, the queue
\* head, quarantine and resubmission rely on each other's files for this.
THEOREM SpawnedOnceHolds == Spec => []SpawnedOnce
<1>1. SpawnInv => SpawnedOnce
  <2> SUFFICES ASSUME SpawnInv, NEW e \in Exec PROVE spawns[e] <= 1 + unrec[e]
    BY DEF SpawnedOnce
  <2>1. spawns[e] \in 0..MaxSpawns /\ unrec[e] \in Nat /\ spawns[e] <= unrec[e] + 1
    BY DEF SpawnInv, TypeOK, OsTypeOK, BooksTypeOK, CountOK
  <2> QED
    BY <2>1
<1> QED
  BY <1>1, InitSpawnInv, StepSpawnInv, PTL DEF Spec

(***************************************************************************)
(* What the execution core keeps of an execution: that it is never         *)
(* forgotten, that its report is true, that one process works at a time    *)
(* and each plan once, and that its files implement ExecutionLifecycle.    *)
(* The invariant extends the one above.                                    *)
(***************************************************************************)

-----------------------------------------------------------------------------
(* What is known of one execution, wherever the daemon stands. *)

\* A running record names a process that was spawned; processes are numbered in the order
\* they are spawned.
RecordOK(e) == running[e].st # "none" => running[e].pid \in 1..spawns[e]
ProcessesOK(e) == \A k \in 1..MaxSpawns : k > spawns[e] => child[e][k] = "none"

\* There is no result before the first spawn, and none while the only process works.
ResultAfter(e) ==
    /\ spawns[e] = 0 => result[e].kind = "none"
    /\ spawns[e] = 1 /\ result[e].kind # "none" => child[e][1] # "live"

\* The reporting state and the envelope carry the result on disk.
DigestOK(e) ==
    spawns[e] = 1 /\ rep[e].st = "ok" /\ result[e].kind # "bad" =>
        /\ rep[e].dig = result[e]
        /\ env[e].st = "ok" => env[e].res = result[e] /\ env[e].dig = result[e]

\* An execution that recovery may find is still queued, or it is quarantined.
HeldOK(e) == running[e].st # "none" => InQueue(e, queue) \/ hist[e].quarantined

\* Only what was accepted leaves a trace.
AcceptedOK(e) ==
    IF e \in accepted
    THEN plan[e] # "none" /\ (InQueue(e, queue) \/ rep[e].st # "none" \/ hist[e].quarantined)
    ELSE spawns[e] = 0 /\ rep[e].st = "none" /\ ~hist[e].quarantined /\ ~InQueue(e, queue)

TraceOK(e) ==
    RecordOK(e) /\ ProcessesOK(e) /\ ResultAfter(e) /\ DigestOK(e) /\ HeldOK(e) /\ AcceptedOK(e)

-----------------------------------------------------------------------------
(* What is known of the execution the daemon works on. *)

QuarantinePCs == {"q1", "q2", "q3", "q4", "q5"}
LoadedPCs == {"ensure", "prepEnv", "prepState", "rebuild", "finish"}
ExecutePCs == {"store", "wait", "grace", "collect", "finish"}

\* The process of a record that is looked at, or was found gone.
ProcessKnown ==
    /\ pc \in {"recInspect", "headInspect", "kill1", "kill2"} => running[cur].st # "none"
    /\ pc = "synth" \/ (pc = "reconcile" /\ running[cur].st # "none") =>
        spawns[cur] >= 1 /\ (spawns[cur] = 1 => ~Alive(child[cur][1]))
    /\ pc \in ExecutePCs => spawns[cur] >= 1
    /\ pc \in {"wait", "grace"} => running[cur].st # "none"
    /\ pc \in {"collect", "finish"} => ~Alive(child[cur][spawns[cur]])

\* The report of an execution that is about to run, or to be given up, is not there yet; that
\* of one that is done is.
ReportKnown ==
    /\ pc \in {"spawn", "store", "wait", "grace", "collect", "finish", "synth", "recInspect"} => rep[cur].st = "none"
    /\ pc \in {"kill1", "kill2"} /\ ctx = "scan" => rep[cur].st = "none"
    /\ pc = "headInspect" => ctx = "head"
    /\ pc \in {"rebuild", "reported", "qstore"} => rep[cur].st # "none"
    /\ pc \in {"q2", "q3", "q4", "q5"} => rep[cur].st = "none"

\* The result in hand is the one on disk, and so is the envelope in preparation.
LoadedKnown ==
    pc \in LoadedPCs =>
        /\ Readable(lres)
        /\ spawns[cur] >= 1
        /\ spawns[cur] = 1 => result[cur] \in {lres, Synth("bad")}
        /\ pc = "prepState" /\ env[cur].st = "ok" => env[cur].res = lres /\ env[cur].dig = lres

\* What recovery or a quarantine works on is queued or quarantined.
HeldKnown ==
    /\ pc \in SharedPCs \cup {"recInspect"} /\ ctx = "scan" => InQueue(cur, queue) \/ hist[cur].quarantined
    /\ pc \in {"q1", "q2", "q3"} => InQueue(cur, queue) \/ hist[cur].quarantined
    /\ pc \in {"q4", "q5"} => hist[cur].quarantined
    /\ pc = "qstore" => running[cur].st = "none"

AcceptedKnown ==
    /\ pc \in Busy \ {"submit"} => cur \in accepted
    /\ pc = "submit" => cur \notin accepted

PlaceOK == ProcessKnown /\ ReportKnown /\ LoadedKnown /\ HeldKnown /\ AcceptedKnown

TraceInv == SpawnInv /\ (\A e \in Exec : TraceOK(e)) /\ PlaceOK

-----------------------------------------------------------------------------
(* Without faults of the files. *)

CleanOK(e) ==
    plan[e] # "bad" /\ running[e].st # "bad" /\ result[e].kind # "bad" /\ rep[e].st # "bad" /\ env[e].st # "bad"

\* A process that works and has its record belongs to the head of the queue.
AtHead(e) == queue # <<>> /\ e = queue[1]
WorkerOK(e) == unrec[e] = 0 /\ child[e][1] = "live" => AtHead(e)

\* What was accepted is found by find_duplicate_execution.
FoundOK(e) == e \in accepted => InQueue(e, queue) \/ rep[e].st # "none" \/ (hist[e].quarantined /\ hist[e].known)

HeadKnown ==
    /\ OnHead => AtHead(cur)
    /\ pc \in {"q1", "q2", "q3", "q4"} => AtHead(cur)
    /\ pc \in QuarantinePCs => known /\ result[cur].kind # "none" /\ rep[cur].st = "none"
    /\ pc \in {"q4", "q5"} => hist[cur].known
    /\ pc = "spawn" => running[cur].st = "none"
    /\ pc \in {"prepEnv", "prepState"} => rep[cur].st = "none"

KeysOK ==
    /\ \A e, f \in accepted : Key[e] = Key[f] => e = f
    /\ pc = "submit" => \A f \in accepted : Key[f] # Key[cur]

CleanInv == (\A e \in Exec : CleanOK(e) /\ WorkerOK(e) /\ FoundOK(e)) /\ HeadKnown /\ KeysOK
FaultlessInv == faults = 0 => CleanInv

-----------------------------------------------------------------------------
(* Which actions write what. *)

\* Each file, process table and counter is written by a few operations only.
LEMMA Writers == 
  [Next]_vars =>
    /\ UNCHANGED running \/ RemoveRunning \/ QuarantineDropRunning \/ StoreRunning \/ StoreFinished
       \/ (\E e \in Exec : Corrupt(e))
    /\ UNCHANGED spawns \/ Spawn
    /\ UNCHANGED child \/ ForceKill \/ Spawn \/ StoreRunningFails \/ GraceExpires
       \/ (\E e \in Exec, k \in 1..MaxSpawns : ChildStep(e, k))
    /\ UNCHANGED result \/ WriteRecoveryResult \/ CollectResult \/ (\E e \in Exec : Corrupt(e))
       \/ (\E e \in Exec, k \in 1..MaxSpawns : ChildWrites(e, k))
    /\ UNCHANGED rep \/ PrepareState \/ QuarantineDropState \/ (\E e \in Exec : Corrupt(e))
    /\ UNCHANGED env \/ PrepareEnvelope \/ RebuildEnvelope \/ QuarantineDropEnvelope
       \/ (\E e \in Exec : Corrupt(e))
    /\ UNCHANGED hist \/ QuarantineStoreHistory
    /\ UNCHANGED queue \/ SubmitQueue \/ QuarantineDequeue \/ DequeueCompleted
    /\ UNCHANGED accepted \/ SubmitQueue
    /\ UNCHANGED plan \/ Spawn \/ SubmitQueueFails \/ (\E e \in Exec : Corrupt(e) \/ SubmitPlan(e))
    /\ UNCHANGED unrec \/ StoreRunningFails \/ Crash
    /\ UNCHANGED faults \/ faults' = faults + 1
    /\ UNCHANGED crashes \/ Crash
<1> DEFINE Goal ==
    /\ UNCHANGED running \/ RemoveRunning \/ QuarantineDropRunning \/ StoreRunning \/ StoreFinished
       \/ (\E e \in Exec : Corrupt(e))
    /\ UNCHANGED spawns \/ Spawn
    /\ UNCHANGED child \/ ForceKill \/ Spawn \/ StoreRunningFails \/ GraceExpires
       \/ (\E e \in Exec, k \in 1..MaxSpawns : ChildStep(e, k))
    /\ UNCHANGED result \/ WriteRecoveryResult \/ CollectResult \/ (\E e \in Exec : Corrupt(e))
       \/ (\E e \in Exec, k \in 1..MaxSpawns : ChildWrites(e, k))
    /\ UNCHANGED rep \/ PrepareState \/ QuarantineDropState \/ (\E e \in Exec : Corrupt(e))
    /\ UNCHANGED env \/ PrepareEnvelope \/ RebuildEnvelope \/ QuarantineDropEnvelope
       \/ (\E e \in Exec : Corrupt(e))
    /\ UNCHANGED hist \/ QuarantineStoreHistory
    /\ UNCHANGED queue \/ SubmitQueue \/ QuarantineDequeue \/ DequeueCompleted
    /\ UNCHANGED accepted \/ SubmitQueue
    /\ UNCHANGED plan \/ Spawn \/ SubmitQueueFails \/ (\E e \in Exec : Corrupt(e) \/ SubmitPlan(e))
    /\ UNCHANGED unrec \/ StoreRunningFails \/ Crash
    /\ UNCHANGED faults \/ faults' = faults + 1
    /\ UNCHANGED crashes \/ Crash
<1> SUFFICES ASSUME [Next]_vars PROVE Goal
  OBVIOUS
<1> USE DEF disk, os, daemon, books
<1>1. ASSUME SubmitQueue PROVE Goal
  BY <1>1 DEF SubmitQueue, Forget
<1>2. ASSUME TickBegin PROVE Goal
  BY <1>2 DEF TickBegin
<1>3. ASSUME ScanDone PROVE Goal
  BY <1>3 DEF ScanDone, Forget
<1>4. ASSUME InspectInactive PROVE Goal
  BY <1>4 DEF InspectInactive, Inspecting, ProcessGone, Goto
<1>5. ASSUME InspectActive PROVE Goal
  BY <1>5 DEF InspectActive, Inspecting, LeaveRunning, Forget
<1>6. ASSUME InspectExpired PROVE Goal
  BY <1>6 DEF InspectExpired, Inspecting, Goto
<1>7. ASSUME RecordKill PROVE Goal
  BY <1>7 DEF RecordKill, Goto, TickError, Forget
<1>8. ASSUME ForceKill PROVE Goal
  BY <1>8 DEF ForceKill, ProcessGone, Goto
<1>9. ASSUME WriteRecoveryResult PROVE Goal
  BY <1>9 DEF WriteRecoveryResult, Synth
<1>10. ASSUME EnsureLocalReport PROVE Goal
  BY <1>10 DEF EnsureLocalReport, Goto
<1>11. ASSUME PrepareEnvelope PROVE Goal
  BY <1>11 DEF PrepareEnvelope, Goto
<1>12. ASSUME PrepareState PROVE Goal
  BY <1>12 DEF PrepareState, Goto
<1>13. ASSUME RebuildEnvelope PROVE Goal
  BY <1>13 DEF RebuildEnvelope, Goto
<1>14. ASSUME RemoveRunning PROVE Goal
  BY <1>14 DEF RemoveRunning, Goto
<1>15. ASSUME QuarantineDropState PROVE Goal
  BY <1>15 DEF QuarantineDropState, Goto
<1>16. ASSUME QuarantineDropEnvelope PROVE Goal
  BY <1>16 DEF QuarantineDropEnvelope, Goto
<1>17. ASSUME QuarantineStoreHistory PROVE Goal
  BY <1>17 DEF QuarantineStoreHistory, Goto
<1>18. ASSUME QuarantineDequeue PROVE Goal
  BY <1>18 DEF QuarantineDequeue, Goto
<1>19. ASSUME QuarantineDropRunning PROVE Goal
  BY <1>19 DEF QuarantineDropRunning, Goto, Forget
<1>20. ASSUME DrainLoadQueue PROVE Goal
  BY <1>20 DEF DrainLoadQueue
<1>21. ASSUME HeadEmpty PROVE Goal
  BY <1>21 DEF HeadEmpty, Forget
<1>22. ASSUME HeadQuarantine PROVE Goal
  BY <1>22 DEF HeadQuarantine, Quarantine
<1>23. ASSUME HeadBegin PROVE Goal
  BY <1>23 DEF HeadBegin
<1>24. ASSUME ReconcileCompleted PROVE Goal
  BY <1>24 DEF ReconcileCompleted, Ready, Readable
<1>25. ASSUME ReconcileUnreadable PROVE Goal
  BY <1>25 DEF ReconcileUnreadable, TickError, Forget
<1>26. ASSUME DequeueCompleted PROVE Goal
  BY <1>26 DEF DequeueCompleted, Forget
<1>27. ASSUME Spawn PROVE Goal
  BY <1>27 DEF Spawn
<1>28. ASSUME StoreRunning PROVE Goal
  BY <1>28 DEF StoreRunning, Goto
<1>29. ASSUME ChildExited PROVE Goal
  BY <1>29 DEF ChildExited
<1>30. ASSUME WaitTimesOut PROVE Goal
  BY <1>30 DEF WaitTimesOut, Goto, Quarantine
<1>31. ASSUME GraceExpires PROVE Goal
  BY <1>31 DEF GraceExpires, Quarantine
<1>32. ASSUME CollectResult PROVE Goal
  BY <1>32 DEF CollectResult, CollectedResult, Synth
<1>33. ASSUME CollectQuarantine PROVE Goal
  BY <1>33 DEF CollectQuarantine, Quarantine
<1>34. ASSUME StoreFinished PROVE Goal
  BY <1>34 DEF StoreFinished, Goto
<1>35. ASSUME Restart PROVE Goal
  BY <1>35 DEF Restart, Forget
<1>36. ASSUME SubmitQueueFails PROVE Goal
  BY <1>36 DEF SubmitQueueFails, Fault, Forget
<1>37. ASSUME InspectUnavailable PROVE Goal
  BY <1>37 DEF InspectUnavailable, Inspecting, LeaveRunning, Forget, Fault
<1>38. ASSUME ForceKillUnconfirmed PROVE Goal
  BY <1>38 DEF ForceKillUnconfirmed, LeaveRunning, Forget, Fault
<1>39. ASSUME ReportFails PROVE Goal
  BY <1>39 DEF ReportFails, Quarantine, Forget, Fault
<1>40. ASSUME SpawnFails PROVE Goal
  BY <1>40 DEF SpawnFails, Quarantine, Fault
<1>41. ASSUME StoreRunningFails PROVE Goal
  BY <1>41 DEF StoreRunningFails, Quarantine, Fault
<1>42. ASSUME StoreFinishedFails PROVE Goal
  BY <1>42 DEF StoreFinishedFails, Quarantine, Fault
<1>43. ASSUME Crash PROVE Goal
  BY <1>43 DEF Crash, Forget
<1>44. ASSUME NEW e \in Exec, ScanQuarantine(e) PROVE Goal
  BY <1>44 DEF ScanQuarantine, Quarantine
<1>45. ASSUME NEW e \in Exec, ScanHasResult(e) PROVE Goal
  BY <1>45 DEF ScanHasResult, Readable
<1>46. ASSUME NEW e \in Exec, ScanNoResult(e) PROVE Goal
  BY <1>46 DEF ScanNoResult
<1>47. ASSUME NEW e \in Exec, SubmitPlan(e) PROVE Goal
  BY <1>47 DEF SubmitPlan
<1>48. ASSUME NEW e \in Exec, DeadlineElapses(e) PROVE Goal
  BY <1>48 DEF DeadlineElapses
<1>49. ASSUME NEW e \in Exec, Corrupt(e) PROVE Goal
  BY <1>49 DEF Corrupt, Readable, Synth, Fault
<1>50. ASSUME NEW e \in Exec, NEW k \in 1..MaxSpawns, ChildWrites(e, k) PROVE Goal
  BY <1>50 DEF ChildWrites, ChildStep
<1>51. ASSUME NEW e \in Exec, NEW k \in 1..MaxSpawns, ChildExits(e, k) PROVE Goal
  BY <1>51 DEF ChildExits, ChildStep
<1>52. ASSUME NEW e \in Exec, NEW k \in 1..MaxSpawns, ChildFails(e, k) PROVE Goal
  BY <1>52 DEF ChildFails, ChildStep
<1>53. CASE UNCHANGED vars
  BY <1>53 DEF vars
<1> QED
  BY <1>1, <1>2, <1>3, <1>4, <1>5, <1>6, <1>7, <1>8, <1>9, <1>10, <1>11, <1>12, <1>13, <1>14, <1>15, <1>16, <1>17, <1>18, <1>19, <1>20, <1>21, <1>22, <1>23, <1>24, <1>25, <1>26, <1>27, <1>28, <1>29, <1>30, <1>31, <1>32, <1>33, <1>34, <1>35, <1>36, <1>37, <1>38, <1>39, <1>40, <1>41, <1>42, <1>43, <1>44, <1>45, <1>46, <1>47, <1>48, <1>49, <1>50, <1>51, <1>52, <1>53
  DEF Next, DaemonStep, FaultStep, ChildStep, RecoverStep, ControlStep, ReportStep,
      QuarantineStep, DrainStep, ExecuteStep

-----------------------------------------------------------------------------
(* What a step does to the files and processes of one execution. *)

\* The running record: stored after the spawn and at the end, removed once the report or the
\* quarantine record is in place; a corrupted one keeps its process.
LEMMA RunningEffect ==
  ASSUME SpawnInv, [Next]_vars, NEW e \in Exec
  PROVE  \/ running'[e] = running[e]
         \/ pc \in {"reported", "q5"} /\ cur = e /\ running'[e] = NoRunning
         \/ pc \in {"store", "finish"} /\ cur = e /\ running'[e] = [st |-> "ok", pid |-> spawns[e]]
         \/ faults' = faults + 1 /\ running[e].st = "ok" /\ running'[e] = [st |-> "bad", pid |-> running[e].pid]
<1>1. DiskTypeOK
  BY DEF SpawnInv, TypeOK
<1>2. CASE RemoveRunning
  BY <1>1, <1>2 DEF RemoveRunning, DiskTypeOK
<1>3. CASE QuarantineDropRunning
  BY <1>1, <1>3 DEF QuarantineDropRunning, DiskTypeOK
<1>4. CASE StoreRunning
  BY <1>1, <1>4 DEF StoreRunning, DiskTypeOK
<1>5. CASE StoreFinished
  BY <1>1, <1>5 DEF StoreFinished, DiskTypeOK
<1>6. ASSUME NEW f \in Exec, Corrupt(f)
      PROVE  \/ running'[e] = running[e]
             \/ faults' = faults + 1 /\ running[e].st = "ok" /\ running'[e] = [st |-> "bad", pid |-> running[e].pid]
  <2>1. \/ running' = running
        \/ running[f].st = "ok" /\ running' = [running EXCEPT ![f] = [st |-> "bad", pid |-> running[f].pid]]
    BY <1>6 DEF Corrupt
  <2> QED
    BY <1>1, <1>6, <2>1 DEF Corrupt, Fault, DiskTypeOK
<1>7. CASE UNCHANGED running
  BY <1>7
<1> QED
  BY <1>2, <1>3, <1>4, <1>5, <1>6, <1>7, Writers

\* The processes: spawned by the daemon, ended by themselves or by the daemon.
LEMMA ChildEffect ==
  ASSUME SpawnInv, [Next]_vars, NEW e \in Exec
  PROVE  \/ child'[e] = child[e] /\ spawns'[e] = spawns[e]
         \/ /\ pc = "spawn" /\ cur = e /\ pc' = "store" /\ cur' = e
            /\ spawns[e] < MaxSpawns /\ spawns'[e] = spawns[e] + 1
            /\ child'[e] = [child[e] EXCEPT ![spawns[e] + 1] = "live"]
         \/ /\ spawns'[e] = spawns[e]
            /\ \E k \in 1..MaxSpawns, st \in {"wrote", "ok", "err"} :
                 Alive(child[e][k]) /\ child'[e] = [child[e] EXCEPT ![k] = st]
<1> DEFINE Ends(x) == \E k \in 1..MaxSpawns, st \in {"wrote", "ok", "err"} :
                        Alive(child[x][k]) /\ child' = [child EXCEPT ![x][k] = st]
<1>1. DiskTypeOK /\ OsTypeOK /\ DaemonTypeOK /\ CurOK
  BY DEF SpawnInv, TypeOK
<1>2. CASE Spawn
  <2>1. cur \in Exec
    BY <1>1, <1>2, CurInExec DEF Spawn, Busy, PCs
  <2>2. CASE cur = e
    BY <1>1, <1>2, <2>2 DEF Spawn, OsTypeOK
  <2>3. CASE cur # e
    BY <1>1, <1>2, <2>3 DEF Spawn, OsTypeOK
  <2> QED
    BY <2>2, <2>3
<1>3. ASSUME NEW f \in Exec, Ends(f) PROVE child'[e] = child[e] \/
         \E k \in 1..MaxSpawns, st \in {"wrote", "ok", "err"} :
           Alive(child[e][k]) /\ child'[e] = [child[e] EXCEPT ![k] = st]
  BY <1>1, <1>3 DEF OsTypeOK
<1>4. CASE UNCHANGED child /\ ~Spawn
  BY <1>4, Writers
<1>5. ASSUME ForceKill PROVE UNCHANGED child \/ \E f \in Exec : Ends(f)
  <2>1. cur \in Exec
    BY <1>1, <1>5, CurInExec DEF ForceKill, Busy, PCs
  <2>2. CASE ProcessAlive(cur)
    <3>1. running[cur].pid \in 1..MaxSpawns
      BY <1>1, <2>1, <2>2 DEF ProcessAlive, DiskTypeOK, RunningSet
    <3> QED
      BY <1>5, <2>1, <2>2, <3>1 DEF ForceKill, ProcessAlive, ProcessOf
  <2>3. CASE ~ProcessAlive(cur)
    BY <1>5, <2>3 DEF ForceKill
  <2> QED
    BY <2>2, <2>3
<1>6. ASSUME StoreRunningFails PROVE UNCHANGED child \/ \E f \in Exec : Ends(f)
  <2>1. cur \in Exec
    BY <1>1, <1>6, CurInExec DEF StoreRunningFails, Busy, PCs
  <2>2. spawns[cur] \in 1..MaxSpawns
    <3>1. spawns[cur] \in 0..MaxSpawns /\ unrec[cur] \in Nat /\ spawns[cur] = unrec[cur] + 1
      BY <1>6, <2>1 DEF StoreRunningFails, SpawnInv, TypeOK, OsTypeOK, BooksTypeOK, CountOK
    <3> QED
      BY <3>1, ExecutionAssumption
  <2>3. CASE Alive(child[cur][spawns[cur]])
    BY <1>1, <1>6, <2>1, <2>2, <2>3 DEF StoreRunningFails, OsTypeOK
  <2>4. CASE ~Alive(child[cur][spawns[cur]])
    <3>1. child' = [child EXCEPT ![cur][spawns[cur]] = child[cur][spawns[cur]]] \/ child' = child
      BY <1>1, <1>6, <2>1, <2>2, <2>4 DEF StoreRunningFails, OsTypeOK
    <3> QED
      BY <1>1, <2>1, <2>2, <3>1 DEF OsTypeOK
  <2> QED
    BY <2>3, <2>4
<1>7. ASSUME GraceExpires PROVE UNCHANGED child \/ \E f \in Exec : Ends(f)
  <2>1. cur \in Exec
    BY <1>1, <1>7, CurInExec DEF GraceExpires, Busy, PCs
  <2>2. CASE spawns[cur] # 0
    <3>1. spawns[cur] \in 1..MaxSpawns
      BY <1>1, <2>1, <2>2 DEF OsTypeOK
    <3> QED
      BY <1>1, <1>7, <2>1, <3>1 DEF GraceExpires, Awaited
  <2>3. CASE spawns[cur] = 0
    <3>1. child' = child \/ child' = [child EXCEPT ![cur][0] = "err"]
      BY <1>7, <2>3 DEF GraceExpires
    <3>2. child \in [Exec -> [1..MaxSpawns -> ChildStates]] /\ 0 \notin 1..MaxSpawns
      BY <1>1 DEF OsTypeOK
    <3>3. [child[cur] EXCEPT ![0] = "err"] = child[cur]
      BY <2>1, <3>2
    <3>4. [child EXCEPT ![cur][0] = "err"] = [child EXCEPT ![cur] = [child[cur] EXCEPT ![0] = "err"]]
      BY <2>1, <3>2
    <3> QED
      BY <2>1, <3>1, <3>2, <3>3, <3>4
  <2> QED
    BY <2>2, <2>3
<1>8. ASSUME NEW f \in Exec, NEW k \in 1..MaxSpawns, ChildStep(f, k) PROVE Ends(f)
  BY <1>8 DEF ChildStep, ChildWrites, ChildExits, ChildFails, Alive
<1>9. ~Spawn => spawns'[e] = spawns[e]
  BY Writers
<1> HIDE DEF Ends
<1>10. CASE ~Spawn /\ \E f \in Exec : Ends(f)
  BY <1>3, <1>9, <1>10
<1>11. Spawn \/ UNCHANGED child \/ \E f \in Exec : Ends(f)
  BY <1>5, <1>6, <1>7, <1>8, Writers
<1> QED
  BY <1>2, <1>4, <1>10, <1>11

\* result.json: written by the child or by the daemon for it.
LEMMA ResultEffect ==
  ASSUME SpawnInv, [Next]_vars, NEW e \in Exec
  PROVE  \/ result'[e] = result[e]
         \/ pc = "synth" /\ cur = e /\ result'[e] = Synth("recovered")
         \/ /\ pc = "collect" /\ cur = e /\ ~CollectContradicts(result[e], cls)
            /\ result'[e] = CollectedResult(result[e], cls)
         \/ faults' = faults + 1 /\ Readable(result[e]) /\ result'[e] = Synth("bad")
         \/ \E k \in 1..MaxSpawns, kind \in {"succeeded", "rejected"} :
              child[e][k] = "live" /\ child'[e] = [child[e] EXCEPT ![k] = "wrote"]
              /\ result'[e] = [kind |-> kind, by |-> k]
<1>1. DiskTypeOK /\ OsTypeOK
  BY DEF SpawnInv, TypeOK
<1>2. CASE WriteRecoveryResult
  BY <1>1, <1>2 DEF WriteRecoveryResult, DiskTypeOK
<1>3. CASE CollectResult
  BY <1>1, <1>3 DEF CollectResult, DiskTypeOK
<1>4. ASSUME NEW f \in Exec, Corrupt(f)
      PROVE  result'[e] = result[e] \/ (faults' = faults + 1 /\ Readable(result[e]) /\ result'[e] = Synth("bad"))
  <2>1. \/ result' = result
        \/ Readable(result[f]) /\ result' = [result EXCEPT ![f] = Synth("bad")]
    BY <1>4 DEF Corrupt
  <2>2. faults' = faults + 1
    BY <1>4 DEF Corrupt, Fault
  <2> QED
    BY <1>1, <2>1, <2>2 DEF DiskTypeOK
<1>5. ASSUME NEW f \in Exec, NEW k \in 1..MaxSpawns, ChildWrites(f, k)
      PROVE  result'[e] = result[e] \/
             \E kind \in {"succeeded", "rejected"} :
               child[e][k] = "live" /\ child'[e] = [child[e] EXCEPT ![k] = "wrote"]
               /\ result'[e] = [kind |-> kind, by |-> k]
  BY <1>1, <1>5 DEF ChildWrites, DiskTypeOK, OsTypeOK
<1>6. CASE UNCHANGED result
  BY <1>6
<1> QED
  BY <1>2, <1>3, <1>4, <1>5, <1>6, Writers

\* The reporting state.
LEMMA RepEffect ==
  ASSUME SpawnInv, [Next]_vars, NEW e \in Exec
  PROVE  \/ rep'[e] = rep[e]
         \/ pc = "prepState" /\ cur = e /\ rep'[e] = [st |-> "ok", dig |-> lres]
         \/ pc = "q1" /\ cur = e /\ rep'[e] = NoRep
         \/ faults' = faults + 1 /\ rep[e].st = "ok" /\ rep'[e].st = "bad"
<1>1. DiskTypeOK
  BY DEF SpawnInv, TypeOK
<1>2. CASE PrepareState
  BY <1>1, <1>2 DEF PrepareState, DiskTypeOK
<1>3. CASE QuarantineDropState
  BY <1>1, <1>3 DEF QuarantineDropState, DiskTypeOK
<1>4. ASSUME NEW f \in Exec, Corrupt(f)
      PROVE  rep'[e] = rep[e] \/ (faults' = faults + 1 /\ rep[e].st = "ok" /\ rep'[e].st = "bad")
  <2>1. \/ rep' = rep
        \/ rep[f].st = "ok" /\ rep' = [rep EXCEPT ![f] = [NoRep EXCEPT !.st = "bad"]]
    BY <1>4 DEF Corrupt
  <2>2. faults' = faults + 1
    BY <1>4 DEF Corrupt, Fault
  <2> QED
    BY <1>1, <2>1, <2>2 DEF DiskTypeOK, NoRep
<1>5. CASE UNCHANGED rep
  BY <1>5
<1> QED
  BY <1>2, <1>3, <1>4, <1>5, Writers

\* The report envelope.
LEMMA EnvEffect ==
  ASSUME SpawnInv, [Next]_vars, NEW e \in Exec
  PROVE  \/ env'[e] = env[e]
         \/ pc = "prepEnv" /\ cur = e /\ env'[e] = [st |-> "ok", res |-> lres, dig |-> lres]
         \/ pc = "rebuild" /\ cur = e /\ env'[e] = [st |-> "ok", res |-> lres, dig |-> rep[e].dig]
         \/ pc = "q2" /\ cur = e /\ env'[e] = NoEnv
         \/ faults' = faults + 1 /\ env[e].st = "ok" /\ env'[e].st = "bad"
<1>1. DiskTypeOK
  BY DEF SpawnInv, TypeOK
<1>2. CASE PrepareEnvelope
  BY <1>1, <1>2 DEF PrepareEnvelope, DiskTypeOK
<1>3. CASE RebuildEnvelope
  BY <1>1, <1>3 DEF RebuildEnvelope, DiskTypeOK
<1>4. CASE QuarantineDropEnvelope
  BY <1>1, <1>4 DEF QuarantineDropEnvelope, DiskTypeOK
<1>5. ASSUME NEW f \in Exec, Corrupt(f)
      PROVE  env'[e] = env[e] \/ (faults' = faults + 1 /\ env[e].st = "ok" /\ env'[e].st = "bad")
  <2>1. \/ env' = env
        \/ env[f].st = "ok" /\ env' = [env EXCEPT ![f] = [NoEnv EXCEPT !.st = "bad"]]
    BY <1>5 DEF Corrupt
  <2>2. faults' = faults + 1
    BY <1>5 DEF Corrupt, Fault
  <2> QED
    BY <1>1, <2>1, <2>2 DEF DiskTypeOK, NoEnv
<1>6. CASE UNCHANGED env
  BY <1>6
<1> QED
  BY <1>2, <1>3, <1>4, <1>5, <1>6, Writers

\* The quarantine record is written once and never removed.
LEMMA HistEffect ==
  ASSUME SpawnInv, [Next]_vars, NEW e \in Exec
  PROVE  \/ hist'[e] = hist[e]
         \/ pc = "q3" /\ cur = e /\ pc' = "q4" /\ hist'[e] = [quarantined |-> TRUE, known |-> known]
<1>1. DiskTypeOK
  BY DEF SpawnInv, TypeOK
<1>2. CASE QuarantineStoreHistory
  BY <1>1, <1>2 DEF QuarantineStoreHistory, DiskTypeOK, Goto
<1> QED
  BY <1>2, Writers

\* The queue: an id is appended by a submission, and taken out when it is done or quarantined.
LEMMA QueueEffect ==
  ASSUME SpawnInv, [Next]_vars, NEW e \in Exec
  PROVE  \/ queue' = queue /\ accepted' = accepted
         \/ pc = "submit" /\ accepted' = accepted \cup {cur} /\ queue' = Append(queue, cur)
            /\ (InQueue(e, queue') <=> InQueue(e, queue) \/ e = cur)
         \/ pc \in {"q4", "qstore"} /\ accepted' = accepted /\ queue' = Remove(queue, cur)
            /\ (InQueue(e, queue') <=> InQueue(e, queue) /\ e # cur)
<1>1. DiskTypeOK /\ QueueOK /\ LocalQueueOK /\ DaemonTypeOK /\ CurOK
  BY DEF SpawnInv, TypeOK
<1>2. CASE SubmitQueue
  <2>1. cur \in Exec /\ queue \in Seq(Exec)
    BY <1>1, <1>2, CurInExec DEF SubmitQueue, Busy, PCs, DiskTypeOK
  <2>2. \A x : InQueue(x, queue') <=> InQueue(x, queue) \/ x = cur
    BY <1>1, <1>2, <2>1, EnqueueProperties DEF SubmitQueue, QueueOK
  <2> QED
    BY <1>2, <2>2 DEF SubmitQueue
<1>3. CASE QuarantineDequeue
  <2>1. \A x : InQueue(x, queue') <=> InQueue(x, queue) /\ x # cur
    BY <1>1, <1>3, RemoveProperties DEF QuarantineDequeue, DiskTypeOK, QueueOK
  <2> QED
    BY <1>3, <2>1 DEF QuarantineDequeue, books
<1>4. CASE DequeueCompleted
  <2>1. lq = queue
    BY <1>1, <1>4 DEF DequeueCompleted, LocalQueueOK, OnHead, HeadPCs
  <2>2. \A x : InQueue(x, queue') <=> InQueue(x, queue) /\ x # cur
    BY <1>1, <1>4, <2>1, RemoveProperties DEF DequeueCompleted, DiskTypeOK, QueueOK
  <2> QED
    BY <1>4, <2>1, <2>2 DEF DequeueCompleted, books
<1>5. CASE ~SubmitQueue /\ ~QuarantineDequeue /\ ~DequeueCompleted
  BY <1>5, Writers
<1> QED
  BY <1>2, <1>3, <1>4, <1>5

-----------------------------------------------------------------------------
(* Every step keeps what is known of one execution. *)

\* A process record stays in the range of the processes spawned.
LEMMA RecordStep ==
  ASSUME TraceInv, [Next]_vars, NEW e \in Exec PROVE RecordOK(e)'
<1>1. SpawnInv /\ RecordOK(e) /\ ProcessKnown
  BY DEF TraceInv, TraceOK, PlaceOK
<1>2. spawns[e] \in Nat /\ running[e] \in RunningSet
  BY <1>1 DEF SpawnInv, TypeOK, OsTypeOK, DiskTypeOK
<1>3. spawns'[e] \in {spawns[e], spawns[e] + 1} /\ (pc # "spawn" => spawns'[e] = spawns[e])
  BY <1>1, <1>2, ChildEffect
<1>4. CASE running'[e].pid = running[e].pid /\ (running'[e].st # "none" => running[e].st # "none")
  BY <1>1, <1>2, <1>3, <1>4 DEF RecordOK
<1>5. CASE running'[e] = NoRunning
  BY <1>5 DEF RecordOK, NoRunning
<1>6. CASE pc \in {"store", "finish"} /\ cur = e /\ running'[e] = [st |-> "ok", pid |-> spawns[e]]
  <2>1. spawns[e] >= 1
    BY <1>1, <1>6 DEF ProcessKnown, ExecutePCs
  <2> QED
    BY <1>2, <1>3, <1>6, <2>1 DEF RecordOK
<1>7. CASE running'[e] = running[e]
  BY <1>4, <1>7
<1>8. CASE running[e].st = "ok" /\ running'[e] = [st |-> "bad", pid |-> running[e].pid]
  BY <1>4, <1>8
<1>9. \/ running'[e] = running[e]
      \/ running'[e] = NoRunning
      \/ pc \in {"store", "finish"} /\ cur = e /\ running'[e] = [st |-> "ok", pid |-> spawns[e]]
      \/ running[e].st = "ok" /\ running'[e] = [st |-> "bad", pid |-> running[e].pid]
  BY <1>1, RunningEffect, Zenon
<1> QED
  BY <1>5, <1>6, <1>7, <1>8, <1>9

\* Processes are spawned in order.
LEMMA ProcessesStep ==
  ASSUME TraceInv, [Next]_vars, NEW e \in Exec PROVE ProcessesOK(e)'
<1>1. SpawnInv /\ ProcessesOK(e)
  BY DEF TraceInv, TraceOK
<1>2. spawns[e] \in Nat /\ child[e] \in [1..MaxSpawns -> ChildStates]
  BY <1>1 DEF SpawnInv, TypeOK, OsTypeOK
<1> SUFFICES ASSUME NEW k \in 1..MaxSpawns, k > spawns'[e] PROVE child'[e][k] = "none"
  BY DEF ProcessesOK
<1>3. CASE child'[e] = child[e] /\ spawns'[e] = spawns[e]
  BY <1>1, <1>3 DEF ProcessesOK
<1>4. CASE spawns'[e] = spawns[e] + 1 /\ child'[e] = [child[e] EXCEPT ![spawns[e] + 1] = "live"]
  <2>1. k > spawns[e] /\ k # spawns[e] + 1
    BY <1>2, <1>4
  <2> QED
    BY <1>1, <1>2, <1>4, <2>1 DEF ProcessesOK
<1>5. ASSUME spawns'[e] = spawns[e], NEW j \in 1..MaxSpawns, NEW st \in {"wrote", "ok", "err"},
             Alive(child[e][j]), child'[e] = [child[e] EXCEPT ![j] = st]
      PROVE  child'[e][k] = "none"
  <2>1. child[e][k] = "none"
    BY <1>1, <1>5 DEF ProcessesOK
  <2>2. k # j
    BY <1>5, <2>1 DEF Alive
  <2> QED
    BY <1>2, <1>5, <2>1, <2>2
<1> QED
  BY <1>1, <1>3, <1>4, <1>5, ChildEffect

\* A process that no longer works does not start again.
LEMMA DeadStays ==
  ASSUME TraceInv, [Next]_vars, NEW e \in Exec, spawns[e] = 1
  PROVE  /\ child[e][1] # "live" /\ spawns'[e] = 1 => child'[e][1] # "live"
         /\ ~Alive(child[e][1]) /\ spawns'[e] = 1 => ~Alive(child'[e][1])
<1>1. SpawnInv /\ ProcessesOK(e)
  BY DEF TraceInv, TraceOK
<1>2. spawns[e] \in Nat /\ child[e] \in [1..MaxSpawns -> ChildStates] /\ 1 \in 1..MaxSpawns
  BY <1>1, ExecutionAssumption DEF SpawnInv, TypeOK, OsTypeOK
<1>3. CASE child'[e] = child[e] /\ spawns'[e] = spawns[e]
  BY <1>3
<1>4. ASSUME NEW j \in 1..MaxSpawns, NEW st \in {"wrote", "ok", "err"},
             Alive(child[e][j]), child'[e] = [child[e] EXCEPT ![j] = st]
      PROVE  /\ child[e][1] # "live" => child'[e][1] # "live"
             /\ ~Alive(child[e][1]) => ~Alive(child'[e][1])
  BY <1>2, <1>4 DEF Alive
<1>5. CASE spawns'[e] = spawns[e] + 1
  BY <1>2, <1>5
<1>6. \/ child'[e] = child[e] /\ spawns'[e] = spawns[e]
      \/ spawns'[e] = spawns[e] + 1
      \/ \E k \in 1..MaxSpawns, st \in {"wrote", "ok", "err"} :
           Alive(child[e][k]) /\ child'[e] = [child[e] EXCEPT ![k] = st]
  BY <1>1, ChildEffect, Zenon
<1>7. CASE \E k \in 1..MaxSpawns, st \in {"wrote", "ok", "err"} :
             Alive(child[e][k]) /\ child'[e] = [child[e] EXCEPT ![k] = st]
  BY <1>4, <1>7, Zenon
<1> QED
  BY <1>3, <1>5, <1>6, <1>7

\* A result comes from the execution's own process, or after that process.
LEMMA ResultAfterStep ==
  ASSUME TraceInv, [Next]_vars, NEW e \in Exec PROVE ResultAfter(e)'
<1>1. SpawnInv /\ ProcessesOK(e) /\ ResultAfter(e) /\ ProcessKnown
  BY DEF TraceInv, TraceOK, PlaceOK
<1>2. spawns[e] \in Nat /\ child[e] \in [1..MaxSpawns -> ChildStates] /\ 1 \in 1..MaxSpawns
  BY <1>1, ExecutionAssumption DEF SpawnInv, TypeOK, OsTypeOK
<1>3. spawns'[e] \in {spawns[e], spawns[e] + 1} /\ (pc # "spawn" => spawns'[e] = spawns[e])
  BY <1>1, <1>2, ChildEffect
<1>4. CASE result'[e] = result[e] \/ (Readable(result[e]) /\ result'[e] = Synth("bad"))
  <2>1. result'[e].kind # "none" => result[e].kind # "none"
    BY <1>4 DEF Readable
  <2>2. spawns'[e] = 0 => spawns[e] = 0
    BY <1>2, <1>3
  <2>3. spawns'[e] = 1 /\ result'[e].kind # "none" => spawns[e] = 1
    BY <1>1, <1>2, <1>3, <2>1 DEF ResultAfter
  <2> QED
    BY <1>1, <2>1, <2>2, <2>3, DeadStays DEF ResultAfter
<1>5. CASE pc = "synth" /\ cur = e
  <2>1. spawns[e] >= 1 /\ (spawns[e] = 1 => ~Alive(child[e][1])) /\ spawns'[e] = spawns[e]
    BY <1>1, <1>3, <1>5 DEF ProcessKnown
  <2> QED
    BY <1>2, <2>1, DeadStays DEF ResultAfter, Alive
<1>6. CASE pc = "collect" /\ cur = e
  <2>1. spawns[e] >= 1 /\ ~Alive(child[e][spawns[e]]) /\ spawns'[e] = spawns[e]
    BY <1>1, <1>3, <1>6 DEF ProcessKnown, ExecutePCs
  <2> QED
    BY <1>2, <2>1, DeadStays DEF ResultAfter, Alive
<1>7. ASSUME NEW k \in 1..MaxSpawns, child[e][k] = "live", child'[e] = [child[e] EXCEPT ![k] = "wrote"]
      PROVE  ResultAfter(e)'
  <2>1. k <= spawns[e]
    BY <1>1, <1>2, <1>7 DEF ProcessesOK
  <2>2. child'[e][k] = "wrote"
    BY <1>2, <1>7
  <2>4. spawns'[e] >= 1
    BY <1>2, <1>3, <2>1
  <2>3. spawns'[e] = 1 => k = 1
    BY <1>2, <1>3, <2>1
  <2> QED
    BY <1>2, <2>2, <2>3, <2>4 DEF ResultAfter
<1> QED
  BY <1>1, <1>4, <1>5, <1>6, <1>7, ResultEffect

\* The result of an execution that has one, and is reported or about to be, stands.
LEMMA ResultKept ==
  ASSUME TraceInv, [Next]_vars, NEW e \in Exec, spawns[e] = 1, result[e].kind # "none",
         result'[e].kind # "bad", ~(pc \in {"synth", "collect"} /\ cur = e)
  PROVE  result'[e] = result[e]
<1>1. SpawnInv /\ ProcessesOK(e) /\ ResultAfter(e)
  BY DEF TraceInv, TraceOK
<1>2. \A k \in 1..MaxSpawns : child[e][k] # "live"
  <2>1. child[e][1] # "live"
    BY <1>1 DEF ResultAfter
  <2>2. \A k \in 1..MaxSpawns : k > 1 => child[e][k] = "none"
    BY <1>1 DEF ProcessesOK
  <2> QED
    BY <2>1, <2>2
<1>3. CASE result'[e] = Synth("bad")
  BY <1>3 DEF Synth
<1>4. result'[e] = result[e] \/ result'[e] = Synth("bad") \/ \E k \in 1..MaxSpawns : child[e][k] = "live"
  BY <1>1, ResultEffect, Zenon
<1> QED
  BY <1>2, <1>3, <1>4

\* The report keeps the digest of the result on disk.
LEMMA DigestStep ==
  ASSUME TraceInv, [Next]_vars, NEW e \in Exec PROVE DigestOK(e)'
<1>1. SpawnInv /\ DigestOK(e) /\ ReportKnown /\ LoadedKnown
  BY DEF TraceInv, TraceOK, PlaceOK
<1>2. spawns[e] \in Nat /\ ResultOK
  BY <1>1 DEF SpawnInv, TypeOK, OsTypeOK
<1> SUFFICES ASSUME spawns'[e] = 1, rep'[e].st = "ok", result'[e].kind # "bad"
             PROVE  /\ rep'[e].dig = result'[e]
                    /\ env'[e].st = "ok" => env'[e].res = result'[e] /\ env'[e].dig = result'[e]
  BY DEF DigestOK
<1>3. CASE rep'[e] = rep[e]
  <2>1. spawns[e] = 1
    <3>1. ~(pc = "spawn" /\ cur = e)
      BY <1>1, <1>3 DEF ReportKnown
    <3> QED
      BY <1>1, <3>1, ChildEffect
  <2>2. result'[e] = result[e]
    <3>1. ~(pc \in {"synth", "collect"} /\ cur = e) /\ result[e].kind # "none"
      BY <1>1, <1>2, <1>3 DEF ReportKnown, ResultOK
    <3> QED
      BY <2>1, <3>1, ResultKept
  <2>3. rep[e].dig = result[e] /\ (env[e].st = "ok" => env[e].res = result[e] /\ env[e].dig = result[e])
    BY <1>1, <1>3, <2>1, <2>2 DEF DigestOK
  <2>4. pc \in {"prepEnv", "rebuild"} /\ cur = e => lres = result[e]
    BY <1>1, <2>1, <2>2 DEF LoadedKnown, LoadedPCs, Synth
  <2>5. env'[e].st = "ok" => env'[e].res = result[e] /\ env'[e].dig = result[e]
    <3>1. \/ env'[e] = env[e]
          \/ pc = "prepEnv" /\ cur = e /\ env'[e] = [st |-> "ok", res |-> lres, dig |-> lres]
          \/ pc = "rebuild" /\ cur = e /\ env'[e] = [st |-> "ok", res |-> lres, dig |-> rep[e].dig]
          \/ env'[e] = NoEnv
          \/ env'[e].st = "bad"
      BY <1>1, EnvEffect, Zenon
    <3> QED
      BY <2>3, <2>4, <3>1 DEF NoEnv
  <2> QED
    BY <1>3, <2>2, <2>3, <2>5
<1>4. CASE pc = "prepState" /\ cur = e /\ rep'[e] = [st |-> "ok", dig |-> lres]
  <2>1. spawns[e] = 1 /\ result[e].kind # "none"
    BY <1>1, <1>2, <1>4, ChildEffect DEF ResultOK, ResultPCs
  <2>2. result'[e] = result[e]
    BY <1>4, <2>1, ResultKept
  <2>3. lres = result[e] /\ (env[e].st = "ok" => env[e].res = lres /\ env[e].dig = lres)
    BY <1>1, <1>4, <2>1, <2>2 DEF LoadedKnown, LoadedPCs, Synth
  <2>4. env'[e] = env[e] \/ env'[e].st # "ok"
    BY <1>1, <1>4, EnvEffect
  <2> QED
    BY <1>4, <2>2, <2>3, <2>4
<1> QED
  BY <1>1, <1>3, <1>4, RepEffect DEF NoRep

\* A running record belongs to a queued or quarantined execution.
LEMMA HeldStep ==
  ASSUME TraceInv, [Next]_vars, NEW e \in Exec PROVE HeldOK(e)'
<1>1. SpawnInv /\ HeldOK(e) /\ HeldKnown
  BY DEF TraceInv, TraceOK, PlaceOK
<1>2. hist[e].quarantined => hist'[e].quarantined
  BY <1>1, HistEffect
<1> SUFFICES ASSUME running'[e].st # "none" PROVE InQueue(e, queue') \/ hist'[e].quarantined
  BY DEF HeldOK
<1>3. InQueue(e, queue) \/ hist[e].quarantined
  <2>1. CASE pc \in {"store", "finish"} /\ cur = e
    BY <1>1, <2>1 DEF SpawnInv, LocalQueueOK, OnHead, HeadPCs
  <2>2. CASE running[e].st # "none"
    BY <1>1, <2>2 DEF HeldOK
  <2>3. running[e].st # "none" \/ (pc \in {"store", "finish"} /\ cur = e)
    <3>1. \/ running'[e] = running[e]
          \/ running'[e] = NoRunning
          \/ pc \in {"store", "finish"} /\ cur = e
          \/ running[e].st = "ok"
      BY <1>1, RunningEffect, Zenon
    <3> QED
      BY <3>1 DEF NoRunning
  <2> QED
    BY <2>1, <2>2, <2>3
<1>4. CASE InQueue(e, queue) /\ ~InQueue(e, queue')
  <2>1. pc \in {"q4", "qstore"} /\ cur = e
    BY <1>1, <1>4, QueueEffect
  <2>2. CASE pc = "q4"
    BY <1>1, <1>2, <2>1, <2>2 DEF HeldKnown
  <2>3. CASE pc = "qstore"
    <3>1. running[e].st = "none"
      BY <1>1, <2>1, <2>3 DEF HeldKnown
    <3> QED
      BY <1>1, <2>3, <3>1, RunningEffect DEF NoRunning
  <2> QED
    BY <2>1, <2>2, <2>3
<1> QED
  BY <1>2, <1>3, <1>4

\* Only a failed submission takes plan.json away again.
LEMMA PlanEffect ==
  ASSUME SpawnInv, [Next]_vars, NEW e \in Exec, plan'[e] = "none"
  PROVE  plan[e] = "none" \/ (pc = "submit" /\ cur = e /\ accepted' = accepted)
<1>1. DiskTypeOK
  BY DEF SpawnInv, TypeOK
<1>2. CASE Spawn
  BY <1>1, <1>2 DEF Spawn, DiskTypeOK
<1>3. CASE SubmitQueueFails
  BY <1>1, <1>3 DEF SubmitQueueFails, DiskTypeOK
<1>4. ASSUME NEW f \in Exec, SubmitPlan(f) PROVE plan[e] = "none"
  BY <1>1, <1>4 DEF SubmitPlan, DiskTypeOK
<1>5. ASSUME NEW f \in Exec, Corrupt(f) PROVE plan[e] = "none"
  BY <1>1, <1>5, CorruptKeepsFiles
<1> QED
  BY <1>2, <1>3, <1>4, <1>5, Writers

\* What is accepted stays in sight, and nothing else leaves a trace.
LEMMA AcceptedStep ==
  ASSUME TraceInv, [Next]_vars, NEW e \in Exec PROVE AcceptedOK(e)'
<1>1. SpawnInv /\ AcceptedOK(e) /\ HeldKnown /\ ReportKnown /\ AcceptedKnown
  BY DEF TraceInv, TraceOK, PlaceOK
<1>2. hist[e].quarantined => hist'[e].quarantined
  BY <1>1, HistEffect
<1>3. CASE e \in accepted
  <2>1. accepted \subseteq accepted'
    BY <1>1, QueueEffect
  <2>2. plan'[e] # "none"
    BY <1>1, <1>3, PlanEffect DEF AcceptedOK, AcceptedKnown
  <2>3. ASSUME InQueue(e, queue), ~InQueue(e, queue') PROVE rep'[e].st # "none" \/ hist'[e].quarantined
    <3>1. pc \in {"q4", "qstore"} /\ cur = e
      BY <1>1, <2>3, QueueEffect
    <3>2. CASE pc = "q4"
      BY <1>1, <1>2, <3>1, <3>2 DEF HeldKnown
    <3>3. CASE pc = "qstore"
      BY <1>1, <3>1, <3>3, RepEffect DEF ReportKnown
    <3> QED
      BY <3>1, <3>2, <3>3
  <2>4. ASSUME rep[e].st # "none", rep'[e].st = "none"
        PROVE  pc = "q1" /\ (InQueue(e, queue) \/ hist[e].quarantined)
    <3>1. pc = "q1" /\ cur = e
      BY <1>1, <2>4, RepEffect
    <3> QED
      BY <1>1, <3>1 DEF HeldKnown
  <2>5. InQueue(e, queue) \/ rep[e].st # "none" \/ hist[e].quarantined
    BY <1>1, <1>3 DEF AcceptedOK
  <2>6. InQueue(e, queue') \/ rep'[e].st # "none" \/ hist'[e].quarantined
    BY <1>2, <2>3, <2>4, <2>5
  <2> QED
    BY <1>3, <2>1, <2>2, <2>6 DEF AcceptedOK
<1>4. CASE e \notin accepted /\ e \in accepted'
  <2>1. pc = "submit" /\ cur = e /\ InQueue(e, queue')
    BY <1>1, <1>4, QueueEffect
  <2>2. plan'[e] # "none"
    BY <1>1, <1>4, <2>1, PlanEffect DEF SpawnInv, QueueOK
  <2> QED
    BY <1>4, <2>1, <2>2 DEF AcceptedOK
<1>5. CASE e \notin accepted'
  <2>1. e \notin accepted
    BY <1>1, <1>5, QueueEffect
  <2>2. pc \in Busy /\ pc # "submit" => cur # e
    BY <1>1, <2>1 DEF AcceptedKnown
  <2>3. spawns'[e] = spawns[e]
    BY <1>1, <2>2, ChildEffect DEF Busy, PCs
  <2>4. rep'[e].st = "none"
    BY <1>1, <2>1, <2>2, RepEffect DEF Busy, PCs, AcceptedOK, NoRep
  <2>5. hist'[e] = hist[e]
    BY <1>1, <2>2, HistEffect DEF Busy, PCs
  <2>6. ~InQueue(e, queue')
    BY <1>1, <1>5, <2>1, QueueEffect DEF AcceptedOK
  <2> QED
    BY <1>1, <1>5, <2>1, <2>3, <2>4, <2>5, <2>6 DEF AcceptedOK
<1> QED
  BY <1>3, <1>4, <1>5

-----------------------------------------------------------------------------
(* Every step keeps what is known of the execution at hand. *)

\* What is queued or has a running record was accepted; what has no plan was not.
LEMMA Sighted ==
  ASSUME TraceInv, NEW e \in Exec
  PROVE  /\ InQueue(e, queue) \/ running[e].st # "none" => e \in accepted
         /\ plan[e] = "none" => e \notin accepted
BY DEF TraceInv, TraceOK, HeldOK, AcceptedOK

\* The head that drain_next loaded is the head of the queue on disk.
LEMMA HeadQueued ==
  ASSUME SpawnInv, pc = "head", lq # <<>>
  PROVE  Head(lq) \in Exec /\ queue # <<>> /\ Head(lq) = queue[1] /\ InQueue(Head(lq), queue)
<1>1. lq = queue /\ queue \in Seq(Exec)
  BY DEF SpawnInv, LocalQueueOK, TypeOK, DiskTypeOK
<1> QED
  BY <1>1 DEF InQueue

\* The daemon works on accepted executions only.
LEMMA AcceptedKnownStep == TraceInv /\ [Next]_vars => AcceptedKnown'
<1> DEFINE Goal == AcceptedKnown'
<1> SUFFICES ASSUME TraceInv, [Next]_vars PROVE Goal
  OBVIOUS
<1>0. SpawnInv /\ CurOK /\ AcceptedKnown
  BY DEF TraceInv, PlaceOK, SpawnInv
<1> USE DEF AcceptedKnown, Busy, PCs, CurOK, disk, os, daemon, books
<1>1. ASSUME SubmitQueue PROVE Goal
  BY <1>1, <1>0 DEF SubmitQueue, Forget
<1>2. ASSUME TickBegin PROVE Goal
  BY <1>2, <1>0 DEF TickBegin
<1>3. ASSUME ScanDone PROVE Goal
  BY <1>3, <1>0 DEF ScanDone, Forget
<1>4. ASSUME InspectInactive PROVE Goal
  BY <1>4, <1>0 DEF InspectInactive, Inspecting, ProcessGone, Goto
<1>5. ASSUME InspectActive PROVE Goal
  BY <1>5, <1>0 DEF InspectActive, Inspecting, LeaveRunning, Forget
<1>6. ASSUME InspectExpired PROVE Goal
  BY <1>6, <1>0 DEF InspectExpired, Inspecting, Goto
<1>7. ASSUME RecordKill PROVE Goal
  BY <1>7, <1>0 DEF RecordKill, Goto, TickError, Forget
<1>8. ASSUME ForceKill PROVE Goal
  BY <1>8, <1>0 DEF ForceKill, ProcessGone, Goto
<1>9. ASSUME WriteRecoveryResult PROVE Goal
  BY <1>9, <1>0 DEF WriteRecoveryResult, Synth
<1>10. ASSUME EnsureLocalReport PROVE Goal
  BY <1>10, <1>0 DEF EnsureLocalReport, Goto
<1>11. ASSUME PrepareEnvelope PROVE Goal
  BY <1>11, <1>0 DEF PrepareEnvelope, Goto
<1>12. ASSUME PrepareState PROVE Goal
  BY <1>12, <1>0 DEF PrepareState, Goto
<1>13. ASSUME RebuildEnvelope PROVE Goal
  BY <1>13, <1>0 DEF RebuildEnvelope, Goto
<1>14. ASSUME RemoveRunning PROVE Goal
  BY <1>14, <1>0 DEF RemoveRunning, Goto
<1>15. ASSUME QuarantineDropState PROVE Goal
  BY <1>15, <1>0 DEF QuarantineDropState, Goto
<1>16. ASSUME QuarantineDropEnvelope PROVE Goal
  BY <1>16, <1>0 DEF QuarantineDropEnvelope, Goto
<1>17. ASSUME QuarantineStoreHistory PROVE Goal
  BY <1>17, <1>0 DEF QuarantineStoreHistory, Goto
<1>18. ASSUME QuarantineDequeue PROVE Goal
  BY <1>18, <1>0 DEF QuarantineDequeue, Goto
<1>19. ASSUME QuarantineDropRunning PROVE Goal
  BY <1>19, <1>0 DEF QuarantineDropRunning, Goto, Forget
<1>20. ASSUME DrainLoadQueue PROVE Goal
  BY <1>20, <1>0 DEF DrainLoadQueue
<1>21. ASSUME HeadEmpty PROVE Goal
  BY <1>21, <1>0 DEF HeadEmpty, Forget
<1>22. ASSUME HeadQuarantine PROVE Goal
  BY <1>22, <1>0, HeadQueued, Sighted DEF HeadQuarantine, Quarantine
<1>23. ASSUME HeadBegin PROVE Goal
  BY <1>23, <1>0, HeadQueued, Sighted DEF HeadBegin
<1>24. ASSUME ReconcileCompleted PROVE Goal
  BY <1>24, <1>0 DEF ReconcileCompleted, Ready, Readable
<1>25. ASSUME ReconcileUnreadable PROVE Goal
  BY <1>25, <1>0 DEF ReconcileUnreadable, TickError, Forget
<1>26. ASSUME DequeueCompleted PROVE Goal
  BY <1>26, <1>0 DEF DequeueCompleted, Forget
<1>27. ASSUME Spawn PROVE Goal
  BY <1>27, <1>0 DEF Spawn
<1>28. ASSUME StoreRunning PROVE Goal
  BY <1>28, <1>0 DEF StoreRunning, Goto
<1>29. ASSUME ChildExited PROVE Goal
  BY <1>29, <1>0 DEF ChildExited
<1>30. ASSUME WaitTimesOut PROVE Goal
  BY <1>30, <1>0 DEF WaitTimesOut, Goto, Quarantine
<1>31. ASSUME GraceExpires PROVE Goal
  BY <1>31, <1>0 DEF GraceExpires, Quarantine
<1>32. ASSUME CollectResult PROVE Goal
  BY <1>32, <1>0 DEF CollectResult, CollectedResult, Synth
<1>33. ASSUME CollectQuarantine PROVE Goal
  BY <1>33, <1>0 DEF CollectQuarantine, Quarantine
<1>34. ASSUME StoreFinished PROVE Goal
  BY <1>34, <1>0 DEF StoreFinished, Goto
<1>35. ASSUME Restart PROVE Goal
  BY <1>35, <1>0 DEF Restart, Forget
<1>36. ASSUME SubmitQueueFails PROVE Goal
  BY <1>36, <1>0 DEF SubmitQueueFails, Fault, Forget
<1>37. ASSUME InspectUnavailable PROVE Goal
  BY <1>37, <1>0 DEF InspectUnavailable, Inspecting, LeaveRunning, Forget
<1>38. ASSUME ForceKillUnconfirmed PROVE Goal
  BY <1>38, <1>0 DEF ForceKillUnconfirmed, LeaveRunning, Forget
<1>39. ASSUME ReportFails PROVE Goal
  BY <1>39, <1>0 DEF ReportFails, Quarantine, Forget
<1>40. ASSUME SpawnFails PROVE Goal
  BY <1>40, <1>0 DEF SpawnFails, Quarantine
<1>41. ASSUME StoreRunningFails PROVE Goal
  BY <1>41, <1>0 DEF StoreRunningFails, Quarantine
<1>42. ASSUME StoreFinishedFails PROVE Goal
  BY <1>42, <1>0 DEF StoreFinishedFails, Quarantine
<1>43. ASSUME Crash PROVE Goal
  BY <1>43, <1>0 DEF Crash, Forget
<1>44. ASSUME NEW e \in Exec, ScanQuarantine(e) PROVE Goal
  BY <1>44, <1>0, Sighted DEF ScanQuarantine, Quarantine
<1>45. ASSUME NEW e \in Exec, ScanHasResult(e) PROVE Goal
  BY <1>45, <1>0, Sighted DEF ScanHasResult, Readable
<1>46. ASSUME NEW e \in Exec, ScanNoResult(e) PROVE Goal
  BY <1>46, <1>0, Sighted DEF ScanNoResult
<1>47. ASSUME NEW e \in Exec, SubmitPlan(e) PROVE Goal
  BY <1>47, <1>0, Sighted DEF SubmitPlan
<1>48. ASSUME NEW e \in Exec, DeadlineElapses(e) PROVE Goal
  BY <1>48, <1>0 DEF DeadlineElapses
<1>49. ASSUME NEW e \in Exec, Corrupt(e) PROVE Goal
  BY <1>49, <1>0 DEF Corrupt, Readable, Synth
<1>50. ASSUME NEW e \in Exec, NEW k \in 1..MaxSpawns, ChildWrites(e, k) PROVE Goal
  BY <1>50, <1>0 DEF ChildWrites
<1>51. ASSUME NEW e \in Exec, NEW k \in 1..MaxSpawns, ChildExits(e, k) PROVE Goal
  BY <1>51, <1>0 DEF ChildExits
<1>52. ASSUME NEW e \in Exec, NEW k \in 1..MaxSpawns, ChildFails(e, k) PROVE Goal
  BY <1>52, <1>0 DEF ChildFails
<1>53. CASE UNCHANGED vars
  BY <1>53, <1>0 DEF vars
<1> QED
  BY <1>1, <1>2, <1>3, <1>4, <1>5, <1>6, <1>7, <1>8, <1>9, <1>10, <1>11, <1>12, <1>13, <1>14, <1>15, <1>16, <1>17, <1>18, <1>19, <1>20, <1>21, <1>22, <1>23, <1>24, <1>25, <1>26, <1>27, <1>28, <1>29, <1>30, <1>31, <1>32, <1>33, <1>34, <1>35, <1>36, <1>37, <1>38, <1>39, <1>40, <1>41, <1>42, <1>43, <1>44, <1>45, <1>46, <1>47, <1>48, <1>49, <1>50, <1>51, <1>52, <1>53
  DEF Next, DaemonStep, FaultStep, ChildStep, RecoverStep, ControlStep, ReportStep,
      QuarantineStep, DrainStep, ExecuteStep

\* What is about to run has no report; what leaves the pipeline has one.
LEMMA ReportKnownStep == TraceInv /\ [Next]_vars => ReportKnown'
<1> DEFINE Goal == ReportKnown'
<1> SUFFICES ASSUME TraceInv, [Next]_vars PROVE Goal
  OBVIOUS
<1>0. SpawnInv /\ CurOK /\ ReportKnown /\ ResultOK /\ DiskTypeOK /\ LocalQueueOK
  BY DEF TraceInv, PlaceOK, SpawnInv, TypeOK
<1> USE DEF ReportKnown, LocalQueueOK, ResultOK, Busy, PCs, CurOK, disk, os, daemon, books
<1>1. ASSUME SubmitQueue PROVE Goal
  BY <1>1, <1>0 DEF SubmitQueue, Forget
<1>2. ASSUME TickBegin PROVE Goal
  BY <1>2, <1>0 DEF TickBegin
<1>3. ASSUME ScanDone PROVE Goal
  BY <1>3, <1>0 DEF ScanDone, Forget
<1>4. ASSUME InspectInactive PROVE Goal
  BY <1>4, <1>0 DEF InspectInactive, Inspecting, ProcessGone, Goto
<1>5. ASSUME InspectActive PROVE Goal
  BY <1>5, <1>0 DEF InspectActive, Inspecting, LeaveRunning, Forget
<1>6. ASSUME InspectExpired PROVE Goal
  BY <1>6, <1>0 DEF InspectExpired, Inspecting, Goto
<1>7. ASSUME RecordKill PROVE Goal
  BY <1>7, <1>0 DEF RecordKill, Goto, TickError, Forget
<1>8. ASSUME ForceKill PROVE Goal
  BY <1>8, <1>0 DEF ForceKill, ProcessGone, Goto
<1>9. ASSUME WriteRecoveryResult PROVE Goal
  BY <1>9, <1>0 DEF WriteRecoveryResult, Synth
<1>10. ASSUME EnsureLocalReport PROVE Goal
  BY <1>10, <1>0 DEF EnsureLocalReport, Goto
<1>11. ASSUME PrepareEnvelope PROVE Goal
  BY <1>11, <1>0 DEF PrepareEnvelope, Goto
<1>12. ASSUME PrepareState PROVE Goal
  BY <1>12, <1>0 DEF PrepareState, Goto, DiskTypeOK
<1>13. ASSUME RebuildEnvelope PROVE Goal
  BY <1>13, <1>0 DEF RebuildEnvelope, Goto
<1>14. ASSUME RemoveRunning PROVE Goal
  BY <1>14, <1>0 DEF RemoveRunning, Goto
<1>15. ASSUME QuarantineDropState PROVE Goal
  BY <1>15, <1>0 DEF QuarantineDropState, Goto, NoRep, DiskTypeOK
<1>16. ASSUME QuarantineDropEnvelope PROVE Goal
  BY <1>16, <1>0 DEF QuarantineDropEnvelope, Goto
<1>17. ASSUME QuarantineStoreHistory PROVE Goal
  BY <1>17, <1>0 DEF QuarantineStoreHistory, Goto
<1>18. ASSUME QuarantineDequeue PROVE Goal
  BY <1>18, <1>0 DEF QuarantineDequeue, Goto
<1>19. ASSUME QuarantineDropRunning PROVE Goal
  BY <1>19, <1>0 DEF QuarantineDropRunning, Goto, Forget
<1>20. ASSUME DrainLoadQueue PROVE Goal
  BY <1>20, <1>0 DEF DrainLoadQueue
<1>21. ASSUME HeadEmpty PROVE Goal
  BY <1>21, <1>0 DEF HeadEmpty, Forget
<1>22. ASSUME HeadQuarantine PROVE Goal
  BY <1>22, <1>0, HeadQueued DEF HeadQuarantine, Quarantine
<1>23. ASSUME HeadBegin PROVE Goal
  BY <1>23, <1>0, HeadQueued DEF HeadBegin
<1>24. ASSUME ReconcileCompleted PROVE Goal
  BY <1>24, <1>0 DEF ReconcileCompleted, Ready, Readable
<1>25. ASSUME ReconcileUnreadable PROVE Goal
  BY <1>25, <1>0 DEF ReconcileUnreadable, TickError, Forget
<1>26. ASSUME DequeueCompleted PROVE Goal
  BY <1>26, <1>0 DEF DequeueCompleted, Forget
<1>27. ASSUME Spawn PROVE Goal
  BY <1>27, <1>0 DEF Spawn
<1>28. ASSUME StoreRunning PROVE Goal
  BY <1>28, <1>0 DEF StoreRunning, Goto
<1>29. ASSUME ChildExited PROVE Goal
  BY <1>29, <1>0 DEF ChildExited
<1>30. ASSUME WaitTimesOut PROVE Goal
  BY <1>30, <1>0 DEF WaitTimesOut, Goto, Quarantine
<1>31. ASSUME GraceExpires PROVE Goal
  BY <1>31, <1>0 DEF GraceExpires, Quarantine
<1>32. ASSUME CollectResult PROVE Goal
  BY <1>32, <1>0 DEF CollectResult, CollectedResult, Synth
<1>33. ASSUME CollectQuarantine PROVE Goal
  BY <1>33, <1>0 DEF CollectQuarantine, Quarantine
<1>34. ASSUME StoreFinished PROVE Goal
  BY <1>34, <1>0 DEF StoreFinished, Goto
<1>35. ASSUME Restart PROVE Goal
  BY <1>35, <1>0 DEF Restart, Forget
<1>36. ASSUME SubmitQueueFails PROVE Goal
  BY <1>36, <1>0 DEF SubmitQueueFails, Fault, Forget
<1>37. ASSUME InspectUnavailable PROVE Goal
  BY <1>37, <1>0 DEF InspectUnavailable, Inspecting, LeaveRunning, Forget
<1>38. ASSUME ForceKillUnconfirmed PROVE Goal
  BY <1>38, <1>0 DEF ForceKillUnconfirmed, LeaveRunning, Forget
<1>39. ASSUME ReportFails PROVE Goal
  BY <1>39, <1>0 DEF ReportFails, Quarantine, Forget
<1>40. ASSUME SpawnFails PROVE Goal
  BY <1>40, <1>0 DEF SpawnFails, Quarantine
<1>41. ASSUME StoreRunningFails PROVE Goal
  BY <1>41, <1>0 DEF StoreRunningFails, Quarantine
<1>42. ASSUME StoreFinishedFails PROVE Goal
  BY <1>42, <1>0 DEF StoreFinishedFails, Quarantine
<1>43. ASSUME Crash PROVE Goal
  BY <1>43, <1>0 DEF Crash, Forget
<1>44. ASSUME NEW e \in Exec, ScanQuarantine(e) PROVE Goal
  BY <1>44, <1>0 DEF ScanQuarantine, Quarantine
<1>45. ASSUME NEW e \in Exec, ScanHasResult(e) PROVE Goal
  BY <1>45, <1>0 DEF ScanHasResult, Readable
<1>46. ASSUME NEW e \in Exec, ScanNoResult(e) PROVE Goal
  BY <1>46, <1>0 DEF ScanNoResult
<1>47. ASSUME NEW e \in Exec, SubmitPlan(e) PROVE Goal
  BY <1>47, <1>0 DEF SubmitPlan
<1>48. ASSUME NEW e \in Exec, DeadlineElapses(e) PROVE Goal
  BY <1>48, <1>0 DEF DeadlineElapses
<1>49. ASSUME NEW e \in Exec, Corrupt(e) PROVE Goal
  BY <1>49, <1>0, CorruptKeepsFiles DEF Corrupt, Readable, Synth
<1>50. ASSUME NEW e \in Exec, NEW k \in 1..MaxSpawns, ChildWrites(e, k) PROVE Goal
  BY <1>50, <1>0 DEF ChildWrites
<1>51. ASSUME NEW e \in Exec, NEW k \in 1..MaxSpawns, ChildExits(e, k) PROVE Goal
  BY <1>51, <1>0 DEF ChildExits
<1>52. ASSUME NEW e \in Exec, NEW k \in 1..MaxSpawns, ChildFails(e, k) PROVE Goal
  BY <1>52, <1>0 DEF ChildFails
<1>53. CASE UNCHANGED vars
  BY <1>53, <1>0 DEF vars
<1> QED
  BY <1>1, <1>2, <1>3, <1>4, <1>5, <1>6, <1>7, <1>8, <1>9, <1>10, <1>11, <1>12, <1>13, <1>14, <1>15, <1>16, <1>17, <1>18, <1>19, <1>20, <1>21, <1>22, <1>23, <1>24, <1>25, <1>26, <1>27, <1>28, <1>29, <1>30, <1>31, <1>32, <1>33, <1>34, <1>35, <1>36, <1>37, <1>38, <1>39, <1>40, <1>41, <1>42, <1>43, <1>44, <1>45, <1>46, <1>47, <1>48, <1>49, <1>50, <1>51, <1>52, <1>53
  DEF Next, DaemonStep, FaultStep, ChildStep, RecoverStep, ControlStep, ReportStep,
      QuarantineStep, DrainStep, ExecuteStep

\* What recovery and the quarantine work on is queued or quarantined.
LEMMA HeldKnownStep == TraceInv /\ [Next]_vars => HeldKnown'
<1> DEFINE Goal == HeldKnown'
<1> SUFFICES ASSUME TraceInv, [Next]_vars PROVE Goal
  OBVIOUS
<1>0. SpawnInv /\ CurOK /\ HeldKnown /\ LocalQueueOK /\ DiskTypeOK /\ (\A e \in Exec : HeldOK(e))
  BY DEF TraceInv, TraceOK, PlaceOK, SpawnInv, TypeOK
<1> USE DEF HeldKnown, SharedPCs, OnHead, HeadPCs, LocalQueueOK, HeldOK, Busy, PCs, CurOK, disk, os, daemon, books
<1>1. ASSUME SubmitQueue PROVE Goal
  BY <1>1, <1>0 DEF SubmitQueue, Forget
<1>2. ASSUME TickBegin PROVE Goal
  BY <1>2, <1>0 DEF TickBegin
<1>3. ASSUME ScanDone PROVE Goal
  BY <1>3, <1>0 DEF ScanDone, Forget
<1>4. ASSUME InspectInactive PROVE Goal
  BY <1>4, <1>0 DEF InspectInactive, Inspecting, ProcessGone, Goto
<1>5. ASSUME InspectActive PROVE Goal
  BY <1>5, <1>0 DEF InspectActive, Inspecting, LeaveRunning, Forget
<1>6. ASSUME InspectExpired PROVE Goal
  BY <1>6, <1>0 DEF InspectExpired, Inspecting, Goto
<1>7. ASSUME RecordKill PROVE Goal
  BY <1>7, <1>0 DEF RecordKill, Goto, TickError, Forget
<1>8. ASSUME ForceKill PROVE Goal
  BY <1>8, <1>0 DEF ForceKill, ProcessGone, Goto
<1>9. ASSUME WriteRecoveryResult PROVE Goal
  BY <1>9, <1>0 DEF WriteRecoveryResult, Synth
<1>10. ASSUME EnsureLocalReport PROVE Goal
  BY <1>10, <1>0 DEF EnsureLocalReport, Goto
<1>11. ASSUME PrepareEnvelope PROVE Goal
  BY <1>11, <1>0 DEF PrepareEnvelope, Goto
<1>12. ASSUME PrepareState PROVE Goal
  BY <1>12, <1>0 DEF PrepareState, Goto
<1>13. ASSUME RebuildEnvelope PROVE Goal
  BY <1>13, <1>0 DEF RebuildEnvelope, Goto
<1>14. ASSUME RemoveRunning PROVE Goal
  BY <1>14, <1>0 DEF RemoveRunning, Goto, NoRunning, DiskTypeOK
<1>15. ASSUME QuarantineDropState PROVE Goal
  BY <1>15, <1>0 DEF QuarantineDropState, Goto
<1>16. ASSUME QuarantineDropEnvelope PROVE Goal
  BY <1>16, <1>0 DEF QuarantineDropEnvelope, Goto
<1>17. ASSUME QuarantineStoreHistory PROVE Goal
  BY <1>17, <1>0 DEF QuarantineStoreHistory, Goto, DiskTypeOK
<1>18. ASSUME QuarantineDequeue PROVE Goal
  BY <1>18, <1>0 DEF QuarantineDequeue, Goto, DiskTypeOK
<1>19. ASSUME QuarantineDropRunning PROVE Goal
  BY <1>19, <1>0 DEF QuarantineDropRunning, Goto, Forget
<1>20. ASSUME DrainLoadQueue PROVE Goal
  BY <1>20, <1>0 DEF DrainLoadQueue
<1>21. ASSUME HeadEmpty PROVE Goal
  BY <1>21, <1>0 DEF HeadEmpty, Forget
<1>22. ASSUME HeadQuarantine PROVE Goal
  BY <1>22, <1>0, HeadQueued DEF HeadQuarantine, Quarantine
<1>23. ASSUME HeadBegin PROVE Goal
  BY <1>23, <1>0, HeadQueued DEF HeadBegin
<1>24. ASSUME ReconcileCompleted PROVE Goal
  BY <1>24, <1>0 DEF ReconcileCompleted, Ready, Readable
<1>25. ASSUME ReconcileUnreadable PROVE Goal
  BY <1>25, <1>0 DEF ReconcileUnreadable, TickError, Forget
<1>26. ASSUME DequeueCompleted PROVE Goal
  BY <1>26, <1>0 DEF DequeueCompleted, Forget
<1>27. ASSUME Spawn PROVE Goal
  BY <1>27, <1>0 DEF Spawn
<1>28. ASSUME StoreRunning PROVE Goal
  BY <1>28, <1>0 DEF StoreRunning, Goto
<1>29. ASSUME ChildExited PROVE Goal
  BY <1>29, <1>0 DEF ChildExited
<1>30. ASSUME WaitTimesOut PROVE Goal
  BY <1>30, <1>0 DEF WaitTimesOut, Goto, Quarantine
<1>31. ASSUME GraceExpires PROVE Goal
  BY <1>31, <1>0 DEF GraceExpires, Quarantine
<1>32. ASSUME CollectResult PROVE Goal
  BY <1>32, <1>0 DEF CollectResult, CollectedResult, Synth
<1>33. ASSUME CollectQuarantine PROVE Goal
  BY <1>33, <1>0 DEF CollectQuarantine, Quarantine
<1>34. ASSUME StoreFinished PROVE Goal
  BY <1>34, <1>0 DEF StoreFinished, Goto
<1>35. ASSUME Restart PROVE Goal
  BY <1>35, <1>0 DEF Restart, Forget
<1>36. ASSUME SubmitQueueFails PROVE Goal
  BY <1>36, <1>0 DEF SubmitQueueFails, Fault, Forget
<1>37. ASSUME InspectUnavailable PROVE Goal
  BY <1>37, <1>0 DEF InspectUnavailable, Inspecting, LeaveRunning, Forget
<1>38. ASSUME ForceKillUnconfirmed PROVE Goal
  BY <1>38, <1>0 DEF ForceKillUnconfirmed, LeaveRunning, Forget
<1>39. ASSUME ReportFails PROVE Goal
  BY <1>39, <1>0 DEF ReportFails, Quarantine, Forget
<1>40. ASSUME SpawnFails PROVE Goal
  BY <1>40, <1>0 DEF SpawnFails, Quarantine
<1>41. ASSUME StoreRunningFails PROVE Goal
  BY <1>41, <1>0 DEF StoreRunningFails, Quarantine
<1>42. ASSUME StoreFinishedFails PROVE Goal
  BY <1>42, <1>0 DEF StoreFinishedFails, Quarantine
<1>43. ASSUME Crash PROVE Goal
  BY <1>43, <1>0 DEF Crash, Forget
<1>44. ASSUME NEW e \in Exec, ScanQuarantine(e) PROVE Goal
  BY <1>44, <1>0 DEF ScanQuarantine, Quarantine
<1>45. ASSUME NEW e \in Exec, ScanHasResult(e) PROVE Goal
  BY <1>45, <1>0 DEF ScanHasResult, Readable
<1>46. ASSUME NEW e \in Exec, ScanNoResult(e) PROVE Goal
  BY <1>46, <1>0 DEF ScanNoResult
<1>47. ASSUME NEW e \in Exec, SubmitPlan(e) PROVE Goal
  BY <1>47, <1>0 DEF SubmitPlan
<1>48. ASSUME NEW e \in Exec, DeadlineElapses(e) PROVE Goal
  BY <1>48, <1>0 DEF DeadlineElapses
<1>49. ASSUME NEW e \in Exec, Corrupt(e) PROVE Goal
  BY <1>49, <1>0, CorruptKeepsFiles DEF Corrupt, Readable, Synth
<1>50. ASSUME NEW e \in Exec, NEW k \in 1..MaxSpawns, ChildWrites(e, k) PROVE Goal
  BY <1>50, <1>0 DEF ChildWrites
<1>51. ASSUME NEW e \in Exec, NEW k \in 1..MaxSpawns, ChildExits(e, k) PROVE Goal
  BY <1>51, <1>0 DEF ChildExits
<1>52. ASSUME NEW e \in Exec, NEW k \in 1..MaxSpawns, ChildFails(e, k) PROVE Goal
  BY <1>52, <1>0 DEF ChildFails
<1>53. CASE UNCHANGED vars
  BY <1>53, <1>0 DEF vars
<1> QED
  BY <1>1, <1>2, <1>3, <1>4, <1>5, <1>6, <1>7, <1>8, <1>9, <1>10, <1>11, <1>12, <1>13, <1>14, <1>15, <1>16, <1>17, <1>18, <1>19, <1>20, <1>21, <1>22, <1>23, <1>24, <1>25, <1>26, <1>27, <1>28, <1>29, <1>30, <1>31, <1>32, <1>33, <1>34, <1>35, <1>36, <1>37, <1>38, <1>39, <1>40, <1>41, <1>42, <1>43, <1>44, <1>45, <1>46, <1>47, <1>48, <1>49, <1>50, <1>51, <1>52, <1>53
  DEF Next, DaemonStep, FaultStep, ChildStep, RecoverStep, ControlStep, ReportStep,
      QuarantineStep, DrainStep, ExecuteStep

\* The result in hand is the one on disk.
LEMMA LoadedKnownStep == TraceInv /\ [Next]_vars => LoadedKnown'
<1> DEFINE Goal == LoadedKnown'
<1> SUFFICES ASSUME TraceInv, [Next]_vars PROVE Goal
  OBVIOUS
<1>0. /\ SpawnInv /\ CurOK /\ LoadedKnown /\ ProcessKnown /\ ResultOK /\ DiskTypeOK /\ OsTypeOK /\ DaemonTypeOK
      /\ \A e \in Exec : RecordOK(e) /\ ResultAfter(e)
  BY DEF TraceInv, TraceOK, PlaceOK, SpawnInv, TypeOK
<1> USE DEF LoadedKnown, LoadedPCs, Busy, PCs, CurOK, disk, os, daemon, books
<1>1. ASSUME SubmitQueue PROVE Goal
  BY <1>1, <1>0 DEF SubmitQueue, Forget
<1>2. ASSUME TickBegin PROVE Goal
  BY <1>2, <1>0 DEF TickBegin
<1>3. ASSUME ScanDone PROVE Goal
  BY <1>3, <1>0 DEF ScanDone, Forget
<1>4. ASSUME InspectInactive PROVE Goal
  BY <1>4, <1>0 DEF InspectInactive, Inspecting, ProcessGone, Goto
<1>5. ASSUME InspectActive PROVE Goal
  BY <1>5, <1>0 DEF InspectActive, Inspecting, LeaveRunning, Forget
<1>6. ASSUME InspectExpired PROVE Goal
  BY <1>6, <1>0 DEF InspectExpired, Inspecting, Goto
<1>7. ASSUME RecordKill PROVE Goal
  BY <1>7, <1>0 DEF RecordKill, Goto, TickError, Forget
<1>8. ASSUME ForceKill PROVE Goal
  BY <1>8, <1>0 DEF ForceKill, ProcessGone, Goto
<1>9. ASSUME WriteRecoveryResult PROVE Goal
  BY <1>9, <1>0 DEF WriteRecoveryResult, Synth, Readable, ProcessKnown, DiskTypeOK
<1>10. ASSUME EnsureLocalReport PROVE Goal
  BY <1>10, <1>0 DEF EnsureLocalReport, Goto
<1>11. ASSUME PrepareEnvelope PROVE Goal
  BY <1>11, <1>0 DEF PrepareEnvelope, Goto, DiskTypeOK
<1>12. ASSUME PrepareState PROVE Goal
  BY <1>12, <1>0 DEF PrepareState, Goto, DiskTypeOK
<1>13. ASSUME RebuildEnvelope PROVE Goal
  BY <1>13, <1>0 DEF RebuildEnvelope, Goto
<1>14. ASSUME RemoveRunning PROVE Goal
  BY <1>14, <1>0 DEF RemoveRunning, Goto
<1>15. ASSUME QuarantineDropState PROVE Goal
  BY <1>15, <1>0 DEF QuarantineDropState, Goto
<1>16. ASSUME QuarantineDropEnvelope PROVE Goal
  BY <1>16, <1>0 DEF QuarantineDropEnvelope, Goto
<1>17. ASSUME QuarantineStoreHistory PROVE Goal
  BY <1>17, <1>0 DEF QuarantineStoreHistory, Goto
<1>18. ASSUME QuarantineDequeue PROVE Goal
  BY <1>18, <1>0 DEF QuarantineDequeue, Goto
<1>19. ASSUME QuarantineDropRunning PROVE Goal
  BY <1>19, <1>0 DEF QuarantineDropRunning, Goto, Forget
<1>20. ASSUME DrainLoadQueue PROVE Goal
  BY <1>20, <1>0 DEF DrainLoadQueue
<1>21. ASSUME HeadEmpty PROVE Goal
  BY <1>21, <1>0 DEF HeadEmpty, Forget
<1>22. ASSUME HeadQuarantine PROVE Goal
  BY <1>22, <1>0, HeadQueued DEF HeadQuarantine, Quarantine
<1>23. ASSUME HeadBegin PROVE Goal
  BY <1>23, <1>0, HeadQueued DEF HeadBegin
<1>24. ASSUME ReconcileCompleted PROVE Goal
  <2>1. cur \in Exec /\ spawns[cur] \in Nat
    BY <1>24, <1>0 DEF ReconcileCompleted, OsTypeOK
  <2>2. pc' \in {"reported", "ensure", "spawn", "synth"} /\ UNCHANGED <<cur, result, spawns>>
    BY <1>24 DEF ReconcileCompleted
  <2>3. pc' = "ensure" => Readable(result[cur]) /\ lres' = result[cur]
    BY <1>24 DEF ReconcileCompleted
  <2>4. pc' = "ensure" => spawns[cur] >= 1
    BY <1>0, <2>1, <2>3 DEF ResultAfter, Readable
  <2> QED
    BY <2>1, <2>2, <2>3, <2>4
<1>25. ASSUME ReconcileUnreadable PROVE Goal
  BY <1>25, <1>0 DEF ReconcileUnreadable, TickError, Forget
<1>26. ASSUME DequeueCompleted PROVE Goal
  BY <1>26, <1>0 DEF DequeueCompleted, Forget
<1>27. ASSUME Spawn PROVE Goal
  BY <1>27, <1>0 DEF Spawn
<1>28. ASSUME StoreRunning PROVE Goal
  BY <1>28, <1>0 DEF StoreRunning, Goto
<1>29. ASSUME ChildExited PROVE Goal
  BY <1>29, <1>0 DEF ChildExited
<1>30. ASSUME WaitTimesOut PROVE Goal
  BY <1>30, <1>0 DEF WaitTimesOut, Goto, Quarantine
<1>31. ASSUME GraceExpires PROVE Goal
  BY <1>31, <1>0 DEF GraceExpires, Quarantine
<1>32. ASSUME CollectResult PROVE Goal
  <2>1. cur \in Exec /\ cls \in {"completed", "completed_late", "timed_out"} /\ spawns[cur] >= 1
    BY <1>32, <1>0 DEF CollectResult, DaemonTypeOK, ResultOK, ProcessKnown, ExecutePCs
  <2> DEFINE r == CollectedResult(result[cur], cls)
  <2>2. Readable(r)
    BY <1>32, <2>1 DEF CollectResult, CollectContradicts, CollectedResult, Readable, Synth
  <2> HIDE DEF r
  <2>3. result'[cur] = r /\ lres' = r /\ UNCHANGED <<cur, spawns>> /\ pc' = "finish"
    BY <1>32, <1>0, <2>1 DEF CollectResult, DiskTypeOK, r
  <2> QED
    BY <2>1, <2>2, <2>3
<1>33. ASSUME CollectQuarantine PROVE Goal
  BY <1>33, <1>0 DEF CollectQuarantine, Quarantine
<1>34. ASSUME StoreFinished PROVE Goal
  BY <1>34, <1>0 DEF StoreFinished, Goto
<1>35. ASSUME Restart PROVE Goal
  BY <1>35, <1>0 DEF Restart, Forget
<1>36. ASSUME SubmitQueueFails PROVE Goal
  BY <1>36, <1>0 DEF SubmitQueueFails, Fault, Forget
<1>37. ASSUME InspectUnavailable PROVE Goal
  BY <1>37, <1>0 DEF InspectUnavailable, Inspecting, LeaveRunning, Forget
<1>38. ASSUME ForceKillUnconfirmed PROVE Goal
  BY <1>38, <1>0 DEF ForceKillUnconfirmed, LeaveRunning, Forget
<1>39. ASSUME ReportFails PROVE Goal
  BY <1>39, <1>0 DEF ReportFails, Quarantine, Forget
<1>40. ASSUME SpawnFails PROVE Goal
  BY <1>40, <1>0 DEF SpawnFails, Quarantine
<1>41. ASSUME StoreRunningFails PROVE Goal
  BY <1>41, <1>0 DEF StoreRunningFails, Quarantine
<1>42. ASSUME StoreFinishedFails PROVE Goal
  BY <1>42, <1>0 DEF StoreFinishedFails, Quarantine
<1>43. ASSUME Crash PROVE Goal
  BY <1>43, <1>0 DEF Crash, Forget
<1>44. ASSUME NEW e \in Exec, ScanQuarantine(e) PROVE Goal
  BY <1>44, <1>0 DEF ScanQuarantine, Quarantine
<1>45. ASSUME NEW e \in Exec, ScanHasResult(e) PROVE Goal
  <2>1. spawns[e] \in Nat /\ running[e].pid \in 1..spawns[e]
    BY <1>45, <1>0 DEF ScanHasResult, OsTypeOK, RecordOK
  <2>2. spawns[e] >= 1
    BY <2>1
  <2> QED
    BY <1>45, <2>2 DEF ScanHasResult
<1>46. ASSUME NEW e \in Exec, ScanNoResult(e) PROVE Goal
  BY <1>46, <1>0 DEF ScanNoResult
<1>47. ASSUME NEW e \in Exec, SubmitPlan(e) PROVE Goal
  BY <1>47, <1>0 DEF SubmitPlan
<1>48. ASSUME NEW e \in Exec, DeadlineElapses(e) PROVE Goal
  BY <1>48, <1>0 DEF DeadlineElapses
<1>49. ASSUME NEW e \in Exec, Corrupt(e) PROVE Goal
  <2> SUFFICES ASSUME pc \in LoadedPCs
               PROVE  /\ spawns[cur] = 1 => result'[cur] \in {lres, Synth("bad")}
                      /\ pc = "prepState" /\ env'[cur].st = "ok" => env'[cur].res = lres /\ env'[cur].dig = lres
    BY <1>49, <1>0 DEF Corrupt
  <2>1. cur \in Exec /\ result[cur].kind # "none" /\ pc \notin {"synth", "collect"}
    BY <1>0 DEF ResultOK, ResultPCs
  <2>2. spawns[cur] = 1 => result'[cur] \in {result[cur], Synth("bad")}
    <3>2. result' = result \/ result' = [result EXCEPT ![e] = Synth("bad")]
      BY <1>49 DEF Corrupt
    <3>3. result'[cur] = result[cur] \/ result'[cur] = Synth("bad")
      BY <1>0, <2>1, <3>2 DEF DiskTypeOK
    <3> QED
      BY <3>3
  <2>3. pc = "prepState" => env'[cur] = env[cur] \/ env'[cur].st # "ok"
    BY <1>0, <2>1, EnvEffect
  <2> QED
    BY <1>0, <2>1, <2>2, <2>3
<1>50. ASSUME NEW e \in Exec, NEW k \in 1..MaxSpawns, ChildWrites(e, k) PROVE Goal
  <2> SUFFICES ASSUME pc \in LoadedPCs
               PROVE  /\ spawns[cur] = 1 => result'[cur] \in {lres, Synth("bad")}
                      /\ pc = "prepState" /\ env'[cur].st = "ok" => env'[cur].res = lres /\ env'[cur].dig = lres
    BY <1>50, <1>0 DEF ChildWrites
  <2>1. cur \in Exec /\ result[cur].kind # "none" /\ pc \notin {"synth", "collect"}
    BY <1>0 DEF ResultOK, ResultPCs
  <2>2. spawns[cur] = 1 => result'[cur] \in {result[cur], Synth("bad")}
    <3>1. CASE result'[cur].kind # "bad"
      BY <2>1, <3>1, ResultKept
    <3>2. result'[cur] = result[cur] \/ result'[cur].kind \in {"succeeded", "rejected"}
      BY <1>50, <1>0, <2>1 DEF ChildWrites, DiskTypeOK
    <3> QED
      BY <3>1, <3>2
  <2>3. pc = "prepState" => env'[cur] = env[cur] \/ env'[cur].st # "ok"
    BY <1>0, <2>1, EnvEffect
  <2> QED
    BY <1>0, <2>1, <2>2, <2>3
<1>51. ASSUME NEW e \in Exec, NEW k \in 1..MaxSpawns, ChildExits(e, k) PROVE Goal
  BY <1>51, <1>0 DEF ChildExits
<1>52. ASSUME NEW e \in Exec, NEW k \in 1..MaxSpawns, ChildFails(e, k) PROVE Goal
  BY <1>52, <1>0 DEF ChildFails
<1>53. CASE UNCHANGED vars
  BY <1>53, <1>0 DEF vars
<1> QED
  BY <1>1, <1>2, <1>3, <1>4, <1>5, <1>6, <1>7, <1>8, <1>9, <1>10, <1>11, <1>12, <1>13, <1>14, <1>15, <1>16, <1>17, <1>18, <1>19, <1>20, <1>21, <1>22, <1>23, <1>24, <1>25, <1>26, <1>27, <1>28, <1>29, <1>30, <1>31, <1>32, <1>33, <1>34, <1>35, <1>36, <1>37, <1>38, <1>39, <1>40, <1>41, <1>42, <1>43, <1>44, <1>45, <1>46, <1>47, <1>48, <1>49, <1>50, <1>51, <1>52, <1>53
  DEF Next, DaemonStep, FaultStep, ChildStep, RecoverStep, ControlStep, ReportStep,
      QuarantineStep, DrainStep, ExecuteStep

\* A process that is gone does not come back when another one moves on.
LEMMA DeadProcess ==
  ASSUME OsTypeOK, DaemonTypeOK, CurOK, ProcessKnown, UNCHANGED <<pc, cur, ctx, running, spawns>>,
         NEW e \in Exec, NEW k \in 1..MaxSpawns, NEW st \in {"wrote", "ok", "err"},
         Alive(child[e][k]), child' = [child EXCEPT ![e][k] = st]
  PROVE  ProcessKnown'
<1>1. \A f \in Exec : \A j \in 1..MaxSpawns : ~Alive(child[f][j]) => ~Alive(child'[f][j])
  BY DEF OsTypeOK
<1>2. pc \in Busy => cur \in Exec /\ spawns[cur] \in 0..MaxSpawns
  BY DEF CurOK, OsTypeOK
<1>3. pc \in {"synth", "reconcile"} /\ ~Alive(child[cur][1]) => ~Alive(child'[cur][1])
  BY <1>1, <1>2, ExecutionAssumption DEF Busy, PCs
<1>4. pc \in {"collect", "finish"} => spawns[cur] \in 1..MaxSpawns
  BY <1>2 DEF Busy, PCs, ProcessKnown, ExecutePCs
<1>5. pc \in {"collect", "finish"} => ~Alive(child'[cur][spawns[cur]])
  BY <1>1, <1>2, <1>4 DEF Busy, PCs, ProcessKnown
<1> QED
  BY <1>3, <1>5 DEF ProcessKnown

\* What is known of the process at hand stays true.
LEMMA ProcessKnownStep == TraceInv /\ [Next]_vars => ProcessKnown'
<1> DEFINE Goal == ProcessKnown'
<1> SUFFICES ASSUME TraceInv, [Next]_vars PROVE Goal
  OBVIOUS
<1>0. /\ SpawnInv /\ CurOK /\ ProcessKnown /\ DiskTypeOK /\ OsTypeOK /\ DaemonTypeOK
      /\ \A e \in Exec : RecordOK(e)
  BY DEF TraceInv, TraceOK, PlaceOK, SpawnInv, TypeOK
<1> USE DEF ProcessKnown, ExecutePCs, Busy, PCs, CurOK, disk, os, daemon, books
<1>1. ASSUME SubmitQueue PROVE Goal
  BY <1>1, <1>0 DEF SubmitQueue, Forget
<1>2. ASSUME TickBegin PROVE Goal
  BY <1>2, <1>0 DEF TickBegin
<1>3. ASSUME ScanDone PROVE Goal
  BY <1>3, <1>0 DEF ScanDone, Forget
<1>4. ASSUME InspectInactive PROVE Goal
  <2>1. cur \in Exec /\ running[cur].st # "none" /\ spawns[cur] \in Nat
    BY <1>4, <1>0 DEF InspectInactive, Inspecting, OsTypeOK
  <2>2. running[cur].pid \in 1..spawns[cur]
    BY <1>0, <2>1 DEF RecordOK
  <2>3. ~Alive(child[cur][running[cur].pid])
    BY <1>4, <2>1, <2>2 DEF InspectInactive, ProcessAlive, ProcessOf
  <2>4. spawns[cur] >= 1 /\ (spawns[cur] = 1 => running[cur].pid = 1)
    BY <2>1, <2>2
  <2>5. UNCHANGED <<cur, running, spawns, child>> /\ pc' \in {"synth", "reconcile"}
    BY <1>4 DEF InspectInactive, ProcessGone, Goto
  <2> QED
    BY <2>1, <2>3, <2>4, <2>5
<1>5. ASSUME InspectActive PROVE Goal
  BY <1>5, <1>0 DEF InspectActive, Inspecting, LeaveRunning, Forget
<1>6. ASSUME InspectExpired PROVE Goal
  BY <1>6, <1>0 DEF InspectExpired, Inspecting, Goto
<1>7. ASSUME RecordKill PROVE Goal
  BY <1>7, <1>0 DEF RecordKill, Goto, TickError, Forget
<1>8. ASSUME ForceKill PROVE Goal
  <2>1. cur \in Exec /\ running[cur].st # "none" /\ spawns[cur] \in 0..MaxSpawns
    BY <1>8, <1>0 DEF ForceKill, OsTypeOK
  <2>2. running[cur].pid \in 1..spawns[cur]
    BY <1>0, <2>1 DEF RecordOK
  <2>3. ~Alive(child'[cur][running[cur].pid])
    <3>1. running[cur].pid \in 1..MaxSpawns /\ running[cur].pid # 0
      BY <2>1, <2>2, ExecutionAssumption
    <3>2. CASE ProcessAlive(cur)
      <4>1. child' = [child EXCEPT ![cur][running[cur].pid] = "err"]
        BY <1>8, <3>2 DEF ForceKill
      <4> QED
        BY <1>0, <2>1, <3>1, <4>1 DEF OsTypeOK, Alive
    <3>3. CASE ~ProcessAlive(cur)
      BY <1>8, <3>1, <3>3 DEF ForceKill, ProcessAlive, ProcessOf
    <3> QED
      BY <3>2, <3>3
  <2>4. spawns[cur] >= 1 /\ (spawns[cur] = 1 => running[cur].pid = 1)
    BY <2>1, <2>2
  <2>5. UNCHANGED <<cur, running, spawns>> /\ pc' \in {"synth", "reconcile"}
    BY <1>8 DEF ForceKill, ProcessGone, Goto
  <2> QED
    BY <2>1, <2>3, <2>4, <2>5
<1>9. ASSUME WriteRecoveryResult PROVE Goal
  BY <1>9, <1>0 DEF WriteRecoveryResult, Synth
<1>10. ASSUME EnsureLocalReport PROVE Goal
  BY <1>10, <1>0 DEF EnsureLocalReport, Goto
<1>11. ASSUME PrepareEnvelope PROVE Goal
  BY <1>11, <1>0 DEF PrepareEnvelope, Goto
<1>12. ASSUME PrepareState PROVE Goal
  BY <1>12, <1>0 DEF PrepareState, Goto
<1>13. ASSUME RebuildEnvelope PROVE Goal
  BY <1>13, <1>0 DEF RebuildEnvelope, Goto
<1>14. ASSUME RemoveRunning PROVE Goal
  BY <1>14, <1>0 DEF RemoveRunning, Goto
<1>15. ASSUME QuarantineDropState PROVE Goal
  BY <1>15, <1>0 DEF QuarantineDropState, Goto
<1>16. ASSUME QuarantineDropEnvelope PROVE Goal
  BY <1>16, <1>0 DEF QuarantineDropEnvelope, Goto
<1>17. ASSUME QuarantineStoreHistory PROVE Goal
  BY <1>17, <1>0 DEF QuarantineStoreHistory, Goto
<1>18. ASSUME QuarantineDequeue PROVE Goal
  BY <1>18, <1>0 DEF QuarantineDequeue, Goto
<1>19. ASSUME QuarantineDropRunning PROVE Goal
  BY <1>19, <1>0 DEF QuarantineDropRunning, Goto, Forget
<1>20. ASSUME DrainLoadQueue PROVE Goal
  BY <1>20, <1>0 DEF DrainLoadQueue
<1>21. ASSUME HeadEmpty PROVE Goal
  BY <1>21, <1>0 DEF HeadEmpty, Forget
<1>22. ASSUME HeadQuarantine PROVE Goal
  BY <1>22, <1>0, HeadQueued DEF HeadQuarantine, Quarantine
<1>23. ASSUME HeadBegin PROVE Goal
  BY <1>23, <1>0, HeadQueued DEF HeadBegin
<1>24. ASSUME ReconcileCompleted PROVE Goal
  BY <1>24, <1>0 DEF ReconcileCompleted, Ready, Readable
<1>25. ASSUME ReconcileUnreadable PROVE Goal
  BY <1>25, <1>0 DEF ReconcileUnreadable, TickError, Forget
<1>26. ASSUME DequeueCompleted PROVE Goal
  BY <1>26, <1>0 DEF DequeueCompleted, Forget
<1>27. ASSUME Spawn PROVE Goal
  <2>1. cur \in Exec /\ spawns[cur] \in Nat
    BY <1>27, <1>0 DEF Spawn, OsTypeOK
  <2>2. spawns'[cur] = spawns[cur] + 1 /\ pc' = "store" /\ cur' = cur
    BY <1>27, <1>0, <2>1 DEF Spawn, OsTypeOK
  <2> QED
    BY <2>1, <2>2
<1>28. ASSUME StoreRunning PROVE Goal
  <2>1. cur \in Exec /\ spawns[cur] >= 1
    BY <1>28, <1>0 DEF StoreRunning
  <2>2. running'[cur].st = "ok" /\ pc' = "wait" /\ UNCHANGED <<cur, spawns>>
    BY <1>28, <1>0, <2>1 DEF StoreRunning, Goto, DiskTypeOK
  <2> QED
    BY <2>1, <2>2
<1>29. ASSUME ChildExited PROVE Goal
  <2>1. pc' = "collect" /\ UNCHANGED <<cur, running, spawns, child>>
    BY <1>29 DEF ChildExited
  <2>2. spawns[cur] >= 1 /\ ~Alive(child[cur][spawns[cur]])
    BY <1>29, <1>0 DEF ChildExited, Awaited
  <2> QED
    BY <2>1, <2>2
<1>30. ASSUME WaitTimesOut PROVE Goal
  BY <1>30, <1>0 DEF WaitTimesOut, Goto, Quarantine
<1>31. ASSUME GraceExpires PROVE Goal
  <2>1. cur \in Exec /\ spawns[cur] \in 0..MaxSpawns /\ spawns[cur] >= 1
    BY <1>31, <1>0 DEF GraceExpires, OsTypeOK
  <2>2. spawns[cur] \in 1..MaxSpawns
    BY <2>1
  <2>3. pc' \in {"collect", "q1"} /\ UNCHANGED <<cur, spawns>>
    BY <1>31 DEF GraceExpires, Quarantine
  <2>4. pc' = "collect" => child' = [child EXCEPT ![cur][spawns[cur]] = "err"]
    BY <1>31 DEF GraceExpires, Quarantine
  <2>5. pc' = "collect" => child'[cur][spawns[cur]] = "err"
    BY <1>0, <2>1, <2>2, <2>4 DEF OsTypeOK
  <2> QED
    BY <2>1, <2>3, <2>5 DEF Alive
<1>32. ASSUME CollectResult PROVE Goal
  BY <1>32, <1>0 DEF CollectResult, CollectedResult, Synth
<1>33. ASSUME CollectQuarantine PROVE Goal
  BY <1>33, <1>0 DEF CollectQuarantine, Quarantine
<1>34. ASSUME StoreFinished PROVE Goal
  BY <1>34, <1>0 DEF StoreFinished, Goto
<1>35. ASSUME Restart PROVE Goal
  BY <1>35, <1>0 DEF Restart, Forget
<1>36. ASSUME SubmitQueueFails PROVE Goal
  BY <1>36, <1>0 DEF SubmitQueueFails, Fault, Forget
<1>37. ASSUME InspectUnavailable PROVE Goal
  BY <1>37, <1>0 DEF InspectUnavailable, Inspecting, LeaveRunning, Forget
<1>38. ASSUME ForceKillUnconfirmed PROVE Goal
  BY <1>38, <1>0 DEF ForceKillUnconfirmed, LeaveRunning, Forget
<1>39. ASSUME ReportFails PROVE Goal
  BY <1>39, <1>0 DEF ReportFails, Quarantine, Forget
<1>40. ASSUME SpawnFails PROVE Goal
  BY <1>40, <1>0 DEF SpawnFails, Quarantine
<1>41. ASSUME StoreRunningFails PROVE Goal
  BY <1>41, <1>0 DEF StoreRunningFails, Quarantine
<1>42. ASSUME StoreFinishedFails PROVE Goal
  BY <1>42, <1>0 DEF StoreFinishedFails, Quarantine
<1>43. ASSUME Crash PROVE Goal
  BY <1>43, <1>0 DEF Crash, Forget
<1>44. ASSUME NEW e \in Exec, ScanQuarantine(e) PROVE Goal
  BY <1>44, <1>0 DEF ScanQuarantine, Quarantine
<1>45. ASSUME NEW e \in Exec, ScanHasResult(e) PROVE Goal
  BY <1>45, <1>0 DEF ScanHasResult, Readable
<1>46. ASSUME NEW e \in Exec, ScanNoResult(e) PROVE Goal
  BY <1>46, <1>0 DEF ScanNoResult
<1>47. ASSUME NEW e \in Exec, SubmitPlan(e) PROVE Goal
  BY <1>47, <1>0 DEF SubmitPlan
<1>48. ASSUME NEW e \in Exec, DeadlineElapses(e) PROVE Goal
  BY <1>48, <1>0 DEF DeadlineElapses
<1>49. ASSUME NEW e \in Exec, Corrupt(e) PROVE Goal
  BY <1>49, <1>0, CorruptKeepsFiles DEF Corrupt, Readable, Synth
<1>50. ASSUME NEW e \in Exec, NEW k \in 1..MaxSpawns, ChildWrites(e, k) PROVE Goal
  <2>1. UNCHANGED <<pc, cur, ctx, running, spawns>>
    BY <1>50 DEF ChildWrites
  <2>2. \E st \in {"wrote", "ok", "err"} : Alive(child[e][k]) /\ child' = [child EXCEPT ![e][k] = st]
    BY <1>50 DEF ChildWrites, Alive
  <2> QED
    BY <1>0, <2>1, <2>2, DeadProcess
<1>51. ASSUME NEW e \in Exec, NEW k \in 1..MaxSpawns, ChildExits(e, k) PROVE Goal
  <2>1. UNCHANGED <<pc, cur, ctx, running, spawns>>
    BY <1>51 DEF ChildExits
  <2>2. \E st \in {"wrote", "ok", "err"} : Alive(child[e][k]) /\ child' = [child EXCEPT ![e][k] = st]
    BY <1>51 DEF ChildExits, Alive
  <2> QED
    BY <1>0, <2>1, <2>2, DeadProcess
<1>52. ASSUME NEW e \in Exec, NEW k \in 1..MaxSpawns, ChildFails(e, k) PROVE Goal
  <2>1. UNCHANGED <<pc, cur, ctx, running, spawns>>
    BY <1>52 DEF ChildFails
  <2>2. \E st \in {"wrote", "ok", "err"} : Alive(child[e][k]) /\ child' = [child EXCEPT ![e][k] = st]
    BY <1>52 DEF ChildFails, Alive
  <2> QED
    BY <1>0, <2>1, <2>2, DeadProcess
<1>53. CASE UNCHANGED vars
  BY <1>53, <1>0 DEF vars
<1> QED
  BY <1>1, <1>2, <1>3, <1>4, <1>5, <1>6, <1>7, <1>8, <1>9, <1>10, <1>11, <1>12, <1>13, <1>14, <1>15, <1>16, <1>17, <1>18, <1>19, <1>20, <1>21, <1>22, <1>23, <1>24, <1>25, <1>26, <1>27, <1>28, <1>29, <1>30, <1>31, <1>32, <1>33, <1>34, <1>35, <1>36, <1>37, <1>38, <1>39, <1>40, <1>41, <1>42, <1>43, <1>44, <1>45, <1>46, <1>47, <1>48, <1>49, <1>50, <1>51, <1>52, <1>53
  DEF Next, DaemonStep, FaultStep, ChildStep, RecoverStep, ControlStep, ReportStep,
      QuarantineStep, DrainStep, ExecuteStep

-----------------------------------------------------------------------------
(* Never forgotten, and reported truly. *)

\* The empty state directory satisfies the invariant.
LEMMA InitTraceInv == Init => TraceInv
<1> SUFFICES ASSUME Init PROVE TraceInv
  OBVIOUS
<1>1. SpawnInv
  BY InitSpawnInv
<1>2. ASSUME NEW e \in Exec PROVE TraceOK(e)
  <2>1. ~InQueue(e, queue)
    BY DEF Init, InQueue
  <2> QED
    BY <2>1 DEF Init, TraceOK, RecordOK, ProcessesOK, ResultAfter, DigestOK, HeldOK, AcceptedOK,
                NoRunning, NoResult, NoRep, NoHist
<1>3. PlaceOK
  BY DEF Init, PlaceOK, ProcessKnown, ReportKnown, LoadedKnown, HeldKnown, AcceptedKnown,
         ExecutePCs, LoadedPCs, SharedPCs, Busy, PCs
<1> QED
  BY <1>1, <1>2, <1>3 DEF TraceInv

\* Every step of the daemon, a child or the environment preserves it.
LEMMA StepTraceInv == TraceInv /\ [Next]_vars => TraceInv'
<1> SUFFICES ASSUME TraceInv, [Next]_vars PROVE TraceInv'
  OBVIOUS
<1>1. SpawnInv'
  BY StepSpawnInv DEF TraceInv
<1>2. ASSUME NEW e \in Exec PROVE TraceOK(e)'
  BY RecordStep, ProcessesStep, ResultAfterStep, DigestStep, HeldStep, AcceptedStep DEF TraceOK
<1>3. PlaceOK'
  BY ProcessKnownStep, ReportKnownStep, LoadedKnownStep, HeldKnownStep, AcceptedKnownStep DEF PlaceOK
<1> QED
  BY <1>1, <1>2, <1>3 DEF TraceInv

\* For any number of executions, crashes, I/O errors and corrupt files: what submit_local_plan
\* accepted is queued until it has a reporting state or a quarantine record.  The order of the
\* writes of drain_next and quarantine_execution is what this rests on.
THEOREM NeverForgottenHolds == Spec => []NeverForgotten
<1>1. TraceInv => NeverForgotten
  BY DEF TraceInv, TraceOK, AcceptedOK, NeverForgotten, SpawnInv, TypeOK, BooksTypeOK
<1> QED
  BY <1>1, InitTraceInv, StepTraceInv, PTL DEF Spec

\* For any number of executions, crashes, I/O errors and corrupt files: the report of an
\* execution that ran once carries the result on disk under its digest, and there is none while
\* the process works (ensure_local_report, recover_incomplete_executions).
THEOREM ReportTrueHolds == Spec => []ReportTrue
<1>1. TraceInv => ReportTrue
  <2> SUFFICES ASSUME TraceInv, NEW e \in Exec, spawns[e] = 1
               PROVE  /\ Ready(e) /\ result[e].kind # "bad"
                           => env[e].res = result[e] /\ env[e].dig = env[e].res /\ rep[e].dig = env[e].dig
                      /\ rep[e].st = "ok" => child[e][1] # "live"
    BY DEF ReportTrue
  <2>1. Ready(e) /\ result[e].kind # "bad"
          => env[e].res = result[e] /\ env[e].dig = env[e].res /\ rep[e].dig = env[e].dig
    BY DEF TraceInv, TraceOK, DigestOK, Ready
  <2>2. rep[e].st = "ok" => child[e][1] # "live"
    BY DEF TraceInv, TraceOK, ResultAfter, SpawnInv, ResultOK
  <2> QED
    BY <2>1, <2>2
<1> QED
  BY <1>1, InitTraceInv, StepTraceInv, PTL DEF Spec

-----------------------------------------------------------------------------
(* One runner: every step keeps what is known as long as no file fails. *)

\* Faults are only added.
LEMMA FaultsGrow ==
  ASSUME SpawnInv, [Next]_vars, faults' = 0 PROVE faults = 0 /\ faults' # faults + 1
<1>1. faults \in Nat
  BY ExecutionAssumption DEF SpawnInv, TypeOK, BooksTypeOK
<1> QED
  BY <1>1, Writers

\* No file is damaged without a fault.
LEMMA CleanStep ==
  ASSUME TraceInv, [Next]_vars, faults' = 0, NEW e \in Exec, CleanOK(e) PROVE CleanOK(e)'
<1>1. SpawnInv /\ DiskTypeOK
  BY DEF TraceInv, SpawnInv, TypeOK
<1>2. faults = 0 /\ faults' # faults + 1
  BY <1>1, FaultsGrow
<1>3. plan'[e] # "bad"
  <2>1. CASE Spawn
    BY <1>1, <2>1 DEF Spawn, DiskTypeOK, CleanOK
  <2>2. CASE SubmitQueueFails
    BY <1>2, <2>2 DEF SubmitQueueFails, Fault
  <2>3. ASSUME NEW f \in Exec, SubmitPlan(f) PROVE plan'[e] # "bad"
    BY <1>1, <2>3 DEF SubmitPlan, DiskTypeOK, CleanOK
  <2>4. ASSUME NEW f \in Exec, Corrupt(f) PROVE FALSE
    BY <1>2, <2>4 DEF Corrupt, Fault
  <2>5. CASE UNCHANGED plan
    BY <2>5 DEF CleanOK
  <2> QED
    BY <2>1, <2>2, <2>3, <2>4, <2>5, Writers
<1>4. running'[e].st # "bad"
  <2>1. running'[e] = running[e] \/ running'[e] = NoRunning \/ running'[e] = [st |-> "ok", pid |-> spawns[e]]
    BY <1>1, <1>2, RunningEffect, Zenon
  <2> QED
    BY <2>1 DEF CleanOK, NoRunning
<1>5. result'[e].kind # "bad"
  <2>1. \/ result'[e] = result[e]
        \/ result'[e] = Synth("recovered")
        \/ result'[e] = CollectedResult(result[e], cls)
        \/ \E k \in 1..MaxSpawns, kind \in {"succeeded", "rejected"} : result'[e] = [kind |-> kind, by |-> k]
    BY <1>1, <1>2, ResultEffect, Zenon
  <2>2. CollectedResult(result[e], cls).kind # "bad"
    BY DEF CleanOK, CollectedResult, Synth
  <2>3. CASE \E k \in 1..MaxSpawns, kind \in {"succeeded", "rejected"} : result'[e] = [kind |-> kind, by |-> k]
    BY <2>3
  <2>4. CASE result'[e] = Synth("recovered")
    BY <2>4 DEF Synth
  <2> QED
    BY <2>1, <2>2, <2>3, <2>4 DEF CleanOK
<1>6. rep'[e].st # "bad"
  <2>1. rep'[e] = rep[e] \/ rep'[e] = [st |-> "ok", dig |-> lres] \/ rep'[e] = NoRep
    BY <1>1, <1>2, RepEffect, Zenon
  <2> QED
    BY <2>1 DEF CleanOK, NoRep
<1>7. env'[e].st # "bad"
  <2>1. \/ env'[e] = env[e] \/ env'[e] = [st |-> "ok", res |-> lres, dig |-> lres]
        \/ env'[e] = [st |-> "ok", res |-> lres, dig |-> rep[e].dig] \/ env'[e] = NoEnv
    BY <1>1, <1>2, EnvEffect, Zenon
  <2> QED
    BY <2>1 DEF CleanOK, NoEnv
<1> QED
  BY <1>3, <1>4, <1>5, <1>6, <1>7 DEF CleanOK

\* Spawns without a record are only added.
LEMMA UnrecGrows ==
  ASSUME SpawnInv, [Next]_vars, NEW e \in Exec, unrec'[e] = 0 PROVE unrec[e] = 0
<1>1. BooksTypeOK /\ DaemonTypeOK /\ CurOK
  BY DEF SpawnInv, TypeOK
<1>2. CASE StoreRunningFails
  <2>1. unrec[e] \in Nat /\ unrec' = [unrec EXCEPT ![cur] = unrec[cur] + 1]
    BY <1>1, <1>2 DEF StoreRunningFails, BooksTypeOK
  <2> QED
    BY <1>1, <2>1 DEF BooksTypeOK
<1>3. CASE Crash
  <2>1. unrec[e] \in Nat /\ (unrec' = unrec \/ unrec' = [unrec EXCEPT ![cur] = unrec[cur] + 1])
    BY <1>1, <1>3 DEF Crash, BooksTypeOK
  <2> QED
    BY <1>1, <2>1 DEF BooksTypeOK
<1> QED
  BY <1>2, <1>3, Writers

\* The head stays at the head until it is taken out.
LEMMA HeadStays ==
  ASSUME SpawnInv, [Next]_vars, NEW e \in Exec, AtHead(e), ~(pc \in {"q4", "qstore"})
  PROVE  AtHead(e)'
<1>1. queue \in Seq(Exec) /\ (pc = "submit" => cur \in Exec)
  BY CurInExec DEF SpawnInv, TypeOK, DiskTypeOK, Busy, PCs
<1>2. queue' = queue \/ (pc = "submit" /\ queue' = Append(queue, cur))
  BY QueueEffect
<1> QED
  BY <1>1, <1>2 DEF AtHead

\* A process that works and has its record belongs to the head of the queue.
LEMMA WorkerStep ==
  ASSUME TraceInv, CleanInv, [Next]_vars, NEW e \in Exec PROVE WorkerOK(e)'
<1>1. SpawnInv /\ WorkerOK(e) /\ HeadKnown /\ ProcessesOK(e) /\ ResultAfter(e) /\ ReportKnown
  BY DEF TraceInv, TraceOK, PlaceOK, CleanInv
<1>2. /\ spawns[e] \in 0..MaxSpawns /\ unrec[e] \in Nat /\ spawns[e] <= unrec[e] + 1
      /\ child[e] \in [1..MaxSpawns -> ChildStates] /\ 1 \in 1..MaxSpawns /\ ResultOK
  BY <1>1, ExecutionAssumption DEF SpawnInv, TypeOK, OsTypeOK, BooksTypeOK, CountOK
<1> SUFFICES ASSUME unrec'[e] = 0, child'[e][1] = "live" PROVE AtHead(e)'
  BY DEF WorkerOK
<1>3. unrec[e] = 0
  BY <1>1, UnrecGrows
<1>4. CASE child[e][1] = "live"
  <2>1. AtHead(e)
    BY <1>1, <1>3, <1>4 DEF WorkerOK
  <2>2. spawns[e] = 1
    <3>1. ~(1 > spawns[e])
      BY <1>1, <1>2, <1>4 DEF ProcessesOK
    <3> QED
      BY <1>2, <1>3, <3>1
  <2>3. result[e].kind = "none"
    BY <1>1, <1>4, <2>2 DEF ResultAfter
  <2>4. ~(pc \in {"q4", "qstore"})
    <3>1. pc \in {"q4", "qstore"} => cur = e
      BY <1>1, <2>1 DEF HeadKnown, OnHead, HeadPCs, AtHead
    <3>2. pc \in {"q4", "qstore"} => result[cur].kind # "none"
      BY <1>1, <1>2 DEF HeadKnown, QuarantinePCs, ResultOK, ResultPCs
    <3> QED
      BY <2>3, <3>1, <3>2
  <2> QED
    BY <1>1, <2>1, <2>4, HeadStays
<1>5. CASE child[e][1] # "live"
  <2>1. pc = "spawn" /\ cur = e
    <3>1. ASSUME NEW k \in 1..MaxSpawns, NEW st \in {"wrote", "ok", "err"},
                 child'[e] = [child[e] EXCEPT ![k] = st]
          PROVE  FALSE
      BY <1>2, <1>5, <3>1
    <3>2. child'[e] # child[e]
      BY <1>5
    <3>3. (pc = "spawn" /\ cur = e) \/ \E k \in 1..MaxSpawns, st \in {"wrote", "ok", "err"} :
                                      Alive(child[e][k]) /\ child'[e] = [child[e] EXCEPT ![k] = st]
      BY <1>1, <3>2, ChildEffect, Zenon
    <3> QED
      BY <3>1, <3>3
  <2>2. AtHead(e)
    BY <1>1, <2>1 DEF HeadKnown, OnHead, HeadPCs
  <2> QED
    BY <1>1, <2>1, <2>2, HeadStays
<1> QED
  BY <1>4, <1>5

\* What was accepted is found by find_duplicate_execution.
LEMMA FoundStep ==
  ASSUME TraceInv, CleanInv, [Next]_vars, NEW e \in Exec PROVE FoundOK(e)'
<1>1. SpawnInv /\ FoundOK(e) /\ HeadKnown /\ HeldKnown /\ ReportKnown
  BY DEF TraceInv, PlaceOK, CleanInv
<1>2. hist[e].quarantined /\ hist[e].known => hist'[e].quarantined /\ hist'[e].known
  <2>1. pc = "q3" => known
    BY <1>1 DEF HeadKnown, QuarantinePCs
  <2>2. \/ hist'[e] = hist[e]
        \/ pc = "q3" /\ hist'[e] = [quarantined |-> TRUE, known |-> known]
    BY <1>1, HistEffect, Zenon
  <2> QED
    BY <2>1, <2>2
<1>3. ASSUME rep[e].st # "none" PROVE rep'[e].st # "none"
  <2>1. ~(pc = "q1" /\ cur = e)
    BY <1>1, <1>3 DEF HeadKnown, QuarantinePCs
  <2>2. \/ rep'[e] = rep[e] \/ rep'[e] = [st |-> "ok", dig |-> lres] \/ rep'[e].st = "bad"
    BY <1>1, <2>1, RepEffect, Zenon
  <2> QED
    BY <1>3, <2>2
<1>4. ASSUME InQueue(e, queue), ~InQueue(e, queue')
      PROVE  rep'[e].st # "none" \/ (hist'[e].quarantined /\ hist'[e].known)
  <2>1. pc \in {"q4", "qstore"} /\ cur = e
    BY <1>1, <1>4, QueueEffect
  <2>2. CASE pc = "q4"
    BY <1>1, <1>2, <2>1, <2>2 DEF HeldKnown, HeadKnown
  <2>3. CASE pc = "qstore"
    BY <1>1, <1>3, <2>1, <2>3 DEF ReportKnown
  <2> QED
    BY <2>1, <2>2, <2>3
<1>5. CASE e \in accepted
  BY <1>1, <1>2, <1>3, <1>4, <1>5 DEF FoundOK
<1>6. CASE e \notin accepted
  BY <1>1, <1>6, QueueEffect DEF FoundOK
<1> QED
  BY <1>5, <1>6

\* submit_local_plan is entered with SubmitPlan only.
LEMMA SubmitEffect == [Next]_vars => (pc' = "submit" => pc = "submit" /\ cur' = cur) \/ \E e \in Exec : SubmitPlan(e)
<1> DEFINE Goal == (pc' = "submit" => pc = "submit" /\ cur' = cur) \/ \E e \in Exec : SubmitPlan(e)
<1> SUFFICES ASSUME [Next]_vars PROVE Goal
  OBVIOUS
<1> USE DEF disk, os, daemon, books
<1>1. ASSUME SubmitQueue PROVE Goal
  BY <1>1 DEF SubmitQueue, Forget
<1>2. ASSUME TickBegin PROVE Goal
  BY <1>2 DEF TickBegin
<1>3. ASSUME ScanDone PROVE Goal
  BY <1>3 DEF ScanDone, Forget
<1>4. ASSUME InspectInactive PROVE Goal
  BY <1>4 DEF InspectInactive, Inspecting, ProcessGone, Goto
<1>5. ASSUME InspectActive PROVE Goal
  BY <1>5 DEF InspectActive, Inspecting, LeaveRunning, Forget
<1>6. ASSUME InspectExpired PROVE Goal
  BY <1>6 DEF InspectExpired, Inspecting, Goto
<1>7. ASSUME RecordKill PROVE Goal
  BY <1>7 DEF RecordKill, Goto, TickError, Forget
<1>8. ASSUME ForceKill PROVE Goal
  BY <1>8 DEF ForceKill, ProcessGone, Goto
<1>9. ASSUME WriteRecoveryResult PROVE Goal
  BY <1>9 DEF WriteRecoveryResult, Synth
<1>10. ASSUME EnsureLocalReport PROVE Goal
  BY <1>10 DEF EnsureLocalReport, Goto
<1>11. ASSUME PrepareEnvelope PROVE Goal
  BY <1>11 DEF PrepareEnvelope, Goto
<1>12. ASSUME PrepareState PROVE Goal
  BY <1>12 DEF PrepareState, Goto
<1>13. ASSUME RebuildEnvelope PROVE Goal
  BY <1>13 DEF RebuildEnvelope, Goto
<1>14. ASSUME RemoveRunning PROVE Goal
  BY <1>14 DEF RemoveRunning, Goto
<1>15. ASSUME QuarantineDropState PROVE Goal
  BY <1>15 DEF QuarantineDropState, Goto
<1>16. ASSUME QuarantineDropEnvelope PROVE Goal
  BY <1>16 DEF QuarantineDropEnvelope, Goto
<1>17. ASSUME QuarantineStoreHistory PROVE Goal
  BY <1>17 DEF QuarantineStoreHistory, Goto
<1>18. ASSUME QuarantineDequeue PROVE Goal
  BY <1>18 DEF QuarantineDequeue, Goto
<1>19. ASSUME QuarantineDropRunning PROVE Goal
  BY <1>19 DEF QuarantineDropRunning, Goto, Forget
<1>20. ASSUME DrainLoadQueue PROVE Goal
  BY <1>20 DEF DrainLoadQueue
<1>21. ASSUME HeadEmpty PROVE Goal
  BY <1>21 DEF HeadEmpty, Forget
<1>22. ASSUME HeadQuarantine PROVE Goal
  BY <1>22 DEF HeadQuarantine, Quarantine
<1>23. ASSUME HeadBegin PROVE Goal
  BY <1>23 DEF HeadBegin
<1>24. ASSUME ReconcileCompleted PROVE Goal
  BY <1>24 DEF ReconcileCompleted, Ready, Readable
<1>25. ASSUME ReconcileUnreadable PROVE Goal
  BY <1>25 DEF ReconcileUnreadable, TickError, Forget
<1>26. ASSUME DequeueCompleted PROVE Goal
  BY <1>26 DEF DequeueCompleted, Forget
<1>27. ASSUME Spawn PROVE Goal
  BY <1>27 DEF Spawn
<1>28. ASSUME StoreRunning PROVE Goal
  BY <1>28 DEF StoreRunning, Goto
<1>29. ASSUME ChildExited PROVE Goal
  BY <1>29 DEF ChildExited
<1>30. ASSUME WaitTimesOut PROVE Goal
  BY <1>30 DEF WaitTimesOut, Goto, Quarantine
<1>31. ASSUME GraceExpires PROVE Goal
  BY <1>31 DEF GraceExpires, Quarantine
<1>32. ASSUME CollectResult PROVE Goal
  BY <1>32 DEF CollectResult, CollectedResult, Synth
<1>33. ASSUME CollectQuarantine PROVE Goal
  BY <1>33 DEF CollectQuarantine, Quarantine
<1>34. ASSUME StoreFinished PROVE Goal
  BY <1>34 DEF StoreFinished, Goto
<1>35. ASSUME Restart PROVE Goal
  BY <1>35 DEF Restart, Forget
<1>36. ASSUME SubmitQueueFails PROVE Goal
  BY <1>36 DEF SubmitQueueFails, Fault, Forget
<1>37. ASSUME InspectUnavailable PROVE Goal
  BY <1>37 DEF InspectUnavailable, Inspecting, LeaveRunning, Forget
<1>38. ASSUME ForceKillUnconfirmed PROVE Goal
  BY <1>38 DEF ForceKillUnconfirmed, LeaveRunning, Forget
<1>39. ASSUME ReportFails PROVE Goal
  BY <1>39 DEF ReportFails, Quarantine, Forget
<1>40. ASSUME SpawnFails PROVE Goal
  BY <1>40 DEF SpawnFails, Quarantine
<1>41. ASSUME StoreRunningFails PROVE Goal
  BY <1>41 DEF StoreRunningFails, Quarantine
<1>42. ASSUME StoreFinishedFails PROVE Goal
  BY <1>42 DEF StoreFinishedFails, Quarantine
<1>43. ASSUME Crash PROVE Goal
  BY <1>43 DEF Crash, Forget
<1>44. ASSUME NEW e \in Exec, ScanQuarantine(e) PROVE Goal
  BY <1>44 DEF ScanQuarantine, Quarantine
<1>45. ASSUME NEW e \in Exec, ScanHasResult(e) PROVE Goal
  BY <1>45 DEF ScanHasResult, Readable
<1>46. ASSUME NEW e \in Exec, ScanNoResult(e) PROVE Goal
  BY <1>46 DEF ScanNoResult
<1>47. ASSUME NEW e \in Exec, SubmitPlan(e) PROVE Goal
  BY <1>47 DEF SubmitPlan
<1>48. ASSUME NEW e \in Exec, DeadlineElapses(e) PROVE Goal
  BY <1>48 DEF DeadlineElapses
<1>49. ASSUME NEW e \in Exec, Corrupt(e) PROVE Goal
  BY <1>49 DEF Corrupt, Readable, Synth
<1>50. ASSUME NEW e \in Exec, NEW k \in 1..MaxSpawns, ChildWrites(e, k) PROVE Goal
  BY <1>50 DEF ChildWrites
<1>51. ASSUME NEW e \in Exec, NEW k \in 1..MaxSpawns, ChildExits(e, k) PROVE Goal
  BY <1>51 DEF ChildExits
<1>52. ASSUME NEW e \in Exec, NEW k \in 1..MaxSpawns, ChildFails(e, k) PROVE Goal
  BY <1>52 DEF ChildFails
<1>53. CASE UNCHANGED vars
  BY <1>53 DEF vars
<1> QED
  BY <1>1, <1>2, <1>3, <1>4, <1>5, <1>6, <1>7, <1>8, <1>9, <1>10, <1>11, <1>12, <1>13, <1>14, <1>15, <1>16, <1>17, <1>18, <1>19, <1>20, <1>21, <1>22, <1>23, <1>24, <1>25, <1>26, <1>27, <1>28, <1>29, <1>30, <1>31, <1>32, <1>33, <1>34, <1>35, <1>36, <1>37, <1>38, <1>39, <1>40, <1>41, <1>42, <1>43, <1>44, <1>45, <1>46, <1>47, <1>48, <1>49, <1>50, <1>51, <1>52, <1>53
  DEF Next, DaemonStep, FaultStep, ChildStep, RecoverStep, ControlStep, ReportStep,
      QuarantineStep, DrainStep, ExecuteStep

\* The keys of the accepted executions stay distinct: a submission with the key of one that was
\* accepted before is a duplicate.
LEMMA KeysStep ==
  ASSUME TraceInv, CleanInv, [Next]_vars PROVE KeysOK'
<1>1. /\ SpawnInv /\ KeysOK /\ (\A f \in Exec : CleanOK(f) /\ FoundOK(f)) /\ accepted \subseteq Exec /\ DiskTypeOK
  BY DEF TraceInv, CleanInv, SpawnInv, TypeOK, BooksTypeOK
<1>2. CASE SubmitQueue
  BY <1>1, <1>2 DEF SubmitQueue, Forget, KeysOK
<1>3. ASSUME NEW e \in Exec, SubmitPlan(e) PROVE KeysOK'
  <2>1. ASSUME NEW f \in accepted PROVE Tracked(f)
    <3>1. InQueue(f, queue) \/ rep[f].st # "none" \/ (hist[f].quarantined /\ hist[f].known)
      BY <1>1, <2>1 DEF FoundOK
    <3>2. rep[f].st # "none" => rep[f].st = "ok"
      BY <1>1, <2>1 DEF CleanOK, DiskTypeOK, RepSet
    <3> QED
      BY <3>1, <3>2 DEF Tracked
  <2>2. \A f \in accepted : Key[f] # Key[e]
    BY <1>1, <1>3, <2>1 DEF SubmitPlan, Duplicate
  <2> QED
    BY <1>1, <1>3, <2>2 DEF SubmitPlan, KeysOK, books
<1>4. CASE ~SubmitQueue /\ ~(\E e \in Exec : SubmitPlan(e))
  <2>1. accepted' = accepted
    BY <1>4, Writers
  <2>2. pc' = "submit" => pc = "submit" /\ cur' = cur
    BY <1>4, SubmitEffect
  <2> QED
    BY <1>1, <2>1, <2>2 DEF KeysOK
<1> QED
  BY <1>2, <1>3, <1>4

\* The daemon works on the head of the queue, and quarantines only what has a result.
LEMMA HeadKnownStep == TraceInv /\ CleanInv /\ [Next]_vars /\ faults' = 0 => HeadKnown'
<1> DEFINE Goal == HeadKnown'
<1> SUFFICES ASSUME TraceInv, CleanInv, [Next]_vars, faults' = 0 PROVE Goal
  OBVIOUS
<1>0. /\ SpawnInv /\ CurOK /\ HeadKnown /\ ReportKnown /\ ProcessKnown /\ ResultOK /\ DiskTypeOK /\ LocalQueueOK
      /\ (\A e \in Exec : CleanOK(e)) /\ faults' # faults + 1
  BY FaultsGrow DEF TraceInv, PlaceOK, CleanInv, SpawnInv, TypeOK
<1> USE DEF HeadKnown, OnHead, HeadPCs, SharedPCs, QuarantinePCs, AtHead, Busy, PCs, CurOK, disk, os, daemon, books
<1>1. ASSUME SubmitQueue PROVE Goal
  BY <1>1, <1>0 DEF SubmitQueue, Forget
<1>2. ASSUME TickBegin PROVE Goal
  BY <1>2, <1>0 DEF TickBegin
<1>3. ASSUME ScanDone PROVE Goal
  BY <1>3, <1>0 DEF ScanDone, Forget
<1>4. ASSUME InspectInactive PROVE Goal
  BY <1>4, <1>0 DEF InspectInactive, Inspecting, ProcessGone, Goto, LocalQueueOK
<1>5. ASSUME InspectActive PROVE Goal
  BY <1>5, <1>0 DEF InspectActive, Inspecting, LeaveRunning, Forget
<1>6. ASSUME InspectExpired PROVE Goal
  BY <1>6, <1>0 DEF InspectExpired, Inspecting, Goto, LocalQueueOK
<1>7. ASSUME RecordKill PROVE Goal
  BY <1>7, <1>0 DEF RecordKill, Goto, TickError, Forget
<1>8. ASSUME ForceKill PROVE Goal
  BY <1>8, <1>0 DEF ForceKill, ProcessGone, Goto
<1>9. ASSUME WriteRecoveryResult PROVE Goal
  BY <1>9, <1>0 DEF WriteRecoveryResult, Synth
<1>10. ASSUME EnsureLocalReport PROVE Goal
  BY <1>10, <1>0 DEF EnsureLocalReport, Goto, CleanOK, DiskTypeOK, RepSet
<1>11. ASSUME PrepareEnvelope PROVE Goal
  BY <1>11, <1>0 DEF PrepareEnvelope, Goto
<1>12. ASSUME PrepareState PROVE Goal
  BY <1>12, <1>0 DEF PrepareState, Goto, DiskTypeOK
<1>13. ASSUME RebuildEnvelope PROVE Goal
  BY <1>13, <1>0 DEF RebuildEnvelope, Goto
<1>14. ASSUME RemoveRunning PROVE Goal
  BY <1>14, <1>0 DEF RemoveRunning, Goto
<1>15. ASSUME QuarantineDropState PROVE Goal
  BY <1>15, <1>0 DEF QuarantineDropState, Goto, DiskTypeOK, NoRep
<1>16. ASSUME QuarantineDropEnvelope PROVE Goal
  BY <1>16, <1>0 DEF QuarantineDropEnvelope, Goto
<1>17. ASSUME QuarantineStoreHistory PROVE Goal
  BY <1>17, <1>0 DEF QuarantineStoreHistory, Goto, DiskTypeOK
<1>18. ASSUME QuarantineDequeue PROVE Goal
  BY <1>18, <1>0 DEF QuarantineDequeue, Goto
<1>19. ASSUME QuarantineDropRunning PROVE Goal
  BY <1>19, <1>0 DEF QuarantineDropRunning, Goto, Forget
<1>20. ASSUME DrainLoadQueue PROVE Goal
  BY <1>20, <1>0 DEF DrainLoadQueue
<1>21. ASSUME HeadEmpty PROVE Goal
  BY <1>21, <1>0 DEF HeadEmpty, Forget
<1>22. ASSUME HeadQuarantine PROVE Goal
  <2>1. Head(lq) \in Exec /\ InQueue(Head(lq), queue)
    BY <1>22, <1>0, HeadQueued DEF HeadQuarantine
  <2>2. plan[Head(lq)] # "none"
    BY <2>1, Sighted
  <2> QED
    BY <1>22, <1>0, <2>1, <2>2 DEF HeadQuarantine, CleanOK, DiskTypeOK
<1>23. ASSUME HeadBegin PROVE Goal
  BY <1>23, <1>0, HeadQueued DEF HeadBegin
<1>24. ASSUME ReconcileCompleted PROVE Goal
  BY <1>24, <1>0 DEF ReconcileCompleted, Ready, Readable
<1>25. ASSUME ReconcileUnreadable PROVE Goal
  BY <1>25, <1>0 DEF ReconcileUnreadable, TickError, Forget
<1>26. ASSUME DequeueCompleted PROVE Goal
  BY <1>26, <1>0 DEF DequeueCompleted, Forget
<1>27. ASSUME Spawn PROVE Goal
  BY <1>27, <1>0 DEF Spawn
<1>28. ASSUME StoreRunning PROVE Goal
  BY <1>28, <1>0 DEF StoreRunning, Goto
<1>29. ASSUME ChildExited PROVE Goal
  BY <1>29, <1>0 DEF ChildExited
<1>30. ASSUME WaitTimesOut PROVE Goal
  BY <1>30, <1>0 DEF WaitTimesOut, Goto, Quarantine, CleanOK, ProcessKnown, DiskTypeOK, RunningSet
<1>31. ASSUME GraceExpires PROVE Goal
  BY <1>31, <1>0 DEF GraceExpires, Quarantine, CleanOK, ProcessKnown, DiskTypeOK, RunningSet
<1>32. ASSUME CollectResult PROVE Goal
  BY <1>32, <1>0 DEF CollectResult, CollectedResult, Synth
<1>33. ASSUME CollectQuarantine PROVE Goal
  BY <1>33, <1>0 DEF CollectQuarantine, Quarantine, CollectContradicts, ReportKnown
<1>34. ASSUME StoreFinished PROVE Goal
  BY <1>34, <1>0 DEF StoreFinished, Goto, ReportKnown
<1>35. ASSUME Restart PROVE Goal
  BY <1>35, <1>0 DEF Restart, Forget
<1>36. ASSUME SubmitQueueFails PROVE Goal
  BY <1>36, <1>0 DEF SubmitQueueFails, Fault, Forget
<1>37. ASSUME InspectUnavailable PROVE Goal
  BY <1>37, <1>0 DEF InspectUnavailable, Inspecting, LeaveRunning, Forget, Fault
<1>38. ASSUME ForceKillUnconfirmed PROVE Goal
  BY <1>38, <1>0 DEF ForceKillUnconfirmed, LeaveRunning, Forget, Fault
<1>39. ASSUME ReportFails PROVE Goal
  BY <1>39, <1>0 DEF ReportFails, Quarantine, Forget, Fault
<1>40. ASSUME SpawnFails PROVE Goal
  BY <1>40, <1>0 DEF SpawnFails, Quarantine, Fault
<1>41. ASSUME StoreRunningFails PROVE Goal
  BY <1>41, <1>0 DEF StoreRunningFails, Quarantine, Fault
<1>42. ASSUME StoreFinishedFails PROVE Goal
  BY <1>42, <1>0 DEF StoreFinishedFails, Quarantine, Fault
<1>43. ASSUME Crash PROVE Goal
  BY <1>43, <1>0 DEF Crash, Forget
<1>44. ASSUME NEW e \in Exec, ScanQuarantine(e) PROVE Goal
  <2>1. running[e].st # "none"
    BY <1>44 DEF ScanQuarantine
  <2>2. plan[e] # "none"
    BY <2>1, Sighted
  <2> QED
    BY <1>44, <1>0, <2>1, <2>2 DEF ScanQuarantine, CleanOK, DiskTypeOK
<1>45. ASSUME NEW e \in Exec, ScanHasResult(e) PROVE Goal
  BY <1>45, <1>0 DEF ScanHasResult, Readable
<1>46. ASSUME NEW e \in Exec, ScanNoResult(e) PROVE Goal
  BY <1>46, <1>0 DEF ScanNoResult
<1>47. ASSUME NEW e \in Exec, SubmitPlan(e) PROVE Goal
  BY <1>47, <1>0 DEF SubmitPlan
<1>48. ASSUME NEW e \in Exec, DeadlineElapses(e) PROVE Goal
  BY <1>48, <1>0 DEF DeadlineElapses
<1>49. ASSUME NEW e \in Exec, Corrupt(e) PROVE Goal
  BY <1>49, <1>0 DEF Corrupt, Readable, Synth, Fault
<1>50. ASSUME NEW e \in Exec, NEW k \in 1..MaxSpawns, ChildWrites(e, k) PROVE Goal
  BY <1>50, <1>0 DEF ChildWrites
<1>51. ASSUME NEW e \in Exec, NEW k \in 1..MaxSpawns, ChildExits(e, k) PROVE Goal
  BY <1>51, <1>0 DEF ChildExits
<1>52. ASSUME NEW e \in Exec, NEW k \in 1..MaxSpawns, ChildFails(e, k) PROVE Goal
  BY <1>52, <1>0 DEF ChildFails
<1>53. CASE UNCHANGED vars
  BY <1>53, <1>0 DEF vars
<1> QED
  BY <1>1, <1>2, <1>3, <1>4, <1>5, <1>6, <1>7, <1>8, <1>9, <1>10, <1>11, <1>12, <1>13, <1>14, <1>15, <1>16, <1>17, <1>18, <1>19, <1>20, <1>21, <1>22, <1>23, <1>24, <1>25, <1>26, <1>27, <1>28, <1>29, <1>30, <1>31, <1>32, <1>33, <1>34, <1>35, <1>36, <1>37, <1>38, <1>39, <1>40, <1>41, <1>42, <1>43, <1>44, <1>45, <1>46, <1>47, <1>48, <1>49, <1>50, <1>51, <1>52, <1>53
  DEF Next, DaemonStep, FaultStep, ChildStep, RecoverStep, ControlStep, ReportStep,
      QuarantineStep, DrainStep, ExecuteStep

\* Without faults of its files, the daemon starts and stays in the invariant.
LEMMA FaultlessSteps ==
  /\ Init => FaultlessInv
  /\ TraceInv /\ FaultlessInv /\ [Next]_vars => FaultlessInv'
<1>1. ASSUME Init PROVE FaultlessInv
  <2>1. ASSUME NEW e \in Exec PROVE CleanOK(e) /\ WorkerOK(e) /\ FoundOK(e)
    <3>1. child[e][1] = "none"
      BY <1>1, ExecutionAssumption DEF Init
    <3> QED
      BY <1>1, <3>1 DEF Init, CleanOK, WorkerOK, FoundOK, NoRunning, NoResult, NoRep, NoEnv
  <2>2. HeadKnown /\ KeysOK
    BY <1>1 DEF Init, HeadKnown, KeysOK, OnHead, HeadPCs, SharedPCs, QuarantinePCs
  <2> QED
    BY <2>1, <2>2 DEF FaultlessInv, CleanInv
<1>2. ASSUME TraceInv, FaultlessInv, [Next]_vars, faults' = 0 PROVE CleanInv'
  <2>1. CleanInv
    BY <1>2, FaultsGrow DEF TraceInv, FaultlessInv
  <2>2. ASSUME NEW e \in Exec PROVE CleanOK(e)' /\ WorkerOK(e)' /\ FoundOK(e)'
    BY <1>2, <2>1, CleanStep, WorkerStep, FoundStep DEF CleanInv
  <2>3. HeadKnown' /\ KeysOK'
    BY <1>2, <2>1, HeadKnownStep, KeysStep
  <2> QED
    BY <2>2, <2>3 DEF CleanInv
<1> QED
  BY <1>1, <1>2 DEF FaultlessInv

\* Of the processes that have their record at most one works.
LEMMA OneRecordedWorker ==
  ASSUME TraceInv, CleanInv, NEW p \in Working, NEW q \in Working, unrec[p[1]] = 0, unrec[q[1]] = 0
  PROVE  p = q
<1>1. ASSUME NEW w \in Working, unrec[w[1]] = 0 PROVE w = <<queue[1], 1>>
  <2>1. /\ w[1] \in Exec /\ w[2] \in 1..MaxSpawns /\ child[w[1]][w[2]] = "live" /\ w = <<w[1], w[2]>>
    BY DEF Working
  <2>2. /\ spawns[w[1]] \in 0..MaxSpawns /\ spawns[w[1]] <= unrec[w[1]] + 1
        /\ ProcessesOK(w[1]) /\ WorkerOK(w[1])
    BY <2>1 DEF TraceInv, TraceOK, CleanInv, SpawnInv, TypeOK, OsTypeOK, CountOK
  <2>3. w[2] <= spawns[w[1]]
    BY <2>1, <2>2 DEF ProcessesOK
  <2>4. w[2] = 1
    BY <1>1, <2>1, <2>2, <2>3
  <2>5. w[1] = queue[1]
    BY <1>1, <2>1, <2>2, <2>4 DEF WorkerOK, AtHead
  <2> QED
    BY <2>1, <2>4, <2>5
<1> QED
  BY <1>1

\* For any number of executions and crashes, while no file fails: at most one process works,
\* besides those a crash orphaned before their record was stored, and of the executions of one
\* plan at most one is ever spawned (drain_next, find_duplicate_execution).
THEOREM OneRunnerHolds ==
  ASSUME MaxFaults = 0, IsFiniteSet(Exec) PROVE Spec => []OneRunner
<1>1. ASSUME TraceInv, FaultlessInv PROVE OneRunner
  <2>1. CleanInv
    <3>1. faults \in 0..0
      BY <1>1 DEF TraceInv, SpawnInv, TypeOK, BooksTypeOK
    <3> QED
      BY <1>1, <3>1 DEF FaultlessInv
  <2>2. OneWorker
    <3> DEFINE O == {p \in Working : unrec[p[1]] > 0}
    <3>1. IsFiniteSet(Working) /\ IsFiniteSet(O)
      <4>1. IsFiniteSet(1..MaxSpawns)
        BY FS_Interval, ExecutionAssumption
      <4>2. IsFiniteSet(Exec \X (1..MaxSpawns))
        BY <4>1, FS_Product
      <4>3. Working \subseteq Exec \X (1..MaxSpawns) /\ O \subseteq Exec \X (1..MaxSpawns)
        BY DEF Working
      <4> QED
        BY <4>2, <4>3, FS_Subset
    <3>2. Cardinality(O) \in Nat
      BY <3>1, FS_CardinalityType
    <3>3. \A p \in Working : unrec[p[1]] \in Nat
      BY <1>1 DEF Working, TraceInv, SpawnInv, TypeOK, BooksTypeOK
    <3>4. CASE O = Working
      <4>1. Cardinality(Working) = Cardinality(O)
        BY <3>4, Zenon
      <4>2. Cardinality(Working) <= 1 + Cardinality(O)
        BY <3>2, <4>1
      <4> QED
        BY <4>2 DEF OneWorker
    <3>5. CASE O # Working
      <4>1. PICK p \in Working : p \notin O
        BY <3>5
      <4>2. unrec[p[1]] = 0
        BY <3>3, <4>1
      <4>3. \A q \in Working : q \notin O => q = p
        BY <1>1, <2>1, <3>3, <4>2, OneRecordedWorker
      <4>4. Working = O \cup {p}
        BY <4>1, <4>3
      <4>5. Cardinality(Working) = Cardinality(O) + 1
        BY <3>1, <4>1, <4>4, FS_AddElement
      <4>6. Cardinality(Working) <= 1 + Cardinality(O)
        BY <3>2, <4>5
      <4> QED
        BY <4>6 DEF OneWorker
    <3> QED
      BY <3>4, <3>5
  <2>3. DuplicateNeverRuns
    <3> SUFFICES ASSUME NEW e \in Exec, NEW f \in Exec, e # f, Key[e] = Key[f], spawns[e] # 0, spawns[f] # 0
                 PROVE  FALSE
      BY DEF DuplicateNeverRuns
    <3>1. e \in accepted /\ f \in accepted
      BY <1>1 DEF TraceInv, TraceOK, AcceptedOK
    <3> QED
      BY <2>1, <3>1 DEF CleanInv, KeysOK
  <2> QED
    BY <2>2, <2>3 DEF OneRunner
<1> QED
  BY <1>1, InitTraceInv, StepTraceInv, FaultlessSteps, PTL DEF Spec

-----------------------------------------------------------------------------
(* The files implement ExecutionLifecycle. *)

\* The outcome of an execution as the refinement mapping reads it off the files.
OutcomeOf(e) == IF PhaseOf(e) = "reported" THEN rep[e].dig ELSE NoResult
SettledResults == {r \in ResultSet : Readable(r)}

\* What a step does to the phase of one execution.
Keeps(e) == PhaseOf(e)' = PhaseOf(e) /\ OutcomeOf(e)' = OutcomeOf(e)
Moves(e) ==
    \/ PhaseOf(e) = "unknown" /\ PhaseOf(e)' = "queued" /\ OutcomeOf(e)' = OutcomeOf(e)
    \/ PhaseOf(e) = "queued" /\ PhaseOf(e)' = "started" /\ OutcomeOf(e)' = OutcomeOf(e)
    \/ PhaseOf(e) = "started" /\ PhaseOf(e)' = "reported" /\ OutcomeOf(e)' \in SettledResults
    \/ PhaseOf(e) \in {"queued", "started"} /\ PhaseOf(e)' = "quarantined" /\ OutcomeOf(e)' = OutcomeOf(e)

\* Only the execution at hand moves, along the lifecycle.
LEMMA PhaseStep ==
  ASSUME TraceInv, CleanInv, [Next]_vars, faults' = 0, NEW e \in Exec
  PROVE  Keeps(e) \/ (e = cur /\ Moves(e))
<1>1. /\ SpawnInv /\ faults' # faults + 1 /\ DiskTypeOK /\ LocalQueueOK /\ QueueOK
      /\ HeldKnown /\ HeadKnown /\ LoadedKnown /\ ReportKnown /\ AcceptedKnown /\ AcceptedOK(e)
  BY FaultsGrow DEF TraceInv, TraceOK, PlaceOK, CleanInv, SpawnInv, TypeOK
<1>2. spawns[e] \in Nat /\ hist[e].quarantined \in BOOLEAN /\ lres \in ResultSet
  BY <1>1 DEF SpawnInv, TypeOK, OsTypeOK, DaemonTypeOK, DiskTypeOK, HistSet
<1> USE DEF Keeps, Moves, PhaseOf, OutcomeOf
<1>3. CASE pc = "q3" /\ cur = e /\ hist'[e] # hist[e]
  <2>1. hist'[e].quarantined = TRUE
    BY <1>1, <1>3, HistEffect
  <2>2. rep[e].st = "none" /\ (InQueue(e, queue) \/ hist[e].quarantined)
    BY <1>1, <1>3 DEF ReportKnown, HeldKnown
  <2> QED
    BY <1>2, <1>3, <2>1, <2>2
<1>4. CASE pc = "prepState" /\ cur = e /\ rep'[e] = [st |-> "ok", dig |-> lres]
  <2>1. hist'[e] = hist[e]
    BY <1>1, <1>4, HistEffect
  <2>2. rep[e].st = "none" /\ spawns[e] >= 1 /\ Readable(lres)
    BY <1>1, <1>4 DEF HeadKnown, LoadedKnown, LoadedPCs
  <2>3. lres \in SettledResults
    BY <1>2, <2>2 DEF SettledResults
  <2> QED
    BY <1>2, <1>4, <2>1, <2>2, <2>3
<1>5. CASE pc = "spawn" /\ cur = e
  <2>1. hist'[e] = hist[e] /\ rep'[e] = rep[e] /\ queue' = queue
    BY <1>1, <1>5, HistEffect, RepEffect, QueueEffect
  <2>2. rep[e].st = "none" /\ InQueue(e, queue)
    BY <1>1, <1>5 DEF ReportKnown, LocalQueueOK, OnHead, HeadPCs
  <2>3. spawns'[e] \in {spawns[e], spawns[e] + 1}
    BY <1>1, ChildEffect
  <2> QED
    BY <1>2, <1>5, <2>1, <2>2, <2>3
<1>6. CASE pc = "submit"
  <2>1. hist'[e] = hist[e] /\ rep'[e] = rep[e] /\ spawns'[e] = spawns[e]
    BY <1>1, <1>6, HistEffect, RepEffect, ChildEffect
  <2>2. CASE cur = e
    <3>1. spawns[e] = 0 /\ rep[e].st = "none" /\ ~hist[e].quarantined /\ ~InQueue(e, queue)
      BY <1>1, <1>6, <2>2 DEF AcceptedKnown, AcceptedOK
    <3> QED
      BY <2>1, <2>2, <3>1
  <2>3. CASE cur # e
    <3>1. InQueue(e, queue') <=> InQueue(e, queue)
      BY <1>1, <1>6, <2>3, QueueEffect
    <3> QED
      BY <2>1, <3>1
  <2> QED
    BY <2>2, <2>3
<1>7. CASE pc \in {"q4", "qstore"}
  <2>1. hist'[e] = hist[e] /\ rep'[e] = rep[e] /\ spawns'[e] = spawns[e]
    BY <1>1, <1>7, HistEffect, RepEffect, ChildEffect
  <2>2. CASE cur = e
    <3>1. hist[e].quarantined \/ rep[e].st # "none"
      BY <1>1, <1>7, <2>2 DEF HeldKnown, ReportKnown
    <3> QED
      BY <1>2, <2>1, <3>1
  <2>3. CASE cur # e
    <3>1. InQueue(e, queue') <=> InQueue(e, queue)
      BY <1>1, <1>7, <2>3, QueueEffect
    <3> QED
      BY <2>1, <3>1
  <2> QED
    BY <2>2, <2>3
<1>8. CASE hist'[e] = hist[e] /\ spawns'[e] = spawns[e] /\ queue' = queue
           /\ (rep'[e] = rep[e] \/ (rep[e].st = "none" /\ rep'[e].st = "none"))
  BY <1>2, <1>8
<1>9. \/ rep'[e] = rep[e]
      \/ pc = "prepState" /\ cur = e /\ rep'[e] = [st |-> "ok", dig |-> lres]
      \/ rep[e].st = "none" /\ rep'[e].st = "none"
  <2>1. pc = "q1" /\ cur = e => rep[e].st = "none"
    BY <1>1 DEF HeadKnown, QuarantinePCs
  <2>2. \/ rep'[e] = rep[e]
        \/ pc = "prepState" /\ cur = e /\ rep'[e] = [st |-> "ok", dig |-> lres]
        \/ pc = "q1" /\ cur = e /\ rep'[e] = NoRep
    BY <1>1, RepEffect, Zenon
  <2> QED
    BY <2>1, <2>2 DEF NoRep
<1>10. hist'[e] = hist[e] \/ (pc = "q3" /\ cur = e)
  BY <1>1, HistEffect
<1>11. spawns'[e] = spawns[e] \/ (pc = "spawn" /\ cur = e)
  BY <1>1, ChildEffect
<1>12. queue' = queue \/ pc \in {"submit", "q4", "qstore"}
  BY <1>1, QueueEffect
<1> HIDE DEF Keeps, Moves
<1> QED
  BY <1>3, <1>4, <1>5, <1>6, <1>7, <1>8, <1>9, <1>10, <1>11, <1>12

\* Every step is a step of the lifecycle, or leaves its phases and outcomes alone.
LEMMA LifecycleStep ==
  ASSUME TraceInv, CleanInv, [Next]_vars, faults' = 0
  PROVE  [Lifecycle!LifecycleNext]_(Lifecycle!lifecycleVars)
<1> DEFINE ph == [e \in Exec |-> PhaseOf(e)]
           oc == [e \in Exec |-> OutcomeOf(e)]
           ph1 == [e \in Exec |-> PhaseOf(e)']
           oc1 == [e \in Exec |-> OutcomeOf(e)']
<1>1. ASSUME NEW e \in Exec PROVE Keeps(e) \/ (e = cur /\ Moves(e))
  BY PhaseStep
<1>2. CASE \A e \in Exec : Keeps(e)
  <2>1. ph1 = ph /\ oc1 = oc
    BY <1>2 DEF Keeps
  <2> QED
    BY <2>1 DEF Lifecycle!lifecycleVars, OutcomeOf
<1>3. ASSUME NEW e \in Exec, ~Keeps(e) PROVE Lifecycle!LifecycleNext
  <2>1. e = cur /\ Moves(e) /\ \A f \in Exec : f # e => Keeps(f)
    BY <1>1, <1>3
  <2>2. ph1 = [ph EXCEPT ![e] = PhaseOf(e)'] /\ oc1 = [oc EXCEPT ![e] = OutcomeOf(e)']
    BY <2>1 DEF Keeps
  <2>3. OutcomeOf(e)' = OutcomeOf(e) => oc1 = oc
    BY <2>2
  <2>4. Lifecycle!Accept(e) \/ Lifecycle!Start(e) \/ Lifecycle!Report(e) \/ Lifecycle!Quarantined(e)
    BY <2>1, <2>2, <2>3
    DEF Moves, SettledResults, OutcomeOf, Lifecycle!Accept, Lifecycle!Start, Lifecycle!Report, Lifecycle!Quarantined
  <2> QED
    BY <2>4 DEF Lifecycle!LifecycleNext
<1> QED
  BY <1>2, <1>3

\* The files of a first start map to the first state of the lifecycle.
LEMMA LifecycleStart == Init => Lifecycle!LifecycleInit
<1> SUFFICES ASSUME Init PROVE Lifecycle!LifecycleInit
  OBVIOUS
<1>1. ASSUME NEW e \in Exec PROVE PhaseOf(e) = "unknown"
  <2>1. ~InQueue(e, queue)
    BY DEF Init, InQueue
  <2> QED
    BY <2>1 DEF Init, PhaseOf, NoHist, NoRep
<1> QED
  BY <1>1 DEF Lifecycle!LifecycleInit

\* For any number of executions and crashes, while no file fails: the queue, the reporting state,
\* the quarantine record and the processes go through the lifecycle ExecutionLifecycle promises;
\* an execution is settled once and its outcome stays.
THEOREM ImplementsLifecycleHolds ==
  ASSUME MaxFaults = 0 PROVE Spec => ImplementsLifecycle
<1>1. ASSUME TraceInv, FaultlessInv, TraceInv', [Next]_vars
      PROVE  [Lifecycle!LifecycleNext]_(Lifecycle!lifecycleVars)
  <2>1. faults \in 0..0 /\ faults' \in 0..0
    BY <1>1 DEF TraceInv, SpawnInv, TypeOK, BooksTypeOK
  <2> QED
    BY <1>1, <2>1, LifecycleStep DEF FaultlessInv
<1> QED
  BY <1>1, InitTraceInv, StepTraceInv, FaultlessSteps, LifecycleStart, PTL
  DEF Spec, ImplementsLifecycle, Lifecycle!LifecycleSpec

-----------------------------------------------------------------------------
(* A daemon that has not crashed: whatever its files suffer, what it works on it started itself. *)

QueuePCs == {"submit", "reconcile", "spawn", "store", "wait", "grace", "collect", "finish", "prepEnv", "prepState",
             "reported", "qstore"} \cup QuarantinePCs
StartedPCs == QueuePCs \ {"submit", "reconcile", "spawn", "q5"}

\* Recovery finds nothing, and the queue head was never spawned.
CalmPlace ==
    /\ pc \in QueuePCs \cup {"idle", "scan", "drain", "head"}
    /\ todo = {}
    /\ pc \in {"store", "wait", "grace", "collect", "finish", "prepEnv", "prepState", "reported"} => ctx = "exec"
    /\ pc \in {"reconcile", "spawn"} => spawns[cur] = 0

RecordCalm(e) == running[e].st # "none" => cur = e /\ pc \in (StartedPCs \ {"store", "qstore"}) \cup {"q5"}
QueueCalm(e) == InQueue(e, queue) => spawns[e] = 0 \/ (cur = e /\ pc \in StartedPCs)
HistCalm(e) == InQueue(e, queue) /\ hist[e].quarantined => pc = "q4" /\ cur = e
NoneCalm(e) == result[e].kind = "none" => result[e].by = 0

CalmOK(e) == RecordCalm(e) /\ QueueCalm(e) /\ HistCalm(e) /\ NoneCalm(e)
CalmInv == CalmPlace /\ \A e \in Exec : CalmOK(e)
UncrashedInv == crashes = 0 => CalmInv

\* Crashes are only added.
LEMMA CrashesGrow ==
  ASSUME SpawnInv, [Next]_vars, crashes' = 0 PROVE crashes = 0 /\ ~Crash
<1>1. crashes \in Nat
  BY ExecutionAssumption DEF SpawnInv, TypeOK, BooksTypeOK
<1> QED
  BY <1>1, Writers DEF Crash

\* A result that is not there was written by nobody.
LEMMA NoneCalmStep ==
  ASSUME TraceInv, [Next]_vars, NEW e \in Exec, NoneCalm(e) PROVE NoneCalm(e)'
<1>1. SpawnInv /\ DaemonTypeOK /\ ResultOK
  BY DEF TraceInv, SpawnInv, TypeOK
<1>2. CASE pc = "collect" /\ cur = e /\ result'[e] = CollectedResult(result[e], cls)
  <2>1. cls \in {"completed", "completed_late", "timed_out"}
    BY <1>1, <1>2 DEF DaemonTypeOK, ResultOK
  <2> QED
    BY <1>2, <2>1 DEF CollectedResult, Synth, NoneCalm
<1>3. CASE result'[e] = Synth("recovered") \/ result'[e] = Synth("bad")
  BY <1>3 DEF Synth, NoneCalm
<1>4. CASE \E k \in 1..MaxSpawns, kind \in {"succeeded", "rejected"} :
             child[e][k] = "live" /\ child'[e] = [child[e] EXCEPT ![k] = "wrote"] /\ result'[e] = [kind |-> kind, by |-> k]
  BY <1>4 DEF NoneCalm
<1>5. CASE result'[e] = result[e]
  BY <1>5 DEF NoneCalm
<1> QED
  BY <1>1, <1>2, <1>3, <1>4, <1>5, ResultEffect, Zenon

\* Without a crash the recovery scan finds nothing, and no tick fails.
LEMMA CalmPlaceStep == TraceInv /\ CalmInv /\ [Next]_vars /\ crashes' = 0 => CalmPlace'
<1> DEFINE Goal == CalmPlace'
<1> SUFFICES ASSUME TraceInv, CalmInv, [Next]_vars, crashes' = 0 PROVE Goal
  OBVIOUS
<1>0. /\ SpawnInv /\ CurOK /\ QueueOK /\ LocalQueueOK /\ ResultOK /\ DiskTypeOK /\ OsTypeOK /\ DaemonTypeOK /\ HeldKnown /\ ~Crash /\ CalmPlace
      /\ (\A f \in Exec : RecordCalm(f) /\ QueueCalm(f) /\ HistCalm(f) /\ ResultAfter(f))
  BY CrashesGrow DEF TraceInv, TraceOK, PlaceOK, SpawnInv, TypeOK, CalmInv, CalmOK
<1> USE DEF CalmPlace, QueuePCs, StartedPCs, QuarantinePCs, Busy, PCs, CurOK, disk, os, daemon, books
<1>1. ASSUME SubmitQueue PROVE Goal
  BY <1>1, <1>0 DEF SubmitQueue, Forget
<1>2. ASSUME TickBegin PROVE Goal
  BY <1>2, <1>0 DEF TickBegin, RecordCalm
<1>3. ASSUME ScanDone PROVE Goal
  BY <1>3, <1>0 DEF ScanDone, Forget
<1>4. ASSUME InspectInactive PROVE Goal
  BY <1>4, <1>0 DEF InspectInactive, Inspecting, ProcessGone, Goto
<1>5. ASSUME InspectActive PROVE Goal
  BY <1>5, <1>0 DEF InspectActive, Inspecting, LeaveRunning, Forget
<1>6. ASSUME InspectExpired PROVE Goal
  BY <1>6, <1>0 DEF InspectExpired, Inspecting, Goto
<1>7. ASSUME RecordKill PROVE Goal
  BY <1>7, <1>0 DEF RecordKill, Goto, TickError, Forget
<1>8. ASSUME ForceKill PROVE Goal
  BY <1>8, <1>0 DEF ForceKill, ProcessGone, Goto
<1>9. ASSUME WriteRecoveryResult PROVE Goal
  BY <1>9, <1>0 DEF WriteRecoveryResult, Synth
<1>10. ASSUME EnsureLocalReport PROVE Goal
  BY <1>10, <1>0 DEF EnsureLocalReport, Goto
<1>11. ASSUME PrepareEnvelope PROVE Goal
  BY <1>11, <1>0 DEF PrepareEnvelope, Goto
<1>12. ASSUME PrepareState PROVE Goal
  BY <1>12, <1>0 DEF PrepareState, Goto
<1>13. ASSUME RebuildEnvelope PROVE Goal
  BY <1>13, <1>0 DEF RebuildEnvelope, Goto
<1>14. ASSUME RemoveRunning PROVE Goal
  BY <1>14, <1>0 DEF RemoveRunning, Goto
<1>15. ASSUME QuarantineDropState PROVE Goal
  BY <1>15, <1>0 DEF QuarantineDropState, Goto
<1>16. ASSUME QuarantineDropEnvelope PROVE Goal
  BY <1>16, <1>0 DEF QuarantineDropEnvelope, Goto
<1>17. ASSUME QuarantineStoreHistory PROVE Goal
  BY <1>17, <1>0 DEF QuarantineStoreHistory, Goto
<1>18. ASSUME QuarantineDequeue PROVE Goal
  BY <1>18, <1>0 DEF QuarantineDequeue, Goto
<1>19. ASSUME QuarantineDropRunning PROVE Goal
  BY <1>19, <1>0 DEF QuarantineDropRunning, Goto, Forget
<1>20. ASSUME DrainLoadQueue PROVE Goal
  BY <1>20, <1>0 DEF DrainLoadQueue
<1>21. ASSUME HeadEmpty PROVE Goal
  BY <1>21, <1>0 DEF HeadEmpty, Forget
<1>22. ASSUME HeadQuarantine PROVE Goal
  BY <1>22, <1>0, HeadQueued DEF HeadQuarantine, Quarantine
<1>23. ASSUME HeadBegin PROVE Goal
  <2>1. Head(lq) \in Exec /\ InQueue(Head(lq), queue)
    BY <1>23, <1>0, HeadQueued DEF HeadBegin
  <2>2. spawns[Head(lq)] = 0 /\ running[Head(lq)].st = "none"
    BY <1>23, <1>0, <2>1 DEF HeadBegin, RecordCalm, QueueCalm
  <2> QED
    BY <1>23, <1>0, <2>1, <2>2 DEF HeadBegin
<1>24. ASSUME ReconcileCompleted PROVE Goal
  <2>1. cur \in Exec /\ spawns[cur] = 0
    BY <1>24, <1>0 DEF ReconcileCompleted
  <2>2. result[cur].kind = "none" /\ running[cur].st = "none"
    BY <1>24, <1>0, <2>1 DEF ReconcileCompleted, ResultAfter, RecordCalm
  <2>3. ~Ready(cur) /\ ~Readable(result[cur])
    BY <1>0, <2>1, <2>2 DEF ResultOK, Ready, Readable
  <2>4. pc' = "spawn" /\ UNCHANGED <<cur, todo, spawns>>
    BY <1>24, <2>2, <2>3 DEF ReconcileCompleted
  <2> QED
    BY <1>0, <2>1, <2>4
<1>25. ASSUME ReconcileUnreadable PROVE Goal
  <2>1. cur \in Exec /\ spawns[cur] = 0
    BY <1>25, <1>0 DEF ReconcileUnreadable
  <2> QED
    BY <1>25, <1>0, <2>1 DEF ReconcileUnreadable, ResultAfter
<1>26. ASSUME DequeueCompleted PROVE Goal
  BY <1>26, <1>0 DEF DequeueCompleted, Forget
<1>27. ASSUME Spawn PROVE Goal
  BY <1>27, <1>0 DEF Spawn
<1>28. ASSUME StoreRunning PROVE Goal
  BY <1>28, <1>0 DEF StoreRunning, Goto
<1>29. ASSUME ChildExited PROVE Goal
  BY <1>29, <1>0 DEF ChildExited
<1>30. ASSUME WaitTimesOut PROVE Goal
  BY <1>30, <1>0 DEF WaitTimesOut, Goto, Quarantine
<1>31. ASSUME GraceExpires PROVE Goal
  BY <1>31, <1>0 DEF GraceExpires, Quarantine
<1>32. ASSUME CollectResult PROVE Goal
  BY <1>32, <1>0 DEF CollectResult, CollectedResult, Synth
<1>33. ASSUME CollectQuarantine PROVE Goal
  BY <1>33, <1>0 DEF CollectQuarantine, Quarantine
<1>34. ASSUME StoreFinished PROVE Goal
  BY <1>34, <1>0 DEF StoreFinished, Goto
<1>35. ASSUME Restart PROVE Goal
  BY <1>35, <1>0 DEF Restart, Forget
<1>36. ASSUME SubmitQueueFails PROVE Goal
  BY <1>36, <1>0 DEF SubmitQueueFails, Fault, Forget
<1>37. ASSUME InspectUnavailable PROVE Goal
  BY <1>37, <1>0 DEF InspectUnavailable, Inspecting, LeaveRunning, Forget
<1>38. ASSUME ForceKillUnconfirmed PROVE Goal
  BY <1>38, <1>0 DEF ForceKillUnconfirmed, LeaveRunning, Forget
<1>39. ASSUME ReportFails PROVE Goal
  BY <1>39, <1>0 DEF ReportFails, Quarantine, Forget
<1>40. ASSUME SpawnFails PROVE Goal
  BY <1>40, <1>0 DEF SpawnFails, Quarantine
<1>41. ASSUME StoreRunningFails PROVE Goal
  BY <1>41, <1>0 DEF StoreRunningFails, Quarantine
<1>42. ASSUME StoreFinishedFails PROVE Goal
  BY <1>42, <1>0 DEF StoreFinishedFails, Quarantine
<1>43. ASSUME Crash PROVE Goal
  BY <1>43, <1>0 DEF Crash, Forget
<1>44. ASSUME NEW e \in Exec, ScanQuarantine(e) PROVE Goal
  BY <1>44, <1>0 DEF ScanQuarantine, Quarantine
<1>45. ASSUME NEW e \in Exec, ScanHasResult(e) PROVE Goal
  BY <1>45, <1>0 DEF ScanHasResult, Readable
<1>46. ASSUME NEW e \in Exec, ScanNoResult(e) PROVE Goal
  BY <1>46, <1>0 DEF ScanNoResult
<1>47. ASSUME NEW e \in Exec, SubmitPlan(e) PROVE Goal
  BY <1>47, <1>0 DEF SubmitPlan
<1>48. ASSUME NEW e \in Exec, DeadlineElapses(e) PROVE Goal
  BY <1>48, <1>0 DEF DeadlineElapses
<1>49. ASSUME NEW e \in Exec, Corrupt(e) PROVE Goal
  BY <1>49, <1>0 DEF Corrupt, Readable, Synth
<1>50. ASSUME NEW e \in Exec, NEW k \in 1..MaxSpawns, ChildWrites(e, k) PROVE Goal
  BY <1>50, <1>0 DEF ChildWrites
<1>51. ASSUME NEW e \in Exec, NEW k \in 1..MaxSpawns, ChildExits(e, k) PROVE Goal
  BY <1>51, <1>0 DEF ChildExits
<1>52. ASSUME NEW e \in Exec, NEW k \in 1..MaxSpawns, ChildFails(e, k) PROVE Goal
  BY <1>52, <1>0 DEF ChildFails
<1>53. CASE UNCHANGED vars
  BY <1>53, <1>0 DEF vars
<1> QED
  BY <1>1, <1>2, <1>3, <1>4, <1>5, <1>6, <1>7, <1>8, <1>9, <1>10, <1>11, <1>12, <1>13, <1>14, <1>15, <1>16, <1>17, <1>18, <1>19, <1>20, <1>21, <1>22, <1>23, <1>24, <1>25, <1>26, <1>27, <1>28, <1>29, <1>30, <1>31, <1>32, <1>33, <1>34, <1>35, <1>36, <1>37, <1>38, <1>39, <1>40, <1>41, <1>42, <1>43, <1>44, <1>45, <1>46, <1>47, <1>48, <1>49, <1>50, <1>51, <1>52, <1>53
  DEF Next, DaemonStep, FaultStep, ChildStep, RecoverStep, ControlStep, ReportStep,
      QuarantineStep, DrainStep, ExecuteStep

\* Without a crash only the execution at hand has a running record.
LEMMA RecordCalmStep == TraceInv /\ CalmInv /\ [Next]_vars /\ crashes' = 0 => \A x \in Exec : RecordCalm(x)'
<1> SUFFICES ASSUME TraceInv, CalmInv, [Next]_vars, crashes' = 0, NEW x \in Exec PROVE RecordCalm(x)'
  OBVIOUS
<1> DEFINE Goal == RecordCalm(x)'
<1>0. /\ SpawnInv /\ CurOK /\ QueueOK /\ LocalQueueOK /\ ResultOK /\ DiskTypeOK /\ OsTypeOK /\ DaemonTypeOK /\ HeldKnown /\ ~Crash /\ CalmPlace
      /\ (\A f \in Exec : RecordCalm(f) /\ QueueCalm(f) /\ HistCalm(f) /\ ResultAfter(f))
  BY CrashesGrow DEF TraceInv, TraceOK, PlaceOK, SpawnInv, TypeOK, CalmInv, CalmOK
<1> USE DEF RecordCalm, CalmPlace, QueuePCs, StartedPCs, QuarantinePCs, Busy, PCs, CurOK, disk, os, daemon, books
<1>1. ASSUME SubmitQueue PROVE Goal
  BY <1>1, <1>0 DEF SubmitQueue, Forget
<1>2. ASSUME TickBegin PROVE Goal
  BY <1>2, <1>0 DEF TickBegin
<1>3. ASSUME ScanDone PROVE Goal
  BY <1>3, <1>0 DEF ScanDone, Forget
<1>4. ASSUME InspectInactive PROVE Goal
  BY <1>4, <1>0 DEF InspectInactive, Inspecting, ProcessGone, Goto
<1>5. ASSUME InspectActive PROVE Goal
  BY <1>5, <1>0 DEF InspectActive, Inspecting, LeaveRunning, Forget
<1>6. ASSUME InspectExpired PROVE Goal
  BY <1>6, <1>0 DEF InspectExpired, Inspecting, Goto
<1>7. ASSUME RecordKill PROVE Goal
  BY <1>7, <1>0 DEF RecordKill, Goto, TickError, Forget
<1>8. ASSUME ForceKill PROVE Goal
  BY <1>8, <1>0 DEF ForceKill, ProcessGone, Goto
<1>9. ASSUME WriteRecoveryResult PROVE Goal
  BY <1>9, <1>0 DEF WriteRecoveryResult, Synth
<1>10. ASSUME EnsureLocalReport PROVE Goal
  BY <1>10, <1>0 DEF EnsureLocalReport, Goto
<1>11. ASSUME PrepareEnvelope PROVE Goal
  BY <1>11, <1>0 DEF PrepareEnvelope, Goto
<1>12. ASSUME PrepareState PROVE Goal
  BY <1>12, <1>0 DEF PrepareState, Goto
<1>13. ASSUME RebuildEnvelope PROVE Goal
  BY <1>13, <1>0 DEF RebuildEnvelope, Goto
<1>14. ASSUME RemoveRunning PROVE Goal
  BY <1>14, <1>0 DEF RemoveRunning, Goto, DiskTypeOK, NoRunning
<1>15. ASSUME QuarantineDropState PROVE Goal
  BY <1>15, <1>0 DEF QuarantineDropState, Goto
<1>16. ASSUME QuarantineDropEnvelope PROVE Goal
  BY <1>16, <1>0 DEF QuarantineDropEnvelope, Goto
<1>17. ASSUME QuarantineStoreHistory PROVE Goal
  BY <1>17, <1>0 DEF QuarantineStoreHistory, Goto
<1>18. ASSUME QuarantineDequeue PROVE Goal
  BY <1>18, <1>0 DEF QuarantineDequeue, Goto
<1>19. ASSUME QuarantineDropRunning PROVE Goal
  BY <1>19, <1>0 DEF QuarantineDropRunning, Goto, Forget, DiskTypeOK, NoRunning
<1>20. ASSUME DrainLoadQueue PROVE Goal
  BY <1>20, <1>0 DEF DrainLoadQueue
<1>21. ASSUME HeadEmpty PROVE Goal
  BY <1>21, <1>0 DEF HeadEmpty, Forget
<1>22. ASSUME HeadQuarantine PROVE Goal
  BY <1>22, <1>0 DEF HeadQuarantine, Quarantine
<1>23. ASSUME HeadBegin PROVE Goal
  BY <1>23, <1>0 DEF HeadBegin
<1>24. ASSUME ReconcileCompleted PROVE Goal
  BY <1>24, <1>0 DEF ReconcileCompleted, Ready, Readable
<1>25. ASSUME ReconcileUnreadable PROVE Goal
  BY <1>25, <1>0 DEF ReconcileUnreadable, TickError, Forget
<1>26. ASSUME DequeueCompleted PROVE Goal
  BY <1>26, <1>0 DEF DequeueCompleted, Forget, HeldKnown
<1>27. ASSUME Spawn PROVE Goal
  BY <1>27, <1>0 DEF Spawn
<1>28. ASSUME StoreRunning PROVE Goal
  BY <1>28, <1>0 DEF StoreRunning, Goto, DiskTypeOK, NoRunning
<1>29. ASSUME ChildExited PROVE Goal
  BY <1>29, <1>0 DEF ChildExited
<1>30. ASSUME WaitTimesOut PROVE Goal
  BY <1>30, <1>0 DEF WaitTimesOut, Goto, Quarantine
<1>31. ASSUME GraceExpires PROVE Goal
  BY <1>31, <1>0 DEF GraceExpires, Quarantine
<1>32. ASSUME CollectResult PROVE Goal
  BY <1>32, <1>0 DEF CollectResult, CollectedResult, Synth
<1>33. ASSUME CollectQuarantine PROVE Goal
  BY <1>33, <1>0 DEF CollectQuarantine, Quarantine
<1>34. ASSUME StoreFinished PROVE Goal
  BY <1>34, <1>0 DEF StoreFinished, Goto, DiskTypeOK, NoRunning
<1>35. ASSUME Restart PROVE Goal
  BY <1>35, <1>0 DEF Restart, Forget
<1>36. ASSUME SubmitQueueFails PROVE Goal
  BY <1>36, <1>0 DEF SubmitQueueFails, Fault, Forget
<1>37. ASSUME InspectUnavailable PROVE Goal
  BY <1>37, <1>0 DEF InspectUnavailable, Inspecting, LeaveRunning, Forget
<1>38. ASSUME ForceKillUnconfirmed PROVE Goal
  BY <1>38, <1>0 DEF ForceKillUnconfirmed, LeaveRunning, Forget
<1>39. ASSUME ReportFails PROVE Goal
  BY <1>39, <1>0 DEF ReportFails, Quarantine, Forget
<1>40. ASSUME SpawnFails PROVE Goal
  BY <1>40, <1>0 DEF SpawnFails, Quarantine
<1>41. ASSUME StoreRunningFails PROVE Goal
  BY <1>41, <1>0 DEF StoreRunningFails, Quarantine
<1>42. ASSUME StoreFinishedFails PROVE Goal
  BY <1>42, <1>0 DEF StoreFinishedFails, Quarantine
<1>43. ASSUME Crash PROVE Goal
  BY <1>43, <1>0 DEF Crash, Forget
<1>44. ASSUME NEW e \in Exec, ScanQuarantine(e) PROVE Goal
  BY <1>44, <1>0 DEF ScanQuarantine, Quarantine
<1>45. ASSUME NEW e \in Exec, ScanHasResult(e) PROVE Goal
  BY <1>45, <1>0 DEF ScanHasResult, Readable
<1>46. ASSUME NEW e \in Exec, ScanNoResult(e) PROVE Goal
  BY <1>46, <1>0 DEF ScanNoResult
<1>47. ASSUME NEW e \in Exec, SubmitPlan(e) PROVE Goal
  BY <1>47, <1>0 DEF SubmitPlan
<1>48. ASSUME NEW e \in Exec, DeadlineElapses(e) PROVE Goal
  BY <1>48, <1>0 DEF DeadlineElapses
<1>49. ASSUME NEW e \in Exec, Corrupt(e) PROVE Goal
  BY <1>49, <1>0, CorruptKeepsFiles DEF Corrupt, Readable, Synth
<1>50. ASSUME NEW e \in Exec, NEW k \in 1..MaxSpawns, ChildWrites(e, k) PROVE Goal
  BY <1>50, <1>0 DEF ChildWrites
<1>51. ASSUME NEW e \in Exec, NEW k \in 1..MaxSpawns, ChildExits(e, k) PROVE Goal
  BY <1>51, <1>0 DEF ChildExits
<1>52. ASSUME NEW e \in Exec, NEW k \in 1..MaxSpawns, ChildFails(e, k) PROVE Goal
  BY <1>52, <1>0 DEF ChildFails
<1>53. CASE UNCHANGED vars
  BY <1>53, <1>0 DEF vars
<1> QED
  BY <1>1, <1>2, <1>3, <1>4, <1>5, <1>6, <1>7, <1>8, <1>9, <1>10, <1>11, <1>12, <1>13, <1>14, <1>15, <1>16, <1>17, <1>18, <1>19, <1>20, <1>21, <1>22, <1>23, <1>24, <1>25, <1>26, <1>27, <1>28, <1>29, <1>30, <1>31, <1>32, <1>33, <1>34, <1>35, <1>36, <1>37, <1>38, <1>39, <1>40, <1>41, <1>42, <1>43, <1>44, <1>45, <1>46, <1>47, <1>48, <1>49, <1>50, <1>51, <1>52, <1>53
  DEF Next, DaemonStep, FaultStep, ChildStep, RecoverStep, ControlStep, ReportStep,
      QuarantineStep, DrainStep, ExecuteStep

\* Without a crash only the execution at hand was spawned and is still queued.
LEMMA QueueCalmStep == TraceInv /\ CalmInv /\ [Next]_vars /\ crashes' = 0 => \A x \in Exec : QueueCalm(x)'
<1> SUFFICES ASSUME TraceInv, CalmInv, [Next]_vars, crashes' = 0, NEW x \in Exec PROVE QueueCalm(x)'
  OBVIOUS
<1> DEFINE Goal == QueueCalm(x)'
<1>0. /\ SpawnInv /\ CurOK /\ QueueOK /\ LocalQueueOK /\ ResultOK /\ DiskTypeOK /\ OsTypeOK /\ DaemonTypeOK /\ HeldKnown /\ ~Crash /\ CalmPlace
      /\ (\A f \in Exec : RecordCalm(f) /\ QueueCalm(f) /\ HistCalm(f) /\ ResultAfter(f))
  BY CrashesGrow DEF TraceInv, TraceOK, PlaceOK, SpawnInv, TypeOK, CalmInv, CalmOK
<1> USE DEF QueueCalm, CalmPlace, QueuePCs, StartedPCs, QuarantinePCs, Busy, PCs, CurOK, disk, os, daemon, books
<1>1. ASSUME SubmitQueue PROVE Goal
  <2>1. cur \in Exec /\ spawns[cur] = 0
    BY <1>1, <1>0 DEF SubmitQueue, TraceInv, TraceOK, PlaceOK, AcceptedOK, AcceptedKnown
  <2>2. InQueue(x, queue') => InQueue(x, queue) \/ x = cur
    BY <1>1, <1>0, QueueEffect
  <2> QED
    BY <1>1, <1>0, <2>1, <2>2 DEF SubmitQueue, Forget
<1>2. ASSUME TickBegin PROVE Goal
  BY <1>2, <1>0 DEF TickBegin
<1>3. ASSUME ScanDone PROVE Goal
  BY <1>3, <1>0 DEF ScanDone, Forget
<1>4. ASSUME InspectInactive PROVE Goal
  BY <1>4, <1>0 DEF InspectInactive, Inspecting, ProcessGone, Goto
<1>5. ASSUME InspectActive PROVE Goal
  BY <1>5, <1>0 DEF InspectActive, Inspecting, LeaveRunning, Forget
<1>6. ASSUME InspectExpired PROVE Goal
  BY <1>6, <1>0 DEF InspectExpired, Inspecting, Goto
<1>7. ASSUME RecordKill PROVE Goal
  BY <1>7, <1>0 DEF RecordKill, Goto, TickError, Forget
<1>8. ASSUME ForceKill PROVE Goal
  BY <1>8, <1>0 DEF ForceKill, ProcessGone, Goto
<1>9. ASSUME WriteRecoveryResult PROVE Goal
  BY <1>9, <1>0 DEF WriteRecoveryResult, Synth
<1>10. ASSUME EnsureLocalReport PROVE Goal
  BY <1>10, <1>0 DEF EnsureLocalReport, Goto
<1>11. ASSUME PrepareEnvelope PROVE Goal
  BY <1>11, <1>0 DEF PrepareEnvelope, Goto
<1>12. ASSUME PrepareState PROVE Goal
  BY <1>12, <1>0 DEF PrepareState, Goto
<1>13. ASSUME RebuildEnvelope PROVE Goal
  BY <1>13, <1>0 DEF RebuildEnvelope, Goto
<1>14. ASSUME RemoveRunning PROVE Goal
  BY <1>14, <1>0 DEF RemoveRunning, Goto
<1>15. ASSUME QuarantineDropState PROVE Goal
  BY <1>15, <1>0 DEF QuarantineDropState, Goto
<1>16. ASSUME QuarantineDropEnvelope PROVE Goal
  BY <1>16, <1>0 DEF QuarantineDropEnvelope, Goto
<1>17. ASSUME QuarantineStoreHistory PROVE Goal
  BY <1>17, <1>0 DEF QuarantineStoreHistory, Goto
<1>18. ASSUME QuarantineDequeue PROVE Goal
  <2>1. InQueue(x, queue') => InQueue(x, queue) /\ x # cur
    BY <1>18, <1>0, RemoveProperties DEF QuarantineDequeue, DiskTypeOK, QueueOK
  <2> QED
    BY <1>18, <1>0, <2>1 DEF QuarantineDequeue, Goto
<1>19. ASSUME QuarantineDropRunning PROVE Goal
  <2>1. InQueue(x, queue) => x # cur
    BY <1>19, <1>0 DEF QuarantineDropRunning, QueueOK
  <2> QED
    BY <1>19, <1>0, <2>1 DEF QuarantineDropRunning, Forget
<1>20. ASSUME DrainLoadQueue PROVE Goal
  BY <1>20, <1>0 DEF DrainLoadQueue
<1>21. ASSUME HeadEmpty PROVE Goal
  BY <1>21, <1>0 DEF HeadEmpty, Forget
<1>22. ASSUME HeadQuarantine PROVE Goal
  BY <1>22, <1>0 DEF HeadQuarantine, Quarantine
<1>23. ASSUME HeadBegin PROVE Goal
  BY <1>23, <1>0, HeadQueued DEF HeadBegin
<1>24. ASSUME ReconcileCompleted PROVE Goal
  BY <1>24, <1>0 DEF ReconcileCompleted, Ready, Readable
<1>25. ASSUME ReconcileUnreadable PROVE Goal
  BY <1>25, <1>0 DEF ReconcileUnreadable, TickError, Forget
<1>26. ASSUME DequeueCompleted PROVE Goal
  <2>1. InQueue(x, queue') => InQueue(x, queue) /\ x # cur
    BY <1>26, <1>0, RemoveProperties DEF DequeueCompleted, DiskTypeOK, QueueOK, LocalQueueOK, OnHead, HeadPCs
  <2> QED
    BY <1>26, <1>0, <2>1 DEF DequeueCompleted, Forget
<1>27. ASSUME Spawn PROVE Goal
  BY <1>27, <1>0 DEF Spawn, OsTypeOK
<1>28. ASSUME StoreRunning PROVE Goal
  BY <1>28, <1>0 DEF StoreRunning, Goto
<1>29. ASSUME ChildExited PROVE Goal
  BY <1>29, <1>0 DEF ChildExited
<1>30. ASSUME WaitTimesOut PROVE Goal
  BY <1>30, <1>0 DEF WaitTimesOut, Goto, Quarantine
<1>31. ASSUME GraceExpires PROVE Goal
  BY <1>31, <1>0 DEF GraceExpires, Quarantine
<1>32. ASSUME CollectResult PROVE Goal
  BY <1>32, <1>0 DEF CollectResult, CollectedResult, Synth
<1>33. ASSUME CollectQuarantine PROVE Goal
  BY <1>33, <1>0 DEF CollectQuarantine, Quarantine
<1>34. ASSUME StoreFinished PROVE Goal
  BY <1>34, <1>0 DEF StoreFinished, Goto
<1>35. ASSUME Restart PROVE Goal
  BY <1>35, <1>0 DEF Restart, Forget
<1>36. ASSUME SubmitQueueFails PROVE Goal
  BY <1>36, <1>0 DEF SubmitQueueFails, Fault, Forget
<1>37. ASSUME InspectUnavailable PROVE Goal
  BY <1>37, <1>0 DEF InspectUnavailable, Inspecting, LeaveRunning, Forget
<1>38. ASSUME ForceKillUnconfirmed PROVE Goal
  BY <1>38, <1>0 DEF ForceKillUnconfirmed, LeaveRunning, Forget
<1>39. ASSUME ReportFails PROVE Goal
  BY <1>39, <1>0 DEF ReportFails, Quarantine, Forget
<1>40. ASSUME SpawnFails PROVE Goal
  BY <1>40, <1>0 DEF SpawnFails, Quarantine
<1>41. ASSUME StoreRunningFails PROVE Goal
  BY <1>41, <1>0 DEF StoreRunningFails, Quarantine
<1>42. ASSUME StoreFinishedFails PROVE Goal
  BY <1>42, <1>0 DEF StoreFinishedFails, Quarantine
<1>43. ASSUME Crash PROVE Goal
  BY <1>43, <1>0 DEF Crash, Forget
<1>44. ASSUME NEW e \in Exec, ScanQuarantine(e) PROVE Goal
  BY <1>44, <1>0 DEF ScanQuarantine, Quarantine
<1>45. ASSUME NEW e \in Exec, ScanHasResult(e) PROVE Goal
  BY <1>45, <1>0 DEF ScanHasResult, Readable
<1>46. ASSUME NEW e \in Exec, ScanNoResult(e) PROVE Goal
  BY <1>46, <1>0 DEF ScanNoResult
<1>47. ASSUME NEW e \in Exec, SubmitPlan(e) PROVE Goal
  BY <1>47, <1>0 DEF SubmitPlan
<1>48. ASSUME NEW e \in Exec, DeadlineElapses(e) PROVE Goal
  BY <1>48, <1>0 DEF DeadlineElapses
<1>49. ASSUME NEW e \in Exec, Corrupt(e) PROVE Goal
  BY <1>49, <1>0 DEF Corrupt, Readable, Synth
<1>50. ASSUME NEW e \in Exec, NEW k \in 1..MaxSpawns, ChildWrites(e, k) PROVE Goal
  BY <1>50, <1>0 DEF ChildWrites
<1>51. ASSUME NEW e \in Exec, NEW k \in 1..MaxSpawns, ChildExits(e, k) PROVE Goal
  BY <1>51, <1>0 DEF ChildExits
<1>52. ASSUME NEW e \in Exec, NEW k \in 1..MaxSpawns, ChildFails(e, k) PROVE Goal
  BY <1>52, <1>0 DEF ChildFails
<1>53. CASE UNCHANGED vars
  BY <1>53, <1>0 DEF vars
<1> QED
  BY <1>1, <1>2, <1>3, <1>4, <1>5, <1>6, <1>7, <1>8, <1>9, <1>10, <1>11, <1>12, <1>13, <1>14, <1>15, <1>16, <1>17, <1>18, <1>19, <1>20, <1>21, <1>22, <1>23, <1>24, <1>25, <1>26, <1>27, <1>28, <1>29, <1>30, <1>31, <1>32, <1>33, <1>34, <1>35, <1>36, <1>37, <1>38, <1>39, <1>40, <1>41, <1>42, <1>43, <1>44, <1>45, <1>46, <1>47, <1>48, <1>49, <1>50, <1>51, <1>52, <1>53
  DEF Next, DaemonStep, FaultStep, ChildStep, RecoverStep, ControlStep, ReportStep,
      QuarantineStep, DrainStep, ExecuteStep

\* Without a crash what is quarantined leaves the queue.
LEMMA HistCalmStep == TraceInv /\ CalmInv /\ [Next]_vars /\ crashes' = 0 => \A x \in Exec : HistCalm(x)'
<1> SUFFICES ASSUME TraceInv, CalmInv, [Next]_vars, crashes' = 0, NEW x \in Exec PROVE HistCalm(x)'
  OBVIOUS
<1> DEFINE Goal == HistCalm(x)'
<1>0. /\ SpawnInv /\ CurOK /\ QueueOK /\ LocalQueueOK /\ ResultOK /\ DiskTypeOK /\ OsTypeOK /\ DaemonTypeOK /\ HeldKnown /\ ~Crash /\ CalmPlace
      /\ (\A f \in Exec : RecordCalm(f) /\ QueueCalm(f) /\ HistCalm(f) /\ ResultAfter(f))
  BY CrashesGrow DEF TraceInv, TraceOK, PlaceOK, SpawnInv, TypeOK, CalmInv, CalmOK
<1> USE DEF HistCalm, CalmPlace, QueuePCs, StartedPCs, QuarantinePCs, Busy, PCs, CurOK, disk, os, daemon, books
<1>1. ASSUME SubmitQueue PROVE Goal
  <2>1. cur \in Exec /\ ~hist[cur].quarantined
    BY <1>1, <1>0 DEF SubmitQueue, TraceInv, TraceOK, PlaceOK, AcceptedOK, AcceptedKnown
  <2>2. InQueue(x, queue') => InQueue(x, queue) \/ x = cur
    BY <1>1, <1>0, QueueEffect
  <2> QED
    BY <1>1, <1>0, <2>1, <2>2 DEF SubmitQueue, Forget
<1>2. ASSUME TickBegin PROVE Goal
  BY <1>2, <1>0 DEF TickBegin
<1>3. ASSUME ScanDone PROVE Goal
  BY <1>3, <1>0 DEF ScanDone, Forget
<1>4. ASSUME InspectInactive PROVE Goal
  BY <1>4, <1>0 DEF InspectInactive, Inspecting, ProcessGone, Goto
<1>5. ASSUME InspectActive PROVE Goal
  BY <1>5, <1>0 DEF InspectActive, Inspecting, LeaveRunning, Forget
<1>6. ASSUME InspectExpired PROVE Goal
  BY <1>6, <1>0 DEF InspectExpired, Inspecting, Goto
<1>7. ASSUME RecordKill PROVE Goal
  BY <1>7, <1>0 DEF RecordKill, Goto, TickError, Forget
<1>8. ASSUME ForceKill PROVE Goal
  BY <1>8, <1>0 DEF ForceKill, ProcessGone, Goto
<1>9. ASSUME WriteRecoveryResult PROVE Goal
  BY <1>9, <1>0 DEF WriteRecoveryResult, Synth
<1>10. ASSUME EnsureLocalReport PROVE Goal
  BY <1>10, <1>0 DEF EnsureLocalReport, Goto
<1>11. ASSUME PrepareEnvelope PROVE Goal
  BY <1>11, <1>0 DEF PrepareEnvelope, Goto
<1>12. ASSUME PrepareState PROVE Goal
  BY <1>12, <1>0 DEF PrepareState, Goto
<1>13. ASSUME RebuildEnvelope PROVE Goal
  BY <1>13, <1>0 DEF RebuildEnvelope, Goto
<1>14. ASSUME RemoveRunning PROVE Goal
  BY <1>14, <1>0 DEF RemoveRunning, Goto
<1>15. ASSUME QuarantineDropState PROVE Goal
  BY <1>15, <1>0 DEF QuarantineDropState, Goto
<1>16. ASSUME QuarantineDropEnvelope PROVE Goal
  BY <1>16, <1>0 DEF QuarantineDropEnvelope, Goto
<1>17. ASSUME QuarantineStoreHistory PROVE Goal
  BY <1>17, <1>0 DEF QuarantineStoreHistory, Goto, DiskTypeOK
<1>18. ASSUME QuarantineDequeue PROVE Goal
  <2>1. InQueue(x, queue') => InQueue(x, queue) /\ x # cur
    BY <1>18, <1>0, RemoveProperties DEF QuarantineDequeue, DiskTypeOK, QueueOK
  <2> QED
    BY <1>18, <1>0, <2>1 DEF QuarantineDequeue, Goto
<1>19. ASSUME QuarantineDropRunning PROVE Goal
  BY <1>19, <1>0 DEF QuarantineDropRunning, Goto, Forget
<1>20. ASSUME DrainLoadQueue PROVE Goal
  BY <1>20, <1>0 DEF DrainLoadQueue
<1>21. ASSUME HeadEmpty PROVE Goal
  BY <1>21, <1>0 DEF HeadEmpty, Forget
<1>22. ASSUME HeadQuarantine PROVE Goal
  BY <1>22, <1>0 DEF HeadQuarantine, Quarantine
<1>23. ASSUME HeadBegin PROVE Goal
  BY <1>23, <1>0 DEF HeadBegin
<1>24. ASSUME ReconcileCompleted PROVE Goal
  BY <1>24, <1>0 DEF ReconcileCompleted, Ready, Readable
<1>25. ASSUME ReconcileUnreadable PROVE Goal
  BY <1>25, <1>0 DEF ReconcileUnreadable, TickError, Forget
<1>26. ASSUME DequeueCompleted PROVE Goal
  <2>1. InQueue(x, queue') => InQueue(x, queue) /\ x # cur
    BY <1>26, <1>0, RemoveProperties DEF DequeueCompleted, DiskTypeOK, QueueOK, LocalQueueOK, OnHead, HeadPCs
  <2> QED
    BY <1>26, <1>0, <2>1 DEF DequeueCompleted, Forget
<1>27. ASSUME Spawn PROVE Goal
  BY <1>27, <1>0 DEF Spawn
<1>28. ASSUME StoreRunning PROVE Goal
  BY <1>28, <1>0 DEF StoreRunning, Goto
<1>29. ASSUME ChildExited PROVE Goal
  BY <1>29, <1>0 DEF ChildExited
<1>30. ASSUME WaitTimesOut PROVE Goal
  BY <1>30, <1>0 DEF WaitTimesOut, Goto, Quarantine
<1>31. ASSUME GraceExpires PROVE Goal
  BY <1>31, <1>0 DEF GraceExpires, Quarantine
<1>32. ASSUME CollectResult PROVE Goal
  BY <1>32, <1>0 DEF CollectResult, CollectedResult, Synth
<1>33. ASSUME CollectQuarantine PROVE Goal
  BY <1>33, <1>0 DEF CollectQuarantine, Quarantine
<1>34. ASSUME StoreFinished PROVE Goal
  BY <1>34, <1>0 DEF StoreFinished, Goto
<1>35. ASSUME Restart PROVE Goal
  BY <1>35, <1>0 DEF Restart, Forget
<1>36. ASSUME SubmitQueueFails PROVE Goal
  BY <1>36, <1>0 DEF SubmitQueueFails, Fault, Forget
<1>37. ASSUME InspectUnavailable PROVE Goal
  BY <1>37, <1>0 DEF InspectUnavailable, Inspecting, LeaveRunning, Forget
<1>38. ASSUME ForceKillUnconfirmed PROVE Goal
  BY <1>38, <1>0 DEF ForceKillUnconfirmed, LeaveRunning, Forget
<1>39. ASSUME ReportFails PROVE Goal
  BY <1>39, <1>0 DEF ReportFails, Quarantine, Forget
<1>40. ASSUME SpawnFails PROVE Goal
  BY <1>40, <1>0 DEF SpawnFails, Quarantine
<1>41. ASSUME StoreRunningFails PROVE Goal
  BY <1>41, <1>0 DEF StoreRunningFails, Quarantine
<1>42. ASSUME StoreFinishedFails PROVE Goal
  BY <1>42, <1>0 DEF StoreFinishedFails, Quarantine
<1>43. ASSUME Crash PROVE Goal
  BY <1>43, <1>0 DEF Crash, Forget
<1>44. ASSUME NEW e \in Exec, ScanQuarantine(e) PROVE Goal
  BY <1>44, <1>0 DEF ScanQuarantine, Quarantine
<1>45. ASSUME NEW e \in Exec, ScanHasResult(e) PROVE Goal
  BY <1>45, <1>0 DEF ScanHasResult, Readable
<1>46. ASSUME NEW e \in Exec, ScanNoResult(e) PROVE Goal
  BY <1>46, <1>0 DEF ScanNoResult
<1>47. ASSUME NEW e \in Exec, SubmitPlan(e) PROVE Goal
  BY <1>47, <1>0 DEF SubmitPlan
<1>48. ASSUME NEW e \in Exec, DeadlineElapses(e) PROVE Goal
  BY <1>48, <1>0 DEF DeadlineElapses
<1>49. ASSUME NEW e \in Exec, Corrupt(e) PROVE Goal
  BY <1>49, <1>0 DEF Corrupt, Readable, Synth
<1>50. ASSUME NEW e \in Exec, NEW k \in 1..MaxSpawns, ChildWrites(e, k) PROVE Goal
  BY <1>50, <1>0 DEF ChildWrites
<1>51. ASSUME NEW e \in Exec, NEW k \in 1..MaxSpawns, ChildExits(e, k) PROVE Goal
  BY <1>51, <1>0 DEF ChildExits
<1>52. ASSUME NEW e \in Exec, NEW k \in 1..MaxSpawns, ChildFails(e, k) PROVE Goal
  BY <1>52, <1>0 DEF ChildFails
<1>53. CASE UNCHANGED vars
  BY <1>53, <1>0 DEF vars
<1> QED
  BY <1>1, <1>2, <1>3, <1>4, <1>5, <1>6, <1>7, <1>8, <1>9, <1>10, <1>11, <1>12, <1>13, <1>14, <1>15, <1>16, <1>17, <1>18, <1>19, <1>20, <1>21, <1>22, <1>23, <1>24, <1>25, <1>26, <1>27, <1>28, <1>29, <1>30, <1>31, <1>32, <1>33, <1>34, <1>35, <1>36, <1>37, <1>38, <1>39, <1>40, <1>41, <1>42, <1>43, <1>44, <1>45, <1>46, <1>47, <1>48, <1>49, <1>50, <1>51, <1>52, <1>53
  DEF Next, DaemonStep, FaultStep, ChildStep, RecoverStep, ControlStep, ReportStep,
      QuarantineStep, DrainStep, ExecuteStep

\* For any number of executions and faults, as long as the daemon has not crashed: a child's
\* result stands but for the timeout of the daemon that awaits it, a quarantined execution is
\* not spawned again, and no tick fails (quarantine_execution, handle_queue_head, drain_next).
THEOREM RecordsRespectedHolds == Spec => RecordsRespected
<1> DEFINE Respects == crashes' = 0 =>
       /\ \A e \in Exec : ResultStands(e) /\ (hist[e].quarantined => spawns'[e] = spawns[e])
       /\ pc # "down" => pc' # "down"
<1>1. Init => UncrashedInv
  <2> SUFFICES ASSUME Init PROVE CalmInv
    BY DEF UncrashedInv
  <2>1. ASSUME NEW e \in Exec PROVE CalmOK(e)
    BY DEF Init, CalmOK, RecordCalm, QueueCalm, HistCalm, NoneCalm, NoRunning, NoHist, NoResult
  <2> QED
    BY <2>1 DEF Init, CalmInv, CalmPlace
<1>2. TraceInv /\ UncrashedInv /\ [Next]_vars => UncrashedInv'
  <2> SUFFICES ASSUME TraceInv, UncrashedInv, [Next]_vars, crashes' = 0 PROVE CalmInv'
    BY DEF UncrashedInv
  <2>1. CalmInv
    BY CrashesGrow DEF TraceInv, UncrashedInv
  <2>2. ASSUME NEW e \in Exec PROVE CalmOK(e)'
    BY <2>1, RecordCalmStep, QueueCalmStep, HistCalmStep, NoneCalmStep DEF CalmOK, CalmInv
  <2> QED
    BY <2>1, <2>2, CalmPlaceStep DEF CalmInv
<1>3. TraceInv /\ UncrashedInv /\ UncrashedInv' /\ [Next]_vars => Respects
  <2> SUFFICES ASSUME TraceInv, UncrashedInv, UncrashedInv', [Next]_vars, crashes' = 0 PROVE Respects
    OBVIOUS
  <2>1. CalmInv /\ CalmInv' /\ SpawnInv
    BY CrashesGrow DEF TraceInv, UncrashedInv
  <2>2. pc' # "down"
    BY <2>1 DEF CalmInv, CalmPlace, QueuePCs, QuarantinePCs
  <2>3. ASSUME NEW e \in Exec PROVE ResultStands(e)
    <3>1. CASE pc = "collect" /\ result'[e] = CollectedResult(result[e], cls)
      BY <2>1, <3>1 DEF ResultStands, CollectedResult, Synth, CalmInv, CalmOK, NoneCalm
    <3>2. CASE result'[e] = Synth("bad")
      BY <3>2 DEF ResultStands, Synth
    <3>3. CASE \E k \in 1..MaxSpawns, kind \in {"succeeded", "rejected"} :
                 child[e][k] = "live" /\ child'[e] = [child[e] EXCEPT ![k] = "wrote"] /\ result'[e] = [kind |-> kind, by |-> k]
      BY <3>3 DEF ResultStands
    <3>4. CASE result'[e] = result[e]
      BY <3>4 DEF ResultStands
    <3>5. pc # "synth"
      BY <2>1 DEF CalmInv, CalmPlace, QueuePCs, QuarantinePCs
    <3> QED
      BY <2>1, <3>1, <3>2, <3>3, <3>4, <3>5, ResultEffect, Zenon
  <2>4. ASSUME NEW e \in Exec, hist[e].quarantined PROVE spawns'[e] = spawns[e]
    <3>1. ~(pc = "spawn" /\ cur = e)
      BY <2>1, <2>4 DEF SpawnInv, LocalQueueOK, OnHead, HeadPCs, CalmInv, CalmOK, HistCalm
    <3> QED
      BY <2>1, <3>1, ChildEffect
  <2> QED
    BY <2>2, <2>3, <2>4
<1> HIDE DEF Respects
<1>4. TraceInv /\ UncrashedInv /\ UncrashedInv' /\ [Next]_vars => [Respects]_vars
  BY <1>3
<1>5. Spec => [][Respects]_vars
  BY <1>1, <1>2, <1>4, InitTraceInv, StepTraceInv, PTL DEF Spec
<1> QED
  BY <1>5 DEF Respects, RecordsRespected
============================================================================
