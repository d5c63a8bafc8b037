---------------------------- MODULE PlaneProofs ----------------------------
(***************************************************************************)
(* Theorems about the data plane (Plane.tla) and their proofs.             *)
(*                                                                         *)
(* EntriesKept rests on an invariant of the sending part: for each run,    *)
(* what is before its cursor, what the journal has dropped and, while it   *)
(* has no usable cursor, what has left the window is accounted for, sent   *)
(* or passed; and the batch a command printed continues at the first       *)
(* entry that is not.                                                      *)
(*                                                                         *)
(* WorkStateTold and TickTold rest on an invariant of the telling part:    *)
(* what is told and what is pending come together to what the last tick    *)
(* found; the failures of a tick are of inputs before the one it is at,    *)
(* each once; and an input it left with a spool made it active.            *)
(***************************************************************************)
EXTENDS Plane, SequenceLemmas, SequenceTheorems, TLAPS

-----------------------------------------------------------------------------
(* The sending part: the entries of the kernel log. *)

\* What a run need not send any more.
Accounted(r) == sent[r] \cup passed[r]

\* The journal's marks are numbers, cursors are numbers from -1 on, and what was sent or
\* passed, and what waits in the background, are sets of entries.
MarksOK == journal \in Nat /\ vacuumed \in Nat /\ aged \in Nat
RunsOK ==
    /\ cursors \in [Runs -> Int] /\ \A r \in Runs : cursors[r] >= -1
    /\ sent \in [Runs -> SUBSET Nat] /\ passed \in [Runs -> SUBSET Nat]
FinishingOK == \A p \in finishing : p.entries \subseteq Nat
AtOK == uat \in Nat \ {0} /\ (upc \in {"command", "write"} => uat \in 1..Len(RunOrder))

\* Each run has accounted for what lies before its cursor, before the journal's start
\* and, without a usable cursor, before the window.
AccountOK(r) ==
    /\ cursors[r] > 0 => 1..cursors[r] \subseteq Accounted(r)
    /\ 1..vacuumed \subseteq Accounted(r)
    /\ cursors[r] <= 0 => 1..aged \subseteq Accounted(r)

\* Below an entry of a printed batch lie only entries of the batch and accounted ones; a
\* batch that is not empty has a last entry; only a run without a usable cursor falls back.
BatchOK ==
    upc = "write" =>
        /\ batch.entries \subseteq Nat \ {0}
        /\ \A e \in batch.entries : 1..e \subseteq batch.entries \cup Accounted(Run)
        /\ batch.entries # {} => \E e \in batch.entries : \A f \in batch.entries : f <= e
        /\ batch.fellBack => cursors[Run] <= 0

SendInv == MarksOK /\ RunsOK /\ FinishingOK /\ AtOK /\ (\A r \in Runs : AccountOK(r)) /\ BatchOK
PlaneInv == part = "send" => SendInv

\* Initially the journal is empty.
LEMMA SendInvInit == UpInit => SendInv
  BY RunsAssumption DEF UpInit, SendInv, MarksOK, RunsOK, FinishingOK, AtOK, AccountOK, Accounted, BatchOK

\* What was sent or passed for a run stays so.
Grows == \A r \in Runs : Accounted(r) \subseteq Accounted(r)'

\* A step that leaves the marks and the cursors alone and forgets nothing keeps the accounts.
LEMMA AccountsStay ==
  ASSUME \A r \in Runs : AccountOK(r), Grows, UNCHANGED <<cursors, vacuumed, aged>>
  PROVE  \A r \in Runs : AccountOK(r)'
  BY DEF AccountOK, Grows

\* A step that keeps the batch, the cursors and the place and forgets nothing keeps what is
\* known of the batch.
LEMMA BatchStays ==
  ASSUME BatchOK, AtOK, Grows, UNCHANGED <<cursors, batch, upc, uat>>
  PROVE  BatchOK'
<1>1. ASSUME upc = "write" PROVE Run \in Runs
  BY <1>1, RunsAssumption DEF AtOK, Run, Runs
<1>2. Run' = Run
  BY DEF Run
<1>3. ASSUME upc = "write" PROVE Accounted(Run) \subseteq Accounted(Run)'
  BY <1>1, <1>2, <1>3 DEF Grows, Accounted
<1> QED
  BY <1>2, <1>3 DEF BatchOK

\* Steps that change neither the entries, the cursors, the batch nor the marks.
LEMMA Aside ==
  ASSUME SendInv, UNCHANGED <<kernelVars, cursors, sent, passed, batch>>, AtOK', FinishingOK',
         upc' = "write" => upc = "write" /\ uat' = uat
  PROVE  SendInv'
<1>1. Grows
  BY DEF Grows, Accounted
<1>2. MarksOK' /\ RunsOK'
  BY DEF SendInv, MarksOK, RunsOK, kernelVars
<1>3. \A r \in Runs : AccountOK(r)'
  BY <1>1, AccountsStay DEF SendInv, kernelVars
<1>4. BatchOK'
  <2>1. CASE upc' = "write"
    BY <2>1, <1>1, BatchStays DEF SendInv
  <2>2. CASE upc' # "write"
    BY <2>2 DEF BatchOK
  <2> QED BY <2>1, <2>2
<1> QED
  BY <1>2, <1>3, <1>4 DEF SendInv

\* The run the tick is at is one of the runs.
LEMMA RunIsRun ==
  ASSUME AtOK, upc \in {"command", "write"}
  PROVE  Run \in Runs /\ uat \in 1..Len(RunOrder) /\ uat + 1 \in Nat \ {0}
  BY RunsAssumption DEF AtOK, Run, Runs

LEMMA QuietSteps ==
  ASSUME SendInv,
         \/ BackoffEnds \/ BeginSending \/ SendMetrics \/ EndMetrics \/ CheckTool \/ CommandFails \/ EndSending \/ UpCrash
  PROVE  SendInv'
<1>1. CASE BackoffEnds
  BY <1>1, Aside DEF SendInv, BackoffEnds, AtOK, FinishingOK, kernelVars, exporterVars
<1>2. CASE BeginSending
  BY <1>2, Aside DEF SendInv, BeginSending, AtOK, FinishingOK, kernelVars
<1>3. CASE SendMetrics
  <2>1. uat' \in Nat \ {0} /\ upc' \in {"metrics", "run"}
    BY <1>3 DEF SendInv, SendMetrics, AtOK
  <2>2. FinishingOK'
    BY <1>3 DEF SendInv, SendMetrics, FinishingOK, PayloadSent, PayloadFails, LinkBreaks, Stall
  <2> QED
    BY <1>3, <2>1, <2>2, Aside DEF SendMetrics, AtOK, kernelVars, exporterVars
<1>4. CASE EndMetrics
  BY <1>4, Aside DEF SendInv, EndMetrics, AtOK, FinishingOK, kernelVars, exporterVars, wireVars
<1>5. CASE CheckTool
  <2>1. upc' \in {"command", "run"} /\ uat' \in Nat \ {0} /\ (upc' = "command" => uat' = uat)
    BY <1>5 DEF SendInv, CheckTool, AtOK, Skip
  <2>2. AtOK'
    BY <1>5, <2>1, RunsAssumption DEF SendInv, CheckTool, AtOK
  <2> QED
    BY <1>5, <2>1, <2>2, Aside DEF SendInv, CheckTool, FinishingOK, kernelVars, wireVars
<1>6. CASE CommandFails
  <2>1. AtOK'
    BY <1>6 DEF SendInv, CommandFails, AtOK, Skip
  <2> QED
    BY <1>6, <2>1, Aside DEF SendInv, CommandFails, FinishingOK, Skip, kernelVars, wireVars
<1>7. CASE EndSending
  BY <1>7, Aside DEF SendInv, EndSending, AtOK, FinishingOK, kernelVars
<1>8. CASE UpCrash
  <2>1. AtOK' /\ FinishingOK' /\ upc' # "write"
    BY <1>8 DEF UpCrash, AtOK, FinishingOK
  <2>2. MarksOK' /\ RunsOK' /\ BatchOK'
    BY <1>8, <2>1 DEF UpCrash, SendInv, MarksOK, RunsOK, BatchOK, kernelVars
  <2>3. \A r \in Runs : AccountOK(r)'
    BY <1>8, AccountsStay DEF UpCrash, SendInv, Grows, Accounted, kernelVars
  <2> QED
    BY <2>1, <2>2, <2>3 DEF SendInv
<1> QED
  BY <1>1, <1>2, <1>3, <1>4, <1>5, <1>6, <1>7, <1>8

\* The kernel's log and the files change under the tick.
LEMMA HostSteps ==
  ASSUME SendInv, KernelWrites \/ Vacuum \/ TimePasses \/ Install \/ SpoilCursor
  PROVE  SendInv'
<1>1. CASE KernelWrites \/ Install
  <2>1. Grows
    BY <1>1 DEF KernelWrites, Install, Grows, Accounted, exporterVars
  <2>2. MarksOK' /\ RunsOK' /\ FinishingOK' /\ AtOK'
    BY <1>1 DEF KernelWrites, Install, SendInv, MarksOK, RunsOK, FinishingOK, AtOK, exporterVars, wireVars
  <2>3. (\A r \in Runs : AccountOK(r)') /\ BatchOK'
    BY <1>1, <2>1, AccountsStay, BatchStays DEF KernelWrites, Install, SendInv, exporterVars
  <2> QED
    BY <2>2, <2>3 DEF SendInv
<1>2. CASE Vacuum
  <2>1. \A r \in Runs : passed'[r] = passed[r] \cup ({vacuumed + 1} \ sent[r])
    BY <1>2 DEF Vacuum, Unsent
  <2>2. Grows
    BY <1>2, <2>1 DEF Vacuum, Grows, Accounted
  <2>3. passed' \in [Runs -> SUBSET Nat]
    BY <1>2 DEF Vacuum, Unsent, SendInv, RunsOK, MarksOK
  <2>4. MarksOK' /\ RunsOK' /\ FinishingOK' /\ AtOK'
    <3>1. MarksOK'
      BY <1>2 DEF Vacuum, SendInv, MarksOK
    <3>2. RunsOK'
      BY <1>2, <2>3 DEF Vacuum, SendInv, RunsOK
    <3>3. FinishingOK' /\ AtOK'
      BY <1>2 DEF Vacuum, SendInv, FinishingOK, AtOK, wireVars
    <3> QED
      BY <3>1, <3>2, <3>3
  <2>5. BatchOK'
    BY <1>2, <2>2, BatchStays DEF Vacuum, SendInv
  <2>6. ASSUME NEW r \in Runs PROVE AccountOK(r)'
    <3>1. 1..vacuumed' \subseteq 1..vacuumed \cup {vacuumed + 1}
      BY <1>2 DEF Vacuum, SendInv, MarksOK
    <3>2. vacuumed + 1 \in Accounted(r)'
      BY <1>2, <2>1 DEF Vacuum, Accounted
    <3>3. 1..vacuumed \subseteq Accounted(r)'
      BY <2>2 DEF SendInv, AccountOK, Grows
    <3> QED
      BY <1>2, <2>2, <3>1, <3>2, <3>3 DEF Vacuum, SendInv, AccountOK, Grows
  <2> QED
    BY <2>4, <2>5, <2>6 DEF SendInv
<1>3. CASE TimePasses
  <2>1. \A r \in Runs : passed'[r] = IF cursors[r] <= 0 THEN passed[r] \cup ({aged + 1} \ sent[r]) ELSE passed[r]
    BY <1>3 DEF TimePasses, Unsent
  <2>2. Grows
    BY <1>3, <2>1 DEF TimePasses, Grows, Accounted
  <2>3. passed' \in [Runs -> SUBSET Nat]
    BY <1>3 DEF TimePasses, Unsent, SendInv, RunsOK, MarksOK
  <2>4. MarksOK' /\ RunsOK' /\ FinishingOK' /\ AtOK'
    <3>1. MarksOK'
      BY <1>3 DEF TimePasses, SendInv, MarksOK
    <3>2. RunsOK'
      BY <1>3, <2>3 DEF TimePasses, SendInv, RunsOK
    <3>3. FinishingOK' /\ AtOK'
      BY <1>3 DEF TimePasses, SendInv, FinishingOK, AtOK, wireVars
    <3> QED
      BY <3>1, <3>2, <3>3
  <2>5. BatchOK'
    BY <1>3, <2>2, BatchStays DEF TimePasses, SendInv
  <2>6. ASSUME NEW r \in Runs PROVE AccountOK(r)'
    <3>1. 1..aged' \subseteq 1..aged \cup {aged + 1}
      BY <1>3 DEF TimePasses, SendInv, MarksOK
    <3>2. cursors[r] <= 0 => aged + 1 \in Accounted(r)'
      BY <1>3, <2>1 DEF TimePasses, Accounted
    <3>3. cursors[r] <= 0 => 1..aged \subseteq Accounted(r)'
      BY <2>2 DEF SendInv, AccountOK, Grows
    <3> QED
      BY <1>3, <2>2, <3>1, <3>2, <3>3 DEF TimePasses, SendInv, AccountOK, Grows
  <2> QED
    BY <2>4, <2>5, <2>6 DEF SendInv
<1>4. CASE SpoilCursor
  <2>1. PICK s \in Runs : /\ cursors' = [cursors EXCEPT ![s] = -1]
                          /\ passed' = [passed EXCEPT ![s] = @ \cup Unsent(s, 1..aged)]
    BY <1>4 DEF SpoilCursor
  <2>2. Grows
    BY <1>4, <2>1 DEF SpoilCursor, Grows, Accounted, SendInv, RunsOK
  <2>3. RunsOK'
    BY <1>4, <2>1 DEF SpoilCursor, SendInv, RunsOK, MarksOK, Unsent
  <2>4. MarksOK' /\ FinishingOK' /\ AtOK' /\ BatchOK'
    BY <1>4 DEF SpoilCursor, SendInv, MarksOK, FinishingOK, AtOK, BatchOK, kernelVars, wireVars
  <2>5. ASSUME NEW r \in Runs PROVE AccountOK(r)'
    <3>1. 1..vacuumed \subseteq Accounted(r)'
      BY <2>2 DEF SendInv, AccountOK, Grows
    <3>2. CASE r = s
      <4>1. 1..aged \subseteq Accounted(r)'
        BY <1>4, <2>1, <3>2 DEF SpoilCursor, Accounted, Unsent, SendInv, RunsOK
      <4>2. cursors'[r] = -1
        BY <2>1, <3>2 DEF SendInv, RunsOK
      <4> QED
        BY <1>4, <3>1, <4>1, <4>2 DEF SpoilCursor, AccountOK, kernelVars
    <3>3. CASE r # s
      <4>1. cursors'[r] = cursors[r]
        BY <2>1, <3>3 DEF SendInv, RunsOK
      <4> QED
        BY <1>4, <2>2, <4>1 DEF SpoilCursor, SendInv, AccountOK, Grows, kernelVars
    <3> QED
      BY <3>2, <3>3
  <2> QED
    BY <2>3, <2>4, <2>5 DEF SendInv
<1> QED
  BY <1>1, <1>2, <1>3, <1>4

\* A frame finished in the background adds to what was sent.
LEMMA FinishStep ==
  ASSUME SendInv, Finish
  PROVE  SendInv'
<1>1. PICK p \in finishing :
        /\ finishing' = finishing \ {p}
        /\ \/ p.run \in Runs /\ sent' = [sent EXCEPT ![p.run] = @ \cup p.entries]
           \/ sent' = sent
  BY DEF Finish
<1>2. UNCHANGED <<kernelVars, cursors, passed, batch, upc, uat>>
  BY DEF Finish
<1>3. sent' \in [Runs -> SUBSET Nat] /\ Grows
  <2>1. p.entries \subseteq Nat
    BY <1>1 DEF SendInv, FinishingOK
  <2>2. CASE sent' = sent
    BY <1>2, <2>2 DEF Grows, Accounted, SendInv, RunsOK
  <2>3. CASE p.run \in Runs /\ sent' = [sent EXCEPT ![p.run] = @ \cup p.entries]
    BY <1>2, <2>1, <2>3 DEF Grows, Accounted, SendInv, RunsOK
  <2> QED
    BY <1>1, <2>2, <2>3
<1>4. MarksOK' /\ AtOK' /\ FinishingOK'
  BY <1>1, <1>2 DEF SendInv, MarksOK, AtOK, FinishingOK, kernelVars
<1>5. RunsOK'
  BY <1>2, <1>3 DEF SendInv, RunsOK
<1>6. (\A r \in Runs : AccountOK(r)') /\ BatchOK'
  BY <1>2, <1>3, AccountsStay, BatchStays DEF SendInv, kernelVars
<1> QED
  BY <1>4, <1>5, <1>6 DEF SendInv

\* What the command prints continues where the accounts of the run end.
LEMMA CommandStep ==
  ASSUME SendInv, RunCommand
  PROVE  SendInv'
<1>1. Run \in Runs /\ Run' = Run
  BY RunIsRun DEF SendInv, RunCommand, Run
<1>2. UNCHANGED <<kernelVars, cursors, sent, passed, finishing, uat>> /\ upc' = "write"
  BY DEF RunCommand, wireVars
<1>3. MarksOK' /\ RunsOK' /\ FinishingOK' /\ AtOK'
  BY <1>2 DEF SendInv, MarksOK, RunsOK, FinishingOK, AtOK, RunCommand, kernelVars
<1>4. \A r \in Runs : AccountOK(r)'
  BY <1>2, AccountsStay DEF SendInv, Grows, Accounted, kernelVars
<1>5. PICK lo \in Nat \ {0} : batch'.entries = lo..journal /\ 1..(lo - 1) \subseteq Accounted(Run)
  <2>1. cursors[Run] \in Int /\ cursors[Run] >= -1
    BY <1>1 DEF SendInv, RunsOK
  <2>2. AccountOK(Run)
    BY <1>1 DEF SendInv
  <2>3. CASE cursors[Run] <= 0
    <3>1. batch'.entries = (Oldest + 1)..journal
      BY <2>1, <2>3 DEF RunCommand, Printed
    <3>2. Oldest \in Nat /\ 1..Oldest \subseteq Accounted(Run)
      BY <2>2, <2>3 DEF SendInv, MarksOK, Oldest, AccountOK
    <3>3. Oldest + 1 \in Nat \ {0} /\ (Oldest + 1) - 1 = Oldest
      BY <3>2
    <3> QED
      BY <3>1, <3>2, <3>3
  <2>4. CASE cursors[Run] > 0 /\ cursors[Run] > vacuumed
    <3>1. batch'.entries = (cursors[Run] + 1)..journal
      BY <2>1, <2>4 DEF RunCommand, Printed
    <3>2. cursors[Run] + 1 \in Nat \ {0} /\ (cursors[Run] + 1) - 1 = cursors[Run]
      BY <2>1, <2>4
    <3> QED
      BY <2>2, <2>4, <3>1, <3>2 DEF AccountOK
  <2>5. CASE cursors[Run] > 0 /\ ~(cursors[Run] > vacuumed)
    <3>1. batch'.entries = (vacuumed + 1)..journal
      BY <2>1, <2>5 DEF RunCommand, Printed
    <3>2. vacuumed + 1 \in Nat \ {0} /\ (vacuumed + 1) - 1 = vacuumed
      BY DEF SendInv, MarksOK
    <3> QED
      BY <2>2, <3>1, <3>2 DEF AccountOK
  <2> QED
    BY <2>1, <2>3, <2>4, <2>5
<1>6. Accounted(Run)' = Accounted(Run)
  BY <1>1, <1>2 DEF Accounted
<1>7. BatchOK'
  <2>1. journal \in Nat
    BY DEF SendInv, MarksOK
  <2>2. batch'.entries \subseteq Nat \ {0}
    BY <1>5, <2>1
  <2>3. ASSUME NEW e \in batch'.entries PROVE 1..e \subseteq batch'.entries \cup Accounted(Run)
    BY <1>5, <2>1, <2>3
  <2>4. batch'.entries # {} => \E e \in batch'.entries : \A f \in batch'.entries : f <= e
    <3>1. ASSUME batch'.entries # {} PROVE journal \in batch'.entries /\ \A f \in batch'.entries : f <= journal
      BY <3>1, <1>5, <2>1
    <3> QED
      BY <3>1
  <2>5. batch'.fellBack => cursors[Run] <= 0
    BY DEF RunCommand
  <2> QED
    BY <1>1, <1>2, <1>6, <2>2, <2>3, <2>4, <2>5 DEF BatchOK
<1> QED
  BY <1>3, <1>4, <1>7 DEF SendInv

\* A command that takes too long costs the run its cursor and the window its old entries.
LEMMA TimeoutStep ==
  ASSUME SendInv, TimesOut
  PROVE  SendInv'
<1> DEFINE s == Run
<1>1. s \in Runs /\ uat + 1 \in Nat \ {0}
  BY RunIsRun DEF SendInv, TimesOut
<1>2. /\ cursors' = [cursors EXCEPT ![s] = 0] /\ passed' = [passed EXCEPT ![s] = @ \cup Unsent(s, 1..aged)]
      /\ upc' = "run" /\ uat' = uat + 1 /\ UNCHANGED <<kernelVars, sent, finishing>>
  BY DEF TimesOut, Skip, wireVars
<1> HIDE DEF s
<1>3. Grows
  BY <1>1, <1>2 DEF Grows, Accounted, SendInv, RunsOK
<1>4. RunsOK'
  BY <1>1, <1>2 DEF SendInv, RunsOK, MarksOK, Unsent
<1>5. MarksOK' /\ FinishingOK' /\ AtOK' /\ BatchOK'
  BY <1>1, <1>2 DEF SendInv, MarksOK, FinishingOK, AtOK, BatchOK, kernelVars
<1>6. ASSUME NEW r \in Runs PROVE AccountOK(r)'
  <2>1. 1..vacuumed \subseteq Accounted(r)'
    BY <1>3 DEF SendInv, AccountOK, Grows
  <2>2. CASE r = s
    <3>1. 1..aged \subseteq Accounted(r)'
      BY <1>2, <2>2 DEF Accounted, Unsent, SendInv, RunsOK
    <3>2. cursors'[r] = 0
      BY <1>2, <2>2 DEF SendInv, RunsOK
    <3> QED
      BY <1>2, <2>1, <3>1, <3>2 DEF AccountOK, kernelVars
  <2>3. CASE r # s
    <3>1. cursors'[r] = cursors[r]
      BY <1>2, <2>3 DEF SendInv, RunsOK
    <3> QED
      BY <1>2, <1>3, <3>1 DEF SendInv, AccountOK, Grows, kernelVars
  <2> QED
    BY <2>2, <2>3
<1> QED
  BY <1>4, <1>5, <1>6 DEF SendInv

\* The cursor moves to the last entry of the batch, and the batch was sent.
LEMMA WriteStep ==
  ASSUME SendInv, WriteRecords \/ WriteUnrecorded
  PROVE  SendInv'
<1>0. PICK s : s = Run
  OBVIOUS
<1>1. s \in Runs /\ uat + 1 \in Nat \ {0} /\ upc = "write"
  BY <1>0, RunIsRun DEF SendInv, WriteRecords, WriteUnrecorded
<1>2. upc' = "run" /\ uat' = uat + 1 /\ UNCHANGED <<kernelVars, passed>>
  BY DEF WriteRecords, WriteUnrecorded, Skip
<1>3. \/ sent' = [sent EXCEPT ![s] = @ \cup batch.entries] /\ cursors' = [cursors EXCEPT ![s] = CursorAfter(@, batch)]
      \/ sent' = [sent EXCEPT ![s] = @ \cup batch.entries] /\ cursors' = cursors
      \/ sent' = sent /\ cursors' = cursors
  BY <1>0 DEF WriteRecords, WriteUnrecorded, PersistCursor
<1>4. /\ batch.entries \subseteq Nat \ {0}
      /\ \A e \in batch.entries : 1..e \subseteq batch.entries \cup Accounted(s)
      /\ batch.entries # {} => \E e \in batch.entries : \A f \in batch.entries : f <= e
      /\ batch.fellBack => cursors[s] <= 0
  BY <1>0, <1>1 DEF SendInv, BatchOK
<1>5. FinishingOK'
  <2>1. finishing' = finishing \/ finishing' = finishing \cup {[run |-> s, entries |-> batch.entries]}
    BY <1>0 DEF WriteRecords, WriteUnrecorded, PayloadSent, PayloadFails, LinkBreaks, Stall, wireVars
  <2> QED
    BY <1>4, <2>1 DEF SendInv, FinishingOK
<1>6. MarksOK' /\ AtOK' /\ BatchOK'
  BY <1>1, <1>2 DEF SendInv, MarksOK, AtOK, BatchOK, kernelVars
<1>7. sent' \in [Runs -> SUBSET Nat] /\ Grows
  <2>1. CASE sent' = sent
    BY <1>2, <2>1 DEF Grows, Accounted, SendInv, RunsOK
  <2>2. CASE sent' = [sent EXCEPT ![s] = @ \cup batch.entries]
    BY <1>1, <1>2, <1>4, <2>2 DEF Grows, Accounted, SendInv, RunsOK
  <2> QED
    BY <1>3, <2>1, <2>2
<1>8. CASE cursors' = cursors
  <2>1. RunsOK'
    BY <1>2, <1>7, <1>8 DEF SendInv, RunsOK
  <2>2. \A r \in Runs : AccountOK(r)'
    BY <1>2, <1>7, <1>8, AccountsStay DEF SendInv, kernelVars
  <2> QED
    BY <1>5, <1>6, <2>1, <2>2 DEF SendInv
<1>9. CASE /\ sent' = [sent EXCEPT ![s] = @ \cup batch.entries]
           /\ cursors' = [cursors EXCEPT ![s] = CursorAfter(@, batch)]
  <2> DEFINE c == CursorAfter(cursors[s], batch)
  <2>1. cursors[s] \in Int /\ cursors[s] >= -1 /\ AccountOK(s)
    BY <1>1 DEF SendInv, RunsOK
  <2>2. /\ c \in Int /\ c >= -1
        /\ c > 0 => 1..c \subseteq Accounted(s)'
        /\ c <= 0 => 1..aged \subseteq Accounted(s)'
    <3>1. Accounted(s)' = Accounted(s) \cup batch.entries
      BY <1>1, <1>2, <1>9 DEF Accounted, SendInv, RunsOK
    <3>2. CASE batch.entries # {}
      <4>1. PICK m \in batch.entries : \A f \in batch.entries : f <= m
        BY <1>4, <3>2
      <4>2. c \in batch.entries /\ \A f \in batch.entries : f <= c
        BY <3>2, <4>1 DEF CursorAfter
      <4>3. c \in Nat \ {0} /\ 1..c \subseteq Accounted(s)'
        BY <1>4, <3>1, <4>2
      <4> QED
        BY <4>3
    <3>3. CASE batch.entries = {} /\ batch.fellBack
      <4>1. c = 0 /\ cursors[s] <= 0
        BY <1>4, <3>3 DEF CursorAfter
      <4> QED
        BY <2>1, <3>1, <4>1 DEF AccountOK
    <3>4. CASE batch.entries = {} /\ ~batch.fellBack
      <4>1. c = cursors[s]
        BY <3>4 DEF CursorAfter
      <4> QED
        BY <2>1, <3>1, <4>1 DEF AccountOK
    <3> QED
      BY <3>2, <3>3, <3>4
  <2> HIDE DEF c
  <2>3. cursors' = [cursors EXCEPT ![s] = c]
    BY <1>1, <1>9 DEF c, SendInv, RunsOK
  <2>4. RunsOK'
    BY <1>2, <1>7, <2>2, <2>3 DEF SendInv, RunsOK
  <2>5. ASSUME NEW r \in Runs PROVE AccountOK(r)'
    <3>1. 1..vacuumed \subseteq Accounted(r)'
      BY <1>7 DEF SendInv, AccountOK, Grows
    <3>2. CASE r = s
      <4>1. cursors'[r] = c
        BY <2>3, <3>2 DEF SendInv, RunsOK
      <4> QED
        BY <1>2, <2>2, <3>1, <3>2, <4>1 DEF AccountOK, kernelVars
    <3>3. CASE r # s
      <4>1. cursors'[r] = cursors[r]
        BY <2>3, <3>3 DEF SendInv, RunsOK
      <4> QED
        BY <1>2, <1>7, <4>1 DEF SendInv, AccountOK, Grows, kernelVars
    <3> QED
      BY <3>2, <3>3
  <2> QED
    BY <1>5, <1>6, <2>4, <2>5 DEF SendInv
<1> QED
  BY <1>3, <1>8, <1>9

LEMMA SendNext ==
  ASSUME SendInv, UpNext
  PROVE  SendInv'
  BY QuietSteps, HostSteps, FinishStep, CommandStep, TimeoutStep, WriteStep DEF UpNext, UpStep

LEMMA PlaneInvHolds == PlaneSpec => []PlaneInv
<1>1. PlaneInit => PlaneInv
  BY SendInvInit DEF PlaneInit, PlaneInv
<1>2. PlaneInv /\ [PlaneNext]_planeVars => PlaneInv'
  <2> SUFFICES ASSUME PlaneInv, [PlaneNext]_planeVars, part' = "send" PROVE SendInv'
    BY DEF PlaneInv
  <2>1. part = "send" /\ SendInv
    BY DEF PlaneInv, PlaneNext, Discovering, Sending, Telling, planeVars
  <2>2. CASE UpNext
    BY <2>1, <2>2, SendNext
  <2>3. CASE UNCHANGED upVars
    <3>1. AtOK' /\ FinishingOK'
      BY <2>1, <2>3 DEF SendInv, AtOK, FinishingOK, upVars
    <3> QED
      BY <2>1, <2>3, <3>1, Aside DEF upVars, kernelVars
  <2> QED
    BY <2>1, <2>2, <2>3 DEF PlaneNext, Discovering, Sending, Telling, planeVars
<1> QED
  BY <1>1, <1>2, PTL DEF PlaneSpec

\* For any runs, journal and number of faults, no cursor passes an entry its run has neither
\* sent nor lost to the journal or the window.
THEOREM EntriesKeptHolds == PlaneSpec => []EntriesKept
<1>1. PlaneInv => EntriesKept
  BY DEF PlaneInv, SendInv, AccountOK, Accounted, EntriesKept
<1> QED
  BY <1>1, PlaneInvHolds, PTL

-----------------------------------------------------------------------------
(* The discovery part: what a round keeps and what it writes. *)

File(S) == {None, Corrupt} \cup [is : {"some"}, of : S]
Snapshots == [revision : Int, resources : SUBSET Items, targets : SUBSET Items]
Rounds ==
    [force : BOOLEAN, at : Nat \ {0}, got : SUBSET Items, ok : SUBSET Kinds, errors : SUBSET Kinds, loaded : BOOLEAN,
     unloadable : BOOLEAN, refreshed : BOOLEAN, cached : BOOLEAN, failed : {"", "cache", "planner", "view"},
     wrote : SUBSET Classes]

\* The places of a tick, and those from each of its files on.
FromView == {"report", "metrics", "export"}
FromMeta == {"planner"} \cup FromView
FromTargets == {"meta"} \cup FromMeta
FromResources == {"targets"} \cup FromTargets
Composed == {"resources"} \cup FromResources
Early == {"load", "probe", "resources", "targets", "meta"}
Places == {"idle", "load", "probe"} \cup Composed

HostOK == onHost \subseteq Items /\ steady \subseteq onHost
OutputsOK ==
    /\ outputs \in [Kinds -> File(SUBSET Items)]
    /\ \A k \in Kinds : outputs[k] # None => Readable(outputs[k]) /\ outputs[k].of = OfKind(outputs[k].of, k)
FilesOK ==
    /\ cache \in [resources : File(SUBSET Items), targets : File(SUBSET Items), meta : File(Int)]
    /\ planned \in [Kinds -> File(SUBSET Items)]
RoundOK ==
    /\ round \in Rounds /\ dpc \in Places
    /\ latest \in {None} \cup [is : {"some"}, of : Snapshots]
    /\ dpc \in Composed => latest # None
    /\ dpc \in Early => round.failed = ""
    /\ dpc = "load" => round.got = {}
    /\ dpc \in {"load", "resources", "targets", "meta"} => round.at = 1
DiscoveryTypes == HostOK /\ OutputsOK /\ FilesOK /\ RoundOK

\* A probe's last output holds what the last refreshed snapshot had of its kind and the host
\* has had since.
OutputHolds(k) == Readable(outputs[k]) => OfKind(steady, k) \subseteq outputs[k].of

\* What the round has of a probe's kind it has from the probe's last output, and it has all
\* that stayed unless the probe failed.
Contributed(k) ==
    /\ OfKind(steady, k) \subseteq round.got \/ k \in round.errors
    /\ Readable(outputs[k]) => OfKind(round.got, k) \subseteq outputs[k].of
ProbesOK ==
    dpc = "probe" =>
        \A j \in DOMAIN ProbeOrder :
            IF j < round.at THEN Contributed(ProbeOrder[j]) ELSE OfKind(round.got, ProbeOrder[j]) = {}

\* From the composition of the snapshot on.
SnapshotOK ==
    /\ dpc \in Composed \ {"export"} => \A i \in steady : i \in latest.of.resources \/ KindOf[i] \in round.errors
    /\ dpc \in Composed \ {"export"} /\ round.refreshed =>
        \A k \in Kinds : Readable(outputs[k]) => OfKind(latest.of.resources, k) \subseteq outputs[k].of
    /\ dpc = "metrics" => round.errors \subseteq dhealth.failed
VanishOK == (\A k \in Kinds : OutputHolds(k)) /\ ProbesOK /\ SnapshotOK

\* The files written so far tell of the snapshot, as long as no write of the round failed.
CachedOK ==
    round.failed = "" =>
        /\ dpc \in FromResources => cache.resources = Some(latest.of.resources)
        /\ dpc \in FromTargets => cache.targets = Some(latest.of.targets)
        /\ dpc \in FromMeta => cache.meta = Some(latest.of.revision)
PlannedOK ==
    /\ dpc = "planner" =>
        \A j \in DOMAIN ProbeOrder :
            j < round.at => planned[ProbeOrder[j]] = Some(OfKind(latest.of.targets, ProbeOrder[j]))
    /\ round.failed = "" /\ dpc \in FromView =>
        view = Some(latest.of.targets) /\ \A k \in Kinds : planned[k] = Some(OfKind(latest.of.targets, k))
ToldOK == dpc \in {"metrics", "export"} /\ dhealth.failed = {} => round.failed = ""
ExportedOK ==
    dpc = "idle" /\ dhealth.failed = {} =>
        \A c \in round.wrote :
            exported[c] = Some([revision |-> latest.of.revision, rows |-> {i \in latest.of.resources : ClassOf[i] = c}])
AgreeOK == CachedOK /\ PlannedOK /\ ToldOK /\ ExportedOK

DiscoveryInv == DiscoveryTypes /\ VanishOK /\ AgreeOK
DiscoverInv == part = "discover" => DiscoveryInv

\* The sequence of probes has no probe twice.
LEMMA ProbesInOrder ==
    /\ DOMAIN ProbeOrder = 1..Len(ProbeOrder) /\ Len(ProbeOrder) \in Nat
    /\ \A j \in DOMAIN ProbeOrder : ProbeOrder[j] \in Kinds
    /\ \A k \in Kinds : \E j \in DOMAIN ProbeOrder : k = ProbeOrder[j]
  BY DiscoveryAssumption DEF Kinds

LEMMA NoRoundIsRound == NoRound \in Rounds
<1> DEFINE none == {}
<1>1. none \in SUBSET Items /\ none \in SUBSET Kinds /\ none \in SUBSET Classes
  OBVIOUS
<1>2. FALSE \in BOOLEAN /\ 1 \in Nat \ {0} /\ "" \in {"", "cache", "planner", "view"}
  OBVIOUS
<1>3. NoRound = [force |-> FALSE, at |-> 1, got |-> none, ok |-> none, errors |-> none, loaded |-> FALSE,
                 unloadable |-> FALSE, refreshed |-> FALSE, cached |-> FALSE, failed |-> "", wrote |-> none]
  BY DEF NoRound
<1> HIDE DEF none
<1> QED
  BY <1>1, <1>2, <1>3, Zenon DEF Rounds

LEMMA DiscoveryInvInit == DiscoveryInit => DiscoveryInv
<1> SUFFICES ASSUME DiscoveryInit PROVE DiscoveryInv
  OBVIOUS
<1>1. dpc = "idle" /\ round = NoRound /\ NoRound \in Rounds /\ round.wrote = {} /\ latest = None
  BY NoRoundIsRound DEF DiscoveryInit, NoRound
<1>2. HostOK
  BY DiscoveryAssumption DEF DiscoveryInit, HostOK
<1>3. OutputsOK /\ FilesOK /\ \A k \in Kinds : OutputHolds(k)
  BY DEF DiscoveryInit, OutputsOK, FilesOK, OutputHolds, NoOutput, None, File, Readable
<1>4. RoundOK
  BY <1>1 DEF RoundOK, Places, Composed, Early, FromResources, FromTargets, FromMeta, FromView
<1>5. ProbesOK /\ SnapshotOK /\ AgreeOK
  BY <1>1 DEF ProbesOK, SnapshotOK, AgreeOK, CachedOK, PlannedOK, ToldOK, ExportedOK,
              Composed, FromResources, FromTargets, FromMeta, FromView
<1> QED
  BY <1>2, <1>3, <1>4, <1>5 DEF DiscoveryInv, DiscoveryTypes, VanishOK

\* The probe at its turn contributes S: what it finds now, its last output, or nothing when
\* it failed.
ProbeEffect(k, S, e) ==
    /\ \/ S = OfKind(onHost, k) /\ outputs' = [outputs EXCEPT ![k] = Some(S)]
       \/ S = {} /\ e = {k} /\ outputs' = outputs
       \/ Readable(outputs[k]) /\ S = outputs[k].of /\ outputs' = outputs
    /\ round'.at = round.at + 1 /\ round'.got = round.got \cup S /\ round'.errors = round.errors \cup e
    /\ S \subseteq Items /\ S = OfKind(S, k) /\ e \subseteq {k}

LEMMA ProbeStepEffect ==
  ASSUME HostOK, OutputsOK, RoundOK, RefreshProbe
  PROVE  /\ round.at \in DOMAIN ProbeOrder /\ ProbeOrder[round.at] \in Kinds
         /\ \E S, e : ProbeEffect(ProbeOrder[round.at], S, e)
         /\ round' \in Rounds /\ round'.failed = round.failed
<1>1. PICK k : k = ProbeOrder[round.at]
  OBVIOUS
<1>2. round.at \in DOMAIN ProbeOrder /\ k \in Kinds
  <2>1. round.at \in Nat \ {0} /\ round.at <= Len(ProbeOrder)
    BY DEF RefreshProbe, RoundOK, Rounds
  <2> QED
    BY <1>1, <2>1, ProbesInOrder
<1>3. PICK S, ok, e : /\ Contribute(k, S, ok, e)
                      /\ ok \subseteq {k} /\ e \subseteq {k}
                      /\ \/ S = OfKind(onHost, k) /\ outputs' = [outputs EXCEPT ![k] = Some(S)]
                         \/ S = {} /\ e = {k} /\ outputs' = outputs
                         \/ Readable(outputs[k]) /\ S = outputs[k].of /\ outputs' = outputs
  <2>1. ASSUME RunProbe(k) PROVE Contribute(k, OfKind(onHost, k), {k}, {})
                                 /\ outputs' = [outputs EXCEPT ![k] = Some(OfKind(onHost, k))]
    BY <2>1 DEF RunProbe
  <2>2. CASE ProbeFails(k)
    BY <2>2 DEF ProbeFails
  <2>3. CASE Readable(outputs[k]) /\ ReuseOutput(k)
    BY <2>3 DEF ReuseOutput
  <2>4. CASE RetryProbe(k)
    BY <2>4, <2>1 DEF RetryProbe
  <2> QED
    BY <1>1, <2>1, <2>2, <2>3, <2>4 DEF RefreshProbe
<1>4. S \subseteq Items /\ S = OfKind(S, k)
  <2>1. CASE S = OfKind(onHost, k)
    BY <2>1 DEF OfKind, HostOK
  <2>2. CASE S = {}
    BY <2>2 DEF OfKind
  <2>3. CASE Readable(outputs[k]) /\ S = outputs[k].of
    <3>0. outputs[k] \in File(SUBSET Items)
      BY <1>2 DEF OutputsOK
    <3>1. outputs[k] \in File(SUBSET Items) /\ outputs[k] # None
      BY <2>3, <3>0 DEF Readable, None
    <3>2. outputs[k].of \in SUBSET Items
      BY <2>3, <3>1 DEF File, None, Corrupt, Readable
    <3> QED
      BY <1>2, <2>3, <3>1, <3>2 DEF OutputsOK
  <2> QED
    BY <1>3, <2>1, <2>2, <2>3
<1>5. round' = [round EXCEPT !.at = @ + 1, !.got = @ \cup S, !.ok = @ \cup ok, !.errors = @ \cup e]
  BY <1>3 DEF Contribute
<1>6. round \in Rounds
  BY DEF RoundOK
<1>7. /\ round'.at = round.at + 1 /\ round'.got = round.got \cup S /\ round'.errors = round.errors \cup e
      /\ round'.failed = round.failed
  BY <1>5, <1>6 DEF Rounds
<1>8. round' \in Rounds
  <2>1. /\ round.at + 1 \in Nat \ {0} /\ round.got \cup S \in SUBSET Items
        /\ round.ok \cup ok \in SUBSET Kinds /\ round.errors \cup e \in SUBSET Kinds
    <3>1. round.at \in Nat \ {0} /\ round.got \subseteq Items /\ round.ok \subseteq Kinds /\ round.errors \subseteq Kinds
      BY <1>6 DEF Rounds
    <3>2. ok \subseteq Kinds /\ e \subseteq Kinds
      BY <1>2, <1>3
    <3> QED
      BY <1>4, <3>1, <3>2
  <2> QED
    BY <1>5, <1>6, <2>1 DEF Rounds
<1>9. ProbeEffect(k, S, e)
  BY <1>3, <1>4, <1>7 DEF ProbeEffect
<1> QED
  BY <1>1, <1>2, <1>7, <1>8, <1>9

\* The locals of the round after the steps that write them.
LEMMA RoundStep ==
  ASSUME RoundOK, DiscoveryNext, ~RefreshProbe
  PROVE  round' \in Rounds
<1>1. round \in Rounds /\ NoRound \in Rounds
  BY NoRoundIsRound DEF RoundOK
<1>2. CASE BeginRound
  BY <1>1, <1>2 DEF BeginRound, Rounds
<1>3. CASE LoadCache
  <2>1. Readable(Loaded) \in BOOLEAN /\ LoadFailed \in BOOLEAN
    BY DEF Readable, LoadFailed
  <2> QED
    BY <1>1, <1>3, <2>1 DEF LoadCache, Rounds
<1>4. CASE ComposeSnapshot
  <2>1. PICK success \in BOOLEAN, old \in BOOLEAN :
          round' = [round EXCEPT !.at = 1, !.refreshed = success, !.cached = old]
    <3> DEFINE success == round.got # {} \/ Cardinality(round.errors) < Len(ProbeOrder)
               old == ~success /\ Readable(latest)
    <3>1. success \in BOOLEAN /\ old \in BOOLEAN
      BY DEF Readable
    <3>2. round' = [round EXCEPT !.at = 1, !.refreshed = success, !.cached = old]
      BY <1>4 DEF ComposeSnapshot
    <3> QED
      BY <3>1, <3>2
  <2>2. [round EXCEPT !.at = 1] \in Rounds
    <3>1. PICK n : n = 1 /\ n \in Nat \ {0}
      OBVIOUS
    <3>2. [round EXCEPT !.at = n] \in Rounds
      BY <1>1, <3>1 DEF Rounds
    <3> QED
      BY <3>1, <3>2
  <2>3. PICK r \in Rounds : r = [round EXCEPT !.at = 1]
    BY <2>2
  <2>4. round' = [r EXCEPT !.refreshed = success, !.cached = old]
    BY <2>1, <2>3
  <2> QED
    BY <2>1, <2>4 DEF Rounds
<1>5. CASE StoreCache
  BY <1>1, <1>5 DEF StoreCache, Rounds
<1>6. CASE StoreCandidates
  <2>1. round' = [round EXCEPT !.at = @ + 1] \/ round' = [round EXCEPT !.failed = "planner"]
    BY <1>6 DEF StoreCandidates
  <2>2. round.at + 1 \in Nat \ {0}
    <3>1. round.at \in Nat \ {0}
      BY <1>1 DEF Rounds
    <3> QED
      BY <3>1
  <2>3. PICK n \in Nat \ {0} : n = round.at + 1
    BY <2>2
  <2>4. [round EXCEPT !.at = n] \in Rounds /\ [round EXCEPT !.failed = "planner"] \in Rounds
    BY <1>1 DEF Rounds
  <2>5. round' = [round EXCEPT !.at = n] \/ round' = [round EXCEPT !.failed = "planner"]
    BY <2>1, <2>3
  <2> QED
    BY <2>4, <2>5
<1>7. CASE StoreView
  BY <1>1, <1>7 DEF StoreView, Rounds
<1>8. CASE Export
  <2>1. PICK W : W \subseteq Classes /\ round' = [NoRound EXCEPT !.wrote = W]
    <3>1. PICK lost : round' = [NoRound EXCEPT !.wrote = Exportable \ lost]
      BY <1>8 DEF Export
    <3>2. Exportable \subseteq Classes
      BY DEF Exportable
    <3> QED
      BY <3>1, <3>2
  <2> QED
    BY <1>1, <2>1 DEF Rounds
<1>9. CASE Report \/ MetricsTick \/ Crash \/ Damage \/ HostChanges
  BY <1>1, <1>9 DEF Report, MetricsTick, Crash, Damage, HostChanges
<1> QED
  BY <1>2, <1>3, <1>4, <1>5, <1>6, <1>7, <1>8, <1>9 DEF DiscoveryNext, DiscoveryStep

LEMMA HostStep ==
  ASSUME HostOK, DiscoveryNext
  PROVE  HostOK'
<1>1. CASE HostChanges
  BY <1>1 DEF HostChanges, HostOK
<1>2. CASE MetricsTick
  BY <1>2 DEF MetricsTick, HostOK
<1>3. CASE UNCHANGED <<onHost, steady>>
  BY <1>3 DEF HostOK
<1> QED
  BY <1>1, <1>2, <1>3 DEF DiscoveryNext, DiscoveryStep, BeginRound, LoadCache, RefreshProbe, ComposeSnapshot, StoreCache,
     StoreCandidates, StoreView, Report, Export, Crash, Damage

LEMMA OutputsStep ==
  ASSUME HostOK, OutputsOK, RoundOK, DiscoveryNext
  PROVE  OutputsOK'
<1>1. CASE RefreshProbe
  <2>1. PICK k, S, e : k \in Kinds /\ ProbeEffect(k, S, e)
    BY <1>1, ProbeStepEffect
  <2>2. CASE outputs' = outputs
    BY <2>2 DEF OutputsOK
  <2>3. CASE outputs' = [outputs EXCEPT ![k] = Some(S)]
    <3>1. Some(S) \in File(SUBSET Items) /\ Readable(Some(S)) /\ Some(S).of = S
      BY <2>1 DEF ProbeEffect, Some, File, Readable
    <3>2. outputs' \in [Kinds -> File(SUBSET Items)]
      BY <2>3, <3>1 DEF OutputsOK
    <3>3. ASSUME NEW q \in Kinds, outputs'[q] # None
          PROVE  Readable(outputs'[q]) /\ outputs'[q].of = OfKind(outputs'[q].of, q)
      <4>1. CASE q = k
        <5>1. outputs'[q] = Some(S) /\ S = OfKind(S, q)
          BY <2>1, <2>3, <4>1 DEF OutputsOK, ProbeEffect
        <5> QED
          BY <3>1, <5>1
      <4>2. CASE q # k
        <5>1. outputs'[q] = outputs[q]
          BY <2>3, <4>2 DEF OutputsOK
        <5> QED
          BY <3>3, <5>1 DEF OutputsOK
      <4> QED
        BY <4>1, <4>2
    <3> QED
      BY <3>2, <3>3 DEF OutputsOK
  <2> QED
    BY <2>1, <2>2, <2>3 DEF ProbeEffect
<1>2. CASE Crash
  BY <1>2 DEF Crash, OutputsOK, NoOutput, File
<1>3. CASE outputs' = outputs
  BY <1>3 DEF OutputsOK
<1> QED
  BY <1>1, <1>2, <1>3 DEF DiscoveryNext, DiscoveryStep, BeginRound, LoadCache, ComposeSnapshot, StoreCache,
     StoreCandidates, StoreView, Report, MetricsTick, Export, Damage, HostChanges

\* A snapshot that is there has its parts.
LEMMA LatestParts ==
  ASSUME RoundOK, latest # None
  PROVE  /\ Readable(latest) /\ latest.of \in Snapshots /\ latest.of.revision \in Int
         /\ latest.of.resources \subseteq Items /\ latest.of.targets \subseteq Items
  BY DEF RoundOK, Readable, Snapshots

LEMMA FilesStep ==
  ASSUME FilesOK, RoundOK, DiscoveryNext
  PROVE  FilesOK'
<1>1. CASE StoreCache
  <2>1. latest # None
    BY <1>1 DEF StoreCache, RoundOK, Composed, FromResources, FromTargets, FromMeta
  <2>2. /\ Some(latest.of.resources) \in File(SUBSET Items) /\ Some(latest.of.targets) \in File(SUBSET Items)
        /\ Some(latest.of.revision) \in File(Int)
    BY <2>1, LatestParts DEF Some, File
  <2>3. \/ cache' = cache
        \/ cache' = [cache EXCEPT !.resources = Some(latest.of.resources)]
        \/ cache' = [cache EXCEPT !.targets = Some(latest.of.targets)]
        \/ cache' = [cache EXCEPT !.meta = Some(latest.of.revision)]
    BY <1>1 DEF StoreCache
  <2>4. planned' = planned
    BY <1>1 DEF StoreCache
  <2> QED
    BY <2>2, <2>3, <2>4 DEF FilesOK
<1>2. CASE StoreCandidates
  <2>1. PICK k \in Kinds : planned' = planned \/ planned' = [planned EXCEPT ![k] = Some(Candidates(k))]
    <3>1. round.at \in Nat \ {0} /\ round.at <= Len(ProbeOrder)
      BY <1>2 DEF StoreCandidates, RoundOK, Rounds
    <3>2. ProbeOrder[round.at] \in Kinds
      BY <3>1, ProbesInOrder
    <3> QED
      BY <1>2, <3>2 DEF StoreCandidates
  <2>2. latest # None
    BY <1>2 DEF StoreCandidates, RoundOK, Composed, FromResources, FromTargets, FromMeta
  <2>3. Some(Candidates(k)) \in File(SUBSET Items)
    BY <2>2, LatestParts DEF Candidates, OfKind, Some, File
  <2>4. cache' = cache
    BY <1>2 DEF StoreCandidates
  <2> QED
    BY <2>1, <2>3, <2>4 DEF FilesOK
<1>3. CASE Damage
  <2>1. Corrupt \in File(SUBSET Items) /\ Corrupt \in File(Int)
    BY DEF File
  <2>2. planned' = planned
    BY <1>3 DEF Damage
  <2>3. CASE cache' = cache
    BY <2>2, <2>3 DEF FilesOK
  <2>4. CASE \E f \in DOMAIN cache : cache' = [cache EXCEPT ![f] = Corrupt]
    <3>1. \/ cache' = [cache EXCEPT !.resources = Corrupt] \/ cache' = [cache EXCEPT !.targets = Corrupt]
          \/ cache' = [cache EXCEPT !.meta = Corrupt]
      BY <2>4 DEF FilesOK
    <3> QED
      BY <2>1, <2>2, <3>1 DEF FilesOK
  <2> QED
    BY <1>3, <2>3, <2>4 DEF Damage
<1>4. CASE UNCHANGED <<cache, planned>>
  BY <1>4 DEF FilesOK
<1> QED
  BY <1>1, <1>2, <1>3, <1>4 DEF DiscoveryNext, DiscoveryStep, BeginRound, LoadCache, RefreshProbe, ComposeSnapshot,
     StoreView, Report, MetricsTick, Export, Crash, HostChanges

\* What the three files hold is a snapshot.
LEMMA LoadedIsSnapshot ==
  ASSUME FilesOK, Readable(Loaded)
  PROVE  Loaded \in [is : {"some"}, of : Snapshots]
<1>1. /\ Readable(cache.resources) /\ Readable(cache.targets) /\ Readable(cache.meta)
      /\ Loaded = Some([revision |-> cache.meta.of, resources |-> cache.resources.of, targets |-> cache.targets.of])
  <2>1. \A f \in DOMAIN cache : Readable(cache[f])
    BY DEF Loaded, None, Readable
  <2>2. DOMAIN cache = {"resources", "targets", "meta"}
    BY DEF FilesOK
  <2> QED
    BY <2>1, <2>2 DEF Loaded
<1>2. cache.resources \in File(SUBSET Items) /\ cache.targets \in File(SUBSET Items) /\ cache.meta \in File(Int)
  BY DEF FilesOK
<1>3. cache.resources.of \in SUBSET Items /\ cache.targets.of \in SUBSET Items /\ cache.meta.of \in Int
  BY <1>1, <1>2 DEF File, Readable, None, Corrupt
<1> QED
  BY <1>1, <1>3 DEF Some, Snapshots

LEMMA LatestStep ==
  ASSUME FilesOK, RoundOK, DiscoveryNext
  PROVE  latest' \in {None} \cup [is : {"some"}, of : Snapshots]
<1>1. CASE LoadCache
  BY <1>1, LoadedIsSnapshot DEF LoadCache, RoundOK
<1>2. CASE ComposeSnapshot
  <2>1. NextRevision \in Int
    <3>1. CASE Readable(latest)
      <4>1. latest # None
        BY <3>1 DEF Readable, None
      <4> QED
        BY <4>1, LatestParts DEF NextRevision
    <3>2. CASE ~Readable(latest)
      BY <3>2 DEF NextRevision
    <3> QED
      BY <3>1, <3>2
  <2>2. round.got \subseteq Items
    BY DEF RoundOK, Rounds
  <2>3. [revision |-> NextRevision, resources |-> round.got, targets |-> round.got] \in Snapshots
    BY <2>1, <2>2 DEF Snapshots
  <2>4. latest' = latest \/ latest' = Some([revision |-> NextRevision, resources |-> round.got, targets |-> round.got])
    BY <1>2 DEF ComposeSnapshot
  <2>5. PICK t \in Snapshots : latest' = latest \/ latest' = Some(t)
    BY <2>3, <2>4
  <2>6. Some(t) \in [is : {"some"}, of : Snapshots]
    BY DEF Some
  <2> QED
    BY <2>5, <2>6 DEF RoundOK
<1>3. CASE Crash
  BY <1>3 DEF Crash
<1>4. CASE latest' = latest
  BY <1>4 DEF RoundOK
<1> QED
  BY <1>1, <1>2, <1>3, <1>4 DEF DiscoveryNext, DiscoveryStep, BeginRound, RefreshProbe, StoreCache,
     StoreCandidates, StoreView, Report, MetricsTick, Export, Damage, HostChanges

LEMMA RoundOKStep ==
  ASSUME HostOK, OutputsOK, FilesOK, RoundOK, DiscoveryNext
  PROVE  RoundOK'
<1> USE DEF Places, Composed, Early, FromResources, FromTargets, FromMeta, FromView
<1>1. round' \in Rounds
  BY RoundStep, ProbeStepEffect
<1>2. latest' \in {None} \cup [is : {"some"}, of : Snapshots]
  BY LatestStep
<1>3. round \in Rounds
  BY DEF RoundOK
<1>4. CASE BeginRound
  <2>1. dpc' = "load" /\ round'.got = {} /\ round'.at = 1 /\ round'.failed = ""
    BY <1>4, NoRoundIsRound DEF BeginRound, NoRound
  <2> QED
    BY <1>1, <1>2, <2>1 DEF RoundOK
<1>5. CASE LoadCache
  <2>1. dpc' = "probe" /\ round'.failed = round.failed /\ dpc = "load"
    BY <1>3, <1>5 DEF LoadCache, Rounds
  <2> QED
    BY <1>1, <1>2, <2>1 DEF RoundOK
<1>6. CASE RefreshProbe
  <2>1. dpc' = "probe" /\ round'.failed = round.failed /\ dpc = "probe"
    BY <1>6, ProbeStepEffect DEF RefreshProbe
  <2> QED
    BY <1>1, <1>2, <2>1 DEF RoundOK
<1>7. CASE ComposeSnapshot
  <2>1. dpc' = "resources" /\ dpc = "probe" /\ round'.failed = round.failed /\ round'.at = 1
    BY <1>3, <1>7 DEF ComposeSnapshot, Rounds
  <2>2. latest' # None
    BY <1>7 DEF ComposeSnapshot, Some, None, Readable
  <2> QED
    BY <1>1, <1>2, <2>1, <2>2 DEF RoundOK
<1>8. CASE StoreCache
  <2>1. \/ dpc = "resources" /\ dpc' \in {"targets", "planner"} /\ (dpc' = "targets" => round' = round)
        \/ dpc = "targets" /\ dpc' \in {"meta", "planner"} /\ (dpc' = "meta" => round' = round)
        \/ dpc = "meta" /\ dpc' = "planner"
    BY <1>8 DEF StoreCache
  <2>2. latest' = latest
    BY <1>8 DEF StoreCache
  <2> QED
    BY <1>1, <1>2, <2>1, <2>2 DEF RoundOK
<1>9. CASE StoreCandidates
  <2>1. dpc = "planner" /\ dpc' \in {"planner", "report"} /\ latest' = latest
    BY <1>9 DEF StoreCandidates
  <2> QED
    BY <1>1, <1>2, <2>1 DEF RoundOK
<1>10. CASE StoreView \/ Report \/ MetricsTick
  <2>1. dpc \in {"planner", "report", "metrics"} /\ dpc' \in {"report", "metrics", "export"} /\ latest' = latest
    BY <1>10 DEF StoreView, Report, MetricsTick
  <2> QED
    BY <1>1, <1>2, <2>1 DEF RoundOK
<1>11. CASE Export \/ Crash \/ Damage
  <2>1. dpc' = "idle"
    BY <1>11 DEF Export, Crash, Damage
  <2> QED
    BY <1>1, <1>2, <2>1 DEF RoundOK
<1>12. CASE HostChanges
  BY <1>1, <1>2, <1>12 DEF RoundOK, HostChanges
<1> QED
  BY <1>4, <1>5, <1>6, <1>7, <1>8, <1>9, <1>10, <1>11, <1>12 DEF DiscoveryNext, DiscoveryStep

LEMMA DiscoveryTypesStep ==
  ASSUME DiscoveryTypes, DiscoveryNext
  PROVE  DiscoveryTypes'
  BY HostStep, OutputsStep, FilesStep, RoundOKStep DEF DiscoveryTypes

\* The probe step keeps what is known of the probes before it, and gives it for its own.
LEMMA ProbesStep ==
  ASSUME DiscoveryTypes, VanishOK, RefreshProbe
  PROVE  VanishOK'
<1>1. PICK k, S, e : k = ProbeOrder[round.at] /\ ProbeEffect(k, S, e)
  BY ProbeStepEffect DEF DiscoveryTypes
<1>2. round.at \in DOMAIN ProbeOrder /\ k \in Kinds /\ round.at \in Nat
  BY <1>1, ProbeStepEffect, ProbesInOrder DEF DiscoveryTypes
<1>3. dpc = "probe" /\ dpc' = "probe" /\ steady' = steady /\ onHost' = onHost
  BY DEF RefreshProbe
<1>4. \A q \in Kinds : q # k => outputs'[q] = outputs[q]
  BY <1>1 DEF ProbeEffect, DiscoveryTypes, OutputsOK
<1>5. OutputHolds(k) /\ OfKind(round.got, k) = {}
  BY <1>1, <1>2, <1>3 DEF VanishOK, ProbesOK
<1>6. /\ OfKind(steady, k) \subseteq S \/ k \in e
      /\ Readable(outputs'[k]) => S \subseteq outputs'[k].of
      /\ Readable(outputs'[k]) => OfKind(steady, k) \subseteq outputs'[k].of
  <2>1. CASE S = OfKind(onHost, k) /\ outputs' = [outputs EXCEPT ![k] = Some(S)]
    <3>1. outputs'[k] = Some(S)
      BY <1>2, <2>1 DEF DiscoveryTypes, OutputsOK
    <3>2. OfKind(steady, k) \subseteq S
      BY <2>1 DEF DiscoveryTypes, HostOK, OfKind
    <3> QED
      BY <3>1, <3>2 DEF Some
  <2>2. CASE S = {} /\ e = {k} /\ outputs' = outputs
    BY <1>5, <2>2 DEF OutputHolds
  <2>3. CASE Readable(outputs[k]) /\ S = outputs[k].of /\ outputs' = outputs
    BY <1>5, <2>3 DEF OutputHolds
  <2> QED
    BY <1>1, <2>1, <2>2, <2>3 DEF ProbeEffect
<1>7. \A q : q # k => OfKind(round'.got, q) = OfKind(round.got, q)
  BY <1>1 DEF ProbeEffect, OfKind
<1>8. OfKind(round'.got, k) = S
  BY <1>1, <1>5 DEF ProbeEffect, OfKind
<1>9. ASSUME NEW q \in Kinds PROVE OutputHolds(q)'
  <2>1. CASE q = k
    BY <1>3, <1>6, <2>1 DEF OutputHolds
  <2>2. CASE q # k
    <3>1. OutputHolds(q)
      BY DEF VanishOK
    <3> QED
      BY <1>3, <1>4, <2>2, <3>1 DEF OutputHolds
  <2> QED
    BY <2>1, <2>2
<1>10. Contributed(k)'
  <2>1. S \subseteq round'.got /\ e \subseteq round'.errors
    BY <1>1 DEF ProbeEffect
  <2> QED
    BY <1>3, <1>6, <1>8, <2>1 DEF Contributed
<1>11. ASSUME NEW j \in DOMAIN ProbeOrder
       PROVE  IF j < round'.at THEN Contributed(ProbeOrder[j])' ELSE OfKind(round'.got, ProbeOrder[j]) = {}
  <2>1. j \in Nat /\ round'.at = round.at + 1
    BY <1>1, ProbesInOrder DEF ProbeEffect
  <2>2. CASE j < round.at
    <3>1. Contributed(ProbeOrder[j])
      BY <1>3, <2>2 DEF VanishOK, ProbesOK
    <3>2. ProbeOrder[j] # k /\ ProbeOrder[j] \in Kinds
      BY <1>1, <1>2, <2>1, <2>2, ProbesInOrder, DiscoveryAssumption
    <3>3. PICK q \in Kinds : q = ProbeOrder[j] /\ q # k /\ Contributed(q)
      BY <3>1, <3>2
    <3>4. outputs'[q] = outputs[q] /\ OfKind(round'.got, q) = OfKind(round.got, q)
      BY <1>4, <1>7, <3>3
    <3>5. round.got \subseteq round'.got /\ round.errors \subseteq round'.errors
      BY <1>1 DEF ProbeEffect
    <3>6. Contributed(q)'
      BY <1>3, <3>3, <3>4, <3>5 DEF Contributed
    <3> QED
      BY <1>2, <2>1, <2>2, <3>3, <3>6
  <2>3. CASE j = round.at
    BY <1>1, <1>2, <1>10, <2>1, <2>3
  <2>4. CASE j > round.at
    <3>1. OfKind(round.got, ProbeOrder[j]) = {}
      BY <1>2, <1>3, <2>1, <2>4 DEF VanishOK, ProbesOK
    <3>2. ProbeOrder[j] # k
      BY <1>1, <1>2, <2>1, <2>4, DiscoveryAssumption
    <3> QED
      BY <1>2, <1>7, <2>1, <2>4, <3>1, <3>2
  <2> QED
    BY <1>2, <2>1, <2>2, <2>3, <2>4
<1>12. ProbesOK'
  BY <1>11 DEF ProbesOK
<1>13. SnapshotOK'
  BY <1>3 DEF SnapshotOK, Composed, FromResources, FromTargets, FromMeta, FromView
<1> QED
  BY <1>9, <1>12, <1>13 DEF VanishOK

\* A step that changes no output and adds nothing to what stayed keeps the outputs' part.
LEMMA HoldsStays ==
  ASSUME VanishOK, outputs' = outputs, steady' \subseteq steady
  PROVE  \A k \in Kinds : OutputHolds(k)'
  BY DEF VanishOK, OutputHolds, OfKind

\* From the composition to the metrics the snapshot and the failures stay.
LEMMA SnapshotStays ==
  ASSUME VanishOK, outputs' = outputs, steady' \subseteq steady, latest' = latest, dpc # "probe", dpc' # "probe",
         round'.errors = round.errors, round'.refreshed = round.refreshed,
         dpc' \in Composed \ {"export"} => dpc \in Composed \ {"export"},
         dpc' = "metrics" => round.errors \subseteq dhealth'.failed
  PROVE  VanishOK'
<1>1. \A k \in Kinds : OutputHolds(k)'
  BY HoldsStays
<1>2. ProbesOK'
  BY DEF ProbesOK
<1>3. SnapshotOK'
  BY DEF VanishOK, SnapshotOK
<1> QED
  BY <1>1, <1>2, <1>3 DEF VanishOK

LEMMA ComposeStep ==
  ASSUME DiscoveryTypes, VanishOK, ComposeSnapshot
  PROVE  VanishOK'
<1>1. dpc = "probe" /\ dpc' = "resources" /\ outputs' = outputs /\ steady' = steady /\ round.at > Len(ProbeOrder)
  BY DEF ComposeSnapshot
<1>2. round \in Rounds
  BY DEF DiscoveryTypes, RoundOK
<1>3. round'.errors = round.errors
  BY <1>2 DEF ComposeSnapshot, Rounds
<1>4. round'.refreshed => latest'.of.resources = round.got
  BY <1>2 DEF ComposeSnapshot, Rounds, Some
<1>5. latest'.of.resources = round.got \/ round.got = {}
  BY DEF ComposeSnapshot, Some
<1>6. \A k \in Kinds : Contributed(k)
  <2>0. round.at \in Nat
    BY <1>2 DEF Rounds
  <2>1. \A j \in DOMAIN ProbeOrder : j < round.at
    BY <1>1, <2>0, ProbesInOrder
  <2>2. \A j \in DOMAIN ProbeOrder : Contributed(ProbeOrder[j])
    BY <1>1, <2>1 DEF VanishOK, ProbesOK
  <2> QED
    BY <2>2, ProbesInOrder
<1>7. ASSUME NEW i \in steady PROVE i \in latest'.of.resources \/ KindOf[i] \in round'.errors
  <2>1. PICK k \in Kinds : k = KindOf[i]
    BY DiscoveryAssumption DEF DiscoveryTypes, HostOK, Kinds
  <2>2. i \in round.got \/ k \in round.errors
    BY <1>6, <2>1 DEF Contributed, OfKind
  <2> QED
    BY <1>3, <1>5, <2>1, <2>2
<1>8. round'.refreshed => \A k \in Kinds : Readable(outputs[k]) => OfKind(latest'.of.resources, k) \subseteq outputs[k].of
  BY <1>4, <1>6 DEF Contributed
<1>9. SnapshotOK'
  BY <1>1, <1>7, <1>8 DEF SnapshotOK
<1>10. ProbesOK' /\ \A k \in Kinds : OutputHolds(k)'
  BY <1>1, HoldsStays DEF ProbesOK
<1> QED
  BY <1>9, <1>10 DEF VanishOK

LEMMA VanishStep ==
  ASSUME DiscoveryTypes, VanishOK, DiscoveryNext
  PROVE  VanishOK'
<1> USE DEF Composed, FromResources, FromTargets, FromMeta, FromView
<1>0. round \in Rounds
  BY DEF DiscoveryTypes, RoundOK
<1>1. CASE BeginRound \/ Export \/ Damage
  <2>1. outputs' = outputs /\ steady' = steady /\ dpc' \in {"load", "idle"}
    BY <1>1 DEF BeginRound, Export, Damage
  <2> QED
    BY <2>1, HoldsStays DEF VanishOK, ProbesOK, SnapshotOK
<1>2. CASE Crash
  <2>1. \A k \in Kinds : outputs'[k] = None /\ ~Readable(None)
    BY <1>2 DEF Crash, NoOutput, None, Readable
  <2>2. dpc' = "idle"
    BY <1>2 DEF Crash
  <2> QED
    BY <2>1, <2>2 DEF VanishOK, OutputHolds, ProbesOK, SnapshotOK
<1>3. CASE LoadCache
  <2>1. outputs' = outputs /\ steady' = steady /\ dpc' = "probe" /\ dpc = "load"
    BY <1>3 DEF LoadCache
  <2>2. round'.at = round.at /\ round'.got = round.got
    BY <1>0, <1>3 DEF LoadCache, Rounds
  <2>3. round'.at = 1 /\ round'.got = {}
    BY <2>1, <2>2 DEF DiscoveryTypes, RoundOK
  <2>4. ProbesOK'
    BY <2>3, ProbesInOrder DEF ProbesOK, OfKind
  <2> QED
    BY <2>1, <2>4, HoldsStays DEF VanishOK, SnapshotOK
<1>4. CASE RefreshProbe
  BY <1>4, ProbesStep
<1>5. CASE ComposeSnapshot
  BY <1>5, ComposeStep
<1>6. CASE StoreCache \/ StoreCandidates \/ StoreView
  <2>1. /\ outputs' = outputs /\ steady' = steady /\ latest' = latest /\ dpc \in Composed \ {"export"}
        /\ dpc' \notin {"probe", "metrics"} /\ dpc # "probe"
    BY <1>6 DEF StoreCache, StoreCandidates, StoreView
  <2>2. round' = round \/ (\E x : round' = [round EXCEPT !.failed = x]) \/ round' = [round EXCEPT !.at = @ + 1]
    BY <1>6 DEF StoreCache, StoreCandidates, StoreView
  <2>3. round'.errors = round.errors /\ round'.refreshed = round.refreshed
    BY <1>0, <2>2 DEF Rounds
  <2> QED
    BY <2>1, <2>3, SnapshotStays
<1>7. CASE Report
  <2>1. outputs' = outputs /\ steady' = steady /\ latest' = latest /\ dpc = "report" /\ dpc' = "metrics" /\ round' = round
    BY <1>7 DEF Report
  <2>2. round.errors \subseteq dhealth'.failed
    BY <1>7 DEF Report, ProbeHealth
  <2> QED
    BY <2>1, <2>2, SnapshotStays
<1>8. CASE MetricsTick
  <2>1. outputs' = outputs /\ dpc = "metrics" /\ dpc' = "export"
    BY <1>8 DEF MetricsTick
  <2>2. steady' = IF round.refreshed THEN latest.of.resources \cap onHost ELSE steady
    BY <1>8 DEF MetricsTick
  <2>3. ASSUME NEW k \in Kinds PROVE OutputHolds(k)'
    <3>1. CASE round.refreshed
      <4>1. Readable(outputs[k]) => OfKind(latest.of.resources, k) \subseteq outputs[k].of
        BY <2>1, <3>1 DEF VanishOK, SnapshotOK
      <4> QED
        BY <2>1, <2>2, <3>1, <4>1 DEF OutputHolds, OfKind
    <3>2. CASE ~round.refreshed
      BY <2>1, <2>2, <3>2, HoldsStays
    <3> QED
      BY <3>1, <3>2
  <2> QED
    BY <2>1, <2>3 DEF VanishOK, ProbesOK, SnapshotOK
<1>9. CASE HostChanges
  <2>1. outputs' = outputs /\ steady' \subseteq steady /\ UNCHANGED <<latest, round, dpc, dhealth>>
    BY <1>9 DEF HostChanges
  <2>2. ProbesOK'
    <3>1. ASSUME NEW k, Contributed(k) PROVE Contributed(k)'
      BY <2>1, <3>1 DEF Contributed, OfKind
    <3> QED
      BY <2>1, <3>1 DEF VanishOK, ProbesOK
  <2>3. SnapshotOK'
    BY <2>1 DEF VanishOK, SnapshotOK
  <2> QED
    BY <2>1, <2>2, <2>3, HoldsStays DEF VanishOK
<1> QED
  BY <1>1, <1>2, <1>3, <1>4, <1>5, <1>6, <1>7, <1>8, <1>9 DEF DiscoveryNext, DiscoveryStep

\* The candidates of all kinds together are the targets.
LEMMA ViewOfPlanned ==
  ASSUME NEW T, T \subseteq Items, \A k \in Kinds : planned[k] = Some(OfKind(T, k))
  PROVE  TargetView = T
<1>1. ASSUME NEW k \in Kinds PROVE planned[k].of = OfKind(T, k)
  <2>1. planned[k] = Some(OfKind(T, k))
    OBVIOUS
  <2> QED
    BY <2>1 DEF Some
<1>2. \A i \in T : KindOf[i] \in Kinds
  BY DiscoveryAssumption DEF Kinds
<1> QED
  BY <1>1, <1>2 DEF TargetView, OfKind

LEMMA AgreeStep ==
  ASSUME DiscoveryTypes, AgreeOK, DiscoveryNext
  PROVE  AgreeOK'
<1> USE DEF Composed, FromResources, FromTargets, FromMeta, FromView
<1>0. round \in Rounds /\ round.at \in Nat \ {0}
  BY DEF DiscoveryTypes, RoundOK, Rounds
<1>1. CASE BeginRound \/ LoadCache \/ RefreshProbe \/ ComposeSnapshot
  <2>1. dpc' \in {"load", "probe", "resources"}
    BY <1>1 DEF BeginRound, LoadCache, RefreshProbe, ComposeSnapshot
  <2> QED
    BY <2>1 DEF AgreeOK, CachedOK, PlannedOK, ToldOK, ExportedOK
<1>2. CASE Crash \/ Damage
  <2>1. dpc' = "idle" /\ round'.wrote = {}
    <3>1. dpc' = "idle" /\ round' = NoRound
      BY <1>2 DEF Crash, Damage
    <3> QED
      BY <3>1 DEF NoRound
  <2> QED
    BY <2>1 DEF AgreeOK, CachedOK, PlannedOK, ToldOK, ExportedOK
<1>3. CASE StoreCache
  <2>1. latest' = latest /\ planned' = planned
    BY <1>3 DEF StoreCache
  <2>2. dpc \in {"resources", "targets", "meta"} /\ round.failed = "" /\ round.at = 1
    BY <1>3 DEF StoreCache, DiscoveryTypes, RoundOK, Early
  <2>3. CASE round' = [round EXCEPT !.failed = "cache"] /\ dpc' = "planner"
    <3>1. round'.failed = "cache" /\ round'.at = 1
      BY <1>0, <2>2, <2>3 DEF Rounds
    <3>2. \A j \in DOMAIN ProbeOrder : ~(j < round'.at)
      BY <3>1, ProbesInOrder
    <3> QED
      BY <2>3, <3>1, <3>2 DEF AgreeOK, CachedOK, PlannedOK, ToldOK, ExportedOK
  <2>4. CASE /\ round' = round
             /\ \/ dpc = "resources" /\ dpc' = "targets" /\ cache' = [cache EXCEPT !.resources = Some(latest.of.resources)]
                \/ dpc = "targets" /\ dpc' = "meta" /\ cache' = [cache EXCEPT !.targets = Some(latest.of.targets)]
                \/ dpc = "meta" /\ dpc' = "planner" /\ cache' = [cache EXCEPT !.meta = Some(latest.of.revision)]
    <3>1. CachedOK'
      BY <2>1, <2>2, <2>4 DEF AgreeOK, CachedOK, DiscoveryTypes, FilesOK
    <3>2. PlannedOK' /\ ToldOK' /\ ExportedOK'
      <4>0. round'.at = 1
        BY <2>2, <2>4
      <4>1. \A j \in DOMAIN ProbeOrder : ~(j < round'.at)
        BY <4>0, ProbesInOrder
      <4> QED
        BY <2>4, <4>1 DEF PlannedOK, ToldOK, ExportedOK
    <3> QED
      BY <3>1, <3>2 DEF AgreeOK
  <2> QED
    BY <1>3, <2>3, <2>4 DEF StoreCache
<1>4. CASE StoreCandidates
  <2>1. latest' = latest /\ cache' = cache /\ view' = view /\ dpc = "planner"
    BY <1>4 DEF StoreCandidates
  <2>2. round.at \in DOMAIN ProbeOrder
    BY <1>0, <1>4, ProbesInOrder DEF StoreCandidates
  <2>3. CASE round' = [round EXCEPT !.failed = "planner"] /\ dpc' = "report"
    <3>1. round'.failed = "planner"
      BY <1>0, <2>3 DEF Rounds
    <3> QED
      BY <2>3, <3>1 DEF AgreeOK, CachedOK, PlannedOK, ToldOK, ExportedOK
  <2>4. CASE /\ planned' = [planned EXCEPT ![ProbeOrder[round.at]] = Some(Candidates(ProbeOrder[round.at]))]
             /\ round' = [round EXCEPT !.at = @ + 1] /\ dpc' = dpc
    <3>1. round'.at = round.at + 1 /\ round'.failed = round.failed
      BY <1>0, <2>4 DEF Rounds
    <3>2. ASSUME NEW j \in DOMAIN ProbeOrder, j < round'.at
          PROVE  planned'[ProbeOrder[j]] = Some(OfKind(latest.of.targets, ProbeOrder[j]))
      <4>1. j \in Nat /\ (j < round.at \/ j = round.at)
        BY <1>0, <3>1, <3>2, ProbesInOrder
      <4>2. ProbeOrder[j] \in Kinds /\ planned \in [Kinds -> File(SUBSET Items)]
        BY ProbesInOrder DEF DiscoveryTypes, FilesOK
      <4>3. CASE j = round.at
        BY <2>4, <4>2, <4>3 DEF Candidates
      <4>4. CASE j < round.at
        <5>1. planned[ProbeOrder[j]] = Some(OfKind(latest.of.targets, ProbeOrder[j]))
          BY <2>1, <4>4 DEF AgreeOK, PlannedOK
        <5>2. ProbeOrder[j] # ProbeOrder[round.at]
          BY <1>0, <2>2, <4>1, <4>4, DiscoveryAssumption
        <5> QED
          BY <2>4, <4>2, <5>1, <5>2
      <4> QED
        BY <4>1, <4>3, <4>4
    <3>3. PlannedOK'
      BY <2>1, <2>4, <3>2 DEF PlannedOK
    <3>4. CachedOK' /\ ToldOK' /\ ExportedOK'
      BY <2>1, <2>4, <3>1 DEF AgreeOK, CachedOK, ToldOK, ExportedOK
    <3> QED
      BY <3>3, <3>4 DEF AgreeOK
  <2> QED
    BY <1>4, <2>3, <2>4 DEF StoreCandidates
<1>5. CASE StoreView
  <2>1. latest' = latest /\ cache' = cache /\ planned' = planned /\ dpc = "planner" /\ dpc' = "report" /\ round.at > Len(ProbeOrder)
    BY <1>5 DEF StoreView
  <2>2. CASE round' = [round EXCEPT !.failed = "view"]
    <3>1. round'.failed = "view"
      BY <1>0, <2>2 DEF Rounds
    <3> QED
      BY <2>1, <3>1 DEF AgreeOK, CachedOK, PlannedOK, ToldOK, ExportedOK
  <2>3. CASE view' = Some(TargetView) /\ round' = round
    <3>1. \A j \in DOMAIN ProbeOrder : j < round.at
      BY <1>0, <2>1, ProbesInOrder
    <3>2. \A j \in DOMAIN ProbeOrder : planned[ProbeOrder[j]] = Some(OfKind(latest.of.targets, ProbeOrder[j]))
      BY <2>1, <3>1 DEF AgreeOK, PlannedOK
    <3>3. \A k \in Kinds : planned[k] = Some(OfKind(latest.of.targets, k))
      BY <3>2, ProbesInOrder
    <3>4. latest.of.targets \subseteq Items
      BY <2>1, LatestParts DEF DiscoveryTypes, RoundOK
    <3>5. view' = Some(latest.of.targets)
      BY <2>3, <3>3, <3>4, ViewOfPlanned
    <3>6. PlannedOK'
      BY <2>1, <3>3, <3>5 DEF PlannedOK
    <3>7. CachedOK' /\ ToldOK' /\ ExportedOK'
      BY <2>1, <2>3 DEF AgreeOK, CachedOK, ToldOK, ExportedOK
    <3> QED
      BY <3>6, <3>7 DEF AgreeOK
  <2> QED
    BY <1>5, <2>2, <2>3 DEF StoreView
<1>6. CASE Report
  <2>1. UNCHANGED <<latest, cache, planned, view, round>> /\ dpc = "report" /\ dpc' = "metrics"
    BY <1>6 DEF Report
  <2>2. dhealth'.failed = {} => round.failed = ""
    BY <1>6 DEF Report, ProbeHealth
  <2> QED
    BY <2>1, <2>2 DEF AgreeOK, CachedOK, PlannedOK, ToldOK, ExportedOK
<1>7. CASE MetricsTick
  <2>1. UNCHANGED <<latest, cache, planned, view, round, dhealth>> /\ dpc = "metrics" /\ dpc' = "export"
    BY <1>7 DEF MetricsTick
  <2> QED
    BY <2>1 DEF AgreeOK, CachedOK, PlannedOK, ToldOK, ExportedOK
<1>8. CASE Export
  <2>1. latest' = latest /\ dhealth' = dhealth /\ dpc = "export" /\ dpc' = "idle"
    BY <1>8 DEF Export
  <2>2. PICK lost : /\ exported' = [c \in Classes |-> IF c \in Exportable \ lost THEN ExportRow(c) ELSE exported[c]]
                    /\ round' = [NoRound EXCEPT !.wrote = Exportable \ lost]
    BY <1>8 DEF Export
  <2>3. round'.wrote = Exportable \ lost /\ Exportable \subseteq Classes
    BY <2>2 DEF NoRound, Exportable
  <2>4. ASSUME dhealth.failed = {}, NEW c \in round'.wrote
        PROVE  exported'[c] = Some([revision |-> latest.of.revision, rows |-> {i \in latest.of.resources : ClassOf[i] = c}])
    <3>1. cache.resources = Some(latest.of.resources) /\ cache.meta = Some(latest.of.revision)
      BY <2>1, <2>4 DEF AgreeOK, ToldOK, CachedOK
    <3>2. /\ cache.resources.of = latest.of.resources /\ cache.meta.of = latest.of.revision /\ Readable(cache.meta)
      BY <3>1 DEF Some, Readable
    <3>3. exported'[c] = ExportRow(c)
      BY <2>2, <2>3, <2>4
    <3> QED
      BY <3>2, <3>3 DEF ExportRow, Rows
  <2> QED
    BY <2>1, <2>4 DEF AgreeOK, CachedOK, PlannedOK, ToldOK, ExportedOK
<1>9. CASE HostChanges
  <2>1. UNCHANGED <<latest, cache, planned, view, round, dhealth, dpc, exported>>
    BY <1>9 DEF HostChanges
  <2> QED
    BY <2>1 DEF AgreeOK, CachedOK, PlannedOK, ToldOK, ExportedOK
<1> QED
  BY <1>1, <1>2, <1>3, <1>4, <1>5, <1>6, <1>7, <1>8, <1>9 DEF DiscoveryNext, DiscoveryStep

LEMMA DiscoverInvHolds == PlaneSpec => []DiscoverInv
<1>1. PlaneInit => DiscoverInv
  BY DiscoveryInvInit DEF PlaneInit, DiscoverInv
<1>2. DiscoverInv /\ [PlaneNext]_planeVars => DiscoverInv'
  <2> SUFFICES ASSUME DiscoverInv, [PlaneNext]_planeVars, part' = "discover" PROVE DiscoveryInv'
    BY DEF DiscoverInv
  <2>1. part = "discover" /\ DiscoveryInv
    BY DEF DiscoverInv, PlaneNext, Discovering, Sending, Telling, planeVars
  <2>2. CASE DiscoveryNext
    BY <2>1, <2>2, DiscoveryTypesStep, VanishStep, AgreeStep DEF DiscoveryInv
  <2>3. CASE UNCHANGED discoveryVars
    <3>1. DiscoveryTypes'
      BY <2>1, <2>3 DEF discoveryVars, DiscoveryInv, DiscoveryTypes, HostOK, OutputsOK, FilesOK, RoundOK
    <3>2. VanishOK'
      BY <2>1, <2>3 DEF discoveryVars, DiscoveryInv, VanishOK, OutputHolds, ProbesOK, Contributed, SnapshotOK
    <3>3. AgreeOK'
      BY <2>1, <2>3 DEF discoveryVars, DiscoveryInv, AgreeOK, CachedOK, PlannedOK, ToldOK, ExportedOK
    <3> QED
      BY <3>1, <3>2, <3>3 DEF DiscoveryInv
  <2> QED
    BY <2>1, <2>2, <2>3 DEF PlaneNext, Discovering, Sending, Telling, planeVars
<1> QED
  BY <1>1, <1>2, PTL DEF PlaneSpec

\* The other two parts have no discovery round.
LEMMA NoRoundElsewhere == PlaneSpec => [](part # "discover" => dpc = "none")
<1>1. PlaneInit => (part # "discover" => dpc = "none")
  BY DEF PlaneInit, DiscoveryIdle
<1>2. (part # "discover" => dpc = "none") /\ [PlaneNext]_planeVars => (part # "discover" => dpc = "none")'
  BY DEF PlaneNext, Discovering, Sending, Telling, planeVars, discoveryVars
<1> QED
  BY <1>1, <1>2, PTL DEF PlaneSpec

\* For any probes, items and host, with any number of failing probes, failing writes, crashes
\* and changes of the host: nothing that stayed on the host leaves the snapshot unsaid.
THEOREM VanishToldHolds == PlaneSpec => []VanishTold
<1>1. DiscoverInv /\ (part # "discover" => dpc = "none") => VanishTold
  BY DEF DiscoverInv, DiscoveryInv, VanishOK, SnapshotOK, VanishTold, Composed, FromResources, FromTargets, FromMeta, FromView
<1> QED
  BY <1>1, DiscoverInvHolds, NoRoundElsewhere, PTL

\* For any probes, items and number of failures: a round that reports none leaves files that
\* tell of one snapshot, and so do the exported files.
THEOREM HealthyRoundAgreesHolds == PlaneSpec => []HealthyRoundAgrees
<1>1. DiscoverInv /\ (part # "discover" => dpc = "none") => HealthyRoundAgrees
  <2> SUFFICES ASSUME DiscoverInv, part # "discover" => dpc = "none" PROVE HealthyRoundAgrees
    OBVIOUS
  <2>1. CASE part = "discover"
    BY <2>1 DEF DiscoverInv, DiscoveryInv, AgreeOK, CachedOK, PlannedOK, ToldOK, ExportedOK, HealthyRoundAgrees,
                FromResources, FromTargets, FromMeta, FromView
  <2>2. CASE part # "discover"
    BY <2>2 DEF HealthyRoundAgrees
  <2> QED
    BY <2>1, <2>2
<1> QED
  BY <1>1, DiscoverInvHolds, NoRoundElsewhere, PTL
-----------------------------------------------------------------------------
(* The telling part: what a tick says of the log inputs.                   *)

\* The failures a tick may have, and the changes it may tell.
RemarkKinds == {"RecordWithheld", "CapacityExceeded", "NoiseDropped", "TruncatedLine", "SelectionFiltered"}
Failures == [kind : RemarkKinds \cup {"MissingInput", "ProcessingFailed", "OutputWriteFailed"}, input : Inputs]
WorkChanges == [input : Inputs, state : {"Paused", "Resumed"}]

\* Where the tick stands and what it holds.
TellTypes ==
    /\ works \subseteq Inputs /\ paused \subseteq Inputs /\ previousPaused \subseteq Inputs
    /\ spool \in [Inputs -> Nat] /\ npc \in {"idle", "input", "batch"} /\ nat \in Nat \ {0}
    /\ npc = "batch" => nat <= Len(InputOrder)
    /\ worked \in BOOLEAN /\ link \in BOOLEAN
    /\ fails \in Seq(Failures) /\ (npc = "idle" => fails = <<>>)
    /\ reports \in [sinkError : BOOLEAN, remarks : SUBSET RemarkKinds]

\* Unless something was lost, what is told and what is pending come to what the last tick found.
ChangesOK ==
    /\ pending \in Seq(WorkChanges) /\ told \subseteq Inputs
    /\ ~unheard => Heard(told, pending) = previousPaused

\* A tick has told of the inputs before the one it is at, of each thing once; the batch before
\* the next one was taken by the output.
SaidOK ==
    /\ OnceEach(fails) /\ ~reports.sinkError
    /\ \A f \in Values(fails) : \E j \in 1..Len(InputOrder) : j < nat /\ f.input = InputOrder[j]

\* An input the tick has left with records in its spool made it an active one.
LeftOK ==
    \/ npc = "idle" \/ IsActive(fails, worked)
    \/ \A j \in 1..Len(InputOrder) : j < nat /\ InputOrder[j] \in works \ Unsupported => spool[InputOrder[j]] = 0

TellInv == TellTypes /\ ChangesOK /\ SaidOK /\ LeftOK

\* The inputs in their order, each once.
LEMMA InputsInOrder ==
  /\ InputOrder \in Seq(Inputs) /\ Len(InputOrder) \in Nat /\ DOMAIN InputOrder = 1..Len(InputOrder)
  /\ Inputs = Values(InputOrder) /\ OnceEach(InputOrder)
<1>1. InputOrder \in Seq(Inputs)
  BY NoticesAssumption
<1>2. Len(InputOrder) \in Nat /\ DOMAIN InputOrder = 1..Len(InputOrder)
  BY <1>1
<1> QED
  BY <1>1, <1>2, NoticesAssumption DEF Inputs, ToSet, Values, OnceEach

\* The inputs of a set, in their order.
LEMMA Picks ==
  ASSUME NEW Q
  PROVE  LET p == At(InputOrder, {k \in DOMAIN InputOrder : InputOrder[k] \in Q})
         IN  p \in Seq(Inputs) /\ Values(p) = Inputs \cap Q /\ OnceEach(p)
<1> DEFINE P == {k \in DOMAIN InputOrder : InputOrder[k] \in Q}
<1>1. /\ At(InputOrder, P) \in Seq(Inputs) /\ OnceEach(At(InputOrder, P))
      /\ Values(At(InputOrder, P)) = {InputOrder[k] : k \in P \cap 1..Len(InputOrder)}
  <2> HIDE DEF P
  <2> QED
    BY InputsInOrder, AtSelects
<1>2. {InputOrder[k] : k \in P \cap 1..Len(InputOrder)} = Inputs \cap Q
  BY InputsInOrder DEF Values
<1> QED
  BY <1>1, <1>2

\* The changes of a tick: who entered, then who left, one change for each.
LEMMA ChangesOf ==
  ASSUME NEW before, NEW now
  PROVE  LET W == WorkStateChanges(before, now)
         IN  /\ W \in Seq(WorkChanges)
             /\ Values(W) = {Change(i, "Paused") : i \in Inputs \cap (now \ before)}
                              \cup {Change(i, "Resumed") : i \in Inputs \cap (before \ now)}
             /\ \A j, k \in 1..Len(W) : W[j].input = W[k].input => j = k
<1> DEFINE entered == At(InputOrder, {k \in DOMAIN InputOrder : InputOrder[k] \in now \ before})
           gone == At(InputOrder, {k \in DOMAIN InputOrder : InputOrder[k] \in before \ now})
           f == [i \in Inputs |-> Change(i, "Paused")]
           g == [i \in Inputs |-> Change(i, "Resumed")]
           p == Mapped(entered, f)
           q == Mapped(gone, g)
           W == WorkStateChanges(before, now)
<1>1. /\ entered \in Seq(Inputs) /\ Values(entered) = Inputs \cap (now \ before) /\ OnceEach(entered)
      /\ gone \in Seq(Inputs) /\ Values(gone) = Inputs \cap (before \ now) /\ OnceEach(gone)
  BY Picks
<1>w. W = [k \in DOMAIN entered |-> Change(entered[k], "Paused")] \o [k \in DOMAIN gone |-> Change(gone[k], "Resumed")]
  BY DEF WorkStateChanges
<1> HIDE DEF entered, gone, W
<1>2. f \in [Inputs -> WorkChanges] /\ g \in [Inputs -> WorkChanges]
  BY DEF Change, WorkChanges
<1>3. /\ \A x, y \in Inputs : f[x] = f[y] => x = y
      /\ \A x, y \in Inputs : g[x] = g[y] => x = y
  BY DEF Change
<1>4. W = p \o q
  <2>1. \A k \in DOMAIN entered : f[entered[k]] = Change(entered[k], "Paused")
    BY <1>1
  <2>2. \A k \in DOMAIN gone : g[gone[k]] = Change(gone[k], "Resumed")
    BY <1>1
  <2>3. p = [k \in DOMAIN entered |-> Change(entered[k], "Paused")]
    BY <2>1 DEF Mapped
  <2>4. q = [k \in DOMAIN gone |-> Change(gone[k], "Resumed")]
    BY <2>2 DEF Mapped
  <2> QED
    BY <1>w, <2>3, <2>4
<1>f. \A i \in Inputs : f[i] = Change(i, "Paused") /\ g[i] = Change(i, "Resumed")
  OBVIOUS
<1> HIDE DEF f, g
<1>5. /\ p \in Seq(WorkChanges) /\ Values(p) = {f[x] : x \in Values(entered)} /\ OnceEach(p)
  <2>1. entered \in Seq(Inputs) /\ f \in [Inputs -> WorkChanges] /\ OnceEach(entered) /\ \A x, y \in Inputs : f[x] = f[y] => x = y
    BY <1>1, <1>2, <1>3
  <2>2. /\ p \in Seq(WorkChanges) /\ Values(p) = {f[x] : x \in Values(entered)}
        /\ OnceEach(entered) /\ (\A x, y \in Inputs : f[x] = f[y] => x = y) => OnceEach(p)
    BY <2>1, MapValues
  <2> QED
    BY <2>1, <2>2
<1>6. /\ q \in Seq(WorkChanges) /\ Values(q) = {g[x] : x \in Values(gone)} /\ OnceEach(q)
  <2>1. gone \in Seq(Inputs) /\ g \in [Inputs -> WorkChanges] /\ OnceEach(gone) /\ \A x, y \in Inputs : g[x] = g[y] => x = y
    BY <1>1, <1>2, <1>3
  <2>2. /\ q \in Seq(WorkChanges) /\ Values(q) = {g[x] : x \in Values(gone)}
        /\ OnceEach(gone) /\ (\A x, y \in Inputs : g[x] = g[y] => x = y) => OnceEach(q)
    BY <2>1, MapValues
  <2> QED
    BY <2>1, <2>2
<1> HIDE DEF p, q
<1>7. /\ Values(p) = {Change(i, "Paused") : i \in Inputs \cap (now \ before)}
      /\ Values(q) = {Change(i, "Resumed") : i \in Inputs \cap (before \ now)}
  BY <1>1, <1>5, <1>6, <1>f
<1>8. Values(p) \cap Values(q) = {}
  BY <1>7 DEF Change
<1>9. W \in Seq(WorkChanges) /\ Values(W) = Values(p) \cup Values(q) /\ OnceEach(W)
  BY <1>4, <1>5, <1>6, <1>8, ConcatValues
<1>10. ASSUME NEW j \in 1..Len(W), NEW k \in 1..Len(W), W[j].input = W[k].input PROVE j = k
  <2>1. W[j] \in Values(W) /\ W[k] \in Values(W)
    BY DEF Values
  <2>2. \A c, d \in Values(W) : c.input = d.input => c = d
    BY <1>7, <1>9 DEF Change
  <2> QED
    BY <1>9, <1>10, <2>1, <2>2 DEF OnceEach
<1> QED
  BY <1>7, <1>9, <1>10 DEF W

\* What the control plane holds after the changes of a tick is what the tick found.
LEMMA HeardAll ==
  ASSUME NEW seen, NEW cs \in Seq(WorkChanges), NEW now, now \subseteq Inputs
  PROVE  /\ cs \o WorkStateChanges(Heard(seen, cs), now) \in Seq(WorkChanges)
         /\ Heard(seen, cs \o WorkStateChanges(Heard(seen, cs), now)) = now
<1> DEFINE before == Heard(seen, cs)
           W == WorkStateChanges(before, now)
           u == cs \o W
           m == Len(cs)
           n == Len(W)
<1>1. /\ W \in Seq(WorkChanges)
      /\ Values(W) = {Change(i, "Paused") : i \in Inputs \cap (now \ before)}
                       \cup {Change(i, "Resumed") : i \in Inputs \cap (before \ now)}
      /\ \A j, k \in 1..n : W[j].input = W[k].input => j = k
  BY ChangesOf
<1> HIDE DEF before, W
<1>2. /\ u \in Seq(WorkChanges) /\ m \in Nat /\ n \in Nat /\ Len(u) = m + n /\ DOMAIN u = 1..(m + n) /\ DOMAIN cs = 1..m
      /\ \A k \in 1..m : u[k] = cs[k] /\ k \in 1..(m + n)
  BY <1>1
<1>3. \A k \in 1..n : u[m + k] = W[k] /\ m + k \in 1..(m + n)
  BY <1>1
<1>4. ASSUME NEW k \in 1..(m + n) PROVE k \in 1..m \/ \E j \in 1..n : k = m + j
  <2>1. CASE k > m
    <3>1. k - m \in 1..n /\ k = m + (k - m)
      BY <1>2, <2>1
    <3> QED
      BY <3>1
  <2> QED
    BY <1>2, <2>1
<1>v. \A k \in 1..n : W[k] \in Values(W)
  BY DEF Values
<1>x. \A c \in Values(W) : \E k \in 1..n : W[k] = c
  BY DEF Values
<1> HIDE DEF u, m, n
<1>5. ASSUME NEW i \in Inputs PROVE i \in Heard(seen, u) <=> i \in now
  <2>0. /\ i \in Heard(seen, u) <=>
             \/ i \in seen /\ \A k \in 1..(m + n) : u[k].input # i
             \/ \E k \in 1..(m + n) : u[k] = Change(i, "Paused") /\ \A j \in 1..(m + n) : j > k => u[j].input # i
        /\ i \in before <=>
             \/ i \in seen /\ \A k \in 1..m : cs[k].input # i
             \/ \E k \in 1..m : cs[k] = Change(i, "Paused") /\ \A j \in 1..m : j > k => cs[j].input # i
    BY <1>2 DEF Heard, before
  <2>1. CASE i \in now \ before
    <3>1. PICK k \in 1..n : W[k] = Change(i, "Paused")
      BY <1>1, <1>x, <2>1
    <3>2. ASSUME NEW j \in 1..(m + n), j > m + k PROVE u[j].input # i
      <4>1. PICK y \in 1..n : j = m + y
        BY <1>2, <1>4, <3>2
      <4>2. y # k
        BY <3>2, <4>1, <1>2
      <4> QED
        BY <1>1, <1>3, <3>1, <4>1, <4>2 DEF Change
    <3> QED
      BY <1>3, <2>0, <2>1, <3>1, <3>2
  <2>2. CASE i \in before \ now
    <3>1. PICK k \in 1..n : W[k] = Change(i, "Resumed")
      BY <1>1, <1>x, <2>2
    <3>2. u[m + k].input = i /\ m + k \in 1..(m + n)
      BY <1>3, <3>1 DEF Change
    <3>3. ASSUME NEW x \in 1..(m + n), u[x] = Change(i, "Paused"), \A j \in 1..(m + n) : j > x => u[j].input # i PROVE FALSE
      <4>1. ~(m + k > x)
        BY <3>2, <3>3
      <4>2. PICK y \in 1..n : x = m + y
        BY <1>2, <1>4, <4>1
      <4>3. W[y] = Change(i, "Paused")
        BY <1>3, <3>3, <4>2
      <4>4. y = k
        BY <1>1, <3>1, <4>3 DEF Change
      <4> QED
        BY <3>1, <4>3, <4>4 DEF Change
    <3> QED
      BY <2>0, <2>2, <3>2, <3>3
  <2>3. CASE i \notin now \ before /\ i \notin before \ now
    <3>1. \A k \in 1..n : W[k].input # i
      BY <1>1, <1>v, <2>3 DEF Change
    <3>2. \A j \in 1..(m + n) : j \notin 1..m => u[j].input # i /\ u[j] # Change(i, "Paused")
      <4> SUFFICES ASSUME NEW j \in 1..(m + n), j \notin 1..m PROVE u[j].input # i /\ u[j] # Change(i, "Paused")
        OBVIOUS
      <4>1. PICK y \in 1..n : j = m + y
        BY <1>4
      <4>2. u[j].input # i
        BY <1>3, <3>1, <4>1
      <4> QED
        BY <4>2 DEF Change
    <3>3. \A j \in 1..m : j \in 1..(m + n) /\ u[j] = cs[j]
      BY <1>2
    <3>4. (\A k \in 1..(m + n) : u[k].input # i) <=> (\A k \in 1..m : cs[k].input # i)
      BY <3>2, <3>3
    <3>5. (\E k \in 1..(m + n) : u[k] = Change(i, "Paused") /\ \A j \in 1..(m + n) : j > k => u[j].input # i)
            <=> (\E k \in 1..m : cs[k] = Change(i, "Paused") /\ \A j \in 1..m : j > k => cs[j].input # i)
      BY <3>2, <3>3
    <3> QED
      BY <2>0, <2>3, <3>4, <3>5
  <2> QED
    BY <2>1, <2>2, <2>3
<1>6. Heard(seen, u) \subseteq Inputs
  BY DEF Heard
<1>7. Heard(seen, u) = now
  BY <1>5, <1>6
<1> QED
  BY <1>2, <1>7 DEF u, W, before

\* Nothing reported.
LEMMA NoReportsType == NoReports \in [sinkError : BOOLEAN, remarks : SUBSET RemarkKinds] /\ <<>> \in Seq(Failures)
  BY DEF NoReports

\* Initially nothing is told.
LEMMA TellInvInit == NoticesInit => TellInv
<1> SUFFICES ASSUME NoticesInit PROVE TellInv
  OBVIOUS
<1>1. TellTypes
  <2>1. spool \in [Inputs -> Nat]
    BY DEF NoticesInit
  <2>2. works \subseteq Inputs /\ paused \subseteq Inputs /\ previousPaused \subseteq Inputs
    BY DEF NoticesInit
  <2>3. npc = "idle" /\ nat = 1 /\ worked = FALSE /\ link = TRUE /\ fails = <<>> /\ reports = NoReports
    BY DEF NoticesInit
  <2>4. worked \in BOOLEAN /\ link \in BOOLEAN
    BY <2>3
  <2>5. nat \in Nat \ {0} /\ npc \in {"idle", "input", "batch"} /\ (npc = "batch" => nat <= Len(InputOrder))
    BY <2>3
  <2>6. fails \in Seq(Failures) /\ (npc = "idle" => fails = <<>>) /\ reports \in [sinkError : BOOLEAN, remarks : SUBSET RemarkKinds]
    BY <2>3, NoReportsType
  <2> QED
    BY <2>1, <2>2, <2>4, <2>5, <2>6 DEF TellTypes
<1>2. ChangesOK
  BY DEF NoticesInit, ChangesOK, Heard
<1>3. SaidOK
  BY DEF NoticesInit, SaidOK, NoReports, OnceEach, Values
<1>4. LeftOK
  BY DEF NoticesInit, LeftOK
<1> QED
  BY <1>1, <1>2, <1>3, <1>4 DEF TellInv

\* Steps that leave the tick and what is told alone.
LEMMA AsideTells ==
  ASSUME TellInv, UNCHANGED <<works, spool, npc, nat, reports, fails, paused, worked, previousPaused, pending, told, unheard>>, link' \in BOOLEAN
  PROVE  TellInv'
<1>1. TellTypes'
  BY DEF TellInv, TellTypes
<1>2. ChangesOK'
  BY DEF TellInv, ChangesOK, Heard
<1>3. SaidOK'
  BY DEF TellInv, SaidOK
<1>4. LeftOK'
  BY DEF TellInv, LeftOK, IsActive
<1> QED
  BY <1>1, <1>2, <1>3, <1>4 DEF TellInv

\* A tick that ends leaves nothing behind of what it held.
LEMMA TickEnds ==
  ASSUME TellInv, npc' = "idle", nat' = 1, reports' = NoReports, fails' = <<>>, paused' = {}, worked' = FALSE,
         UNCHANGED <<works, spool, link>>, previousPaused' \subseteq Inputs, ChangesOK'
  PROVE  TellInv'
<1>1. TellTypes'
  <2>1. works \subseteq Inputs /\ spool \in [Inputs -> Nat] /\ link \in BOOLEAN
    BY DEF TellInv, TellTypes
  <2>2. worked' \in BOOLEAN /\ link' \in BOOLEAN
    BY <2>1
  <2>3. nat' \in Nat \ {0} /\ npc' \in {"idle", "input", "batch"} /\ (npc' = "batch" => nat' <= Len(InputOrder))
    OBVIOUS
  <2>4. fails' \in Seq(Failures) /\ (npc' = "idle" => fails' = <<>>) /\ reports' \in [sinkError : BOOLEAN, remarks : SUBSET RemarkKinds]
    BY NoReportsType
  <2>5. works' \subseteq Inputs /\ paused' \subseteq Inputs /\ previousPaused' \subseteq Inputs /\ spool' \in [Inputs -> Nat]
    BY <2>1
  <2> QED
    BY <2>2, <2>3, <2>4, <2>5 DEF TellTypes
<1>2. SaidOK'
  BY DEF SaidOK, NoReports, OnceEach, Values
<1>3. LeftOK'
  BY DEF LeftOK
<1> QED
  BY <1>1, <1>2, <1>3 DEF TellInv

\* The differences of a tick bring what is told and pending to what it found.
LEMMA Differs ==
  ASSUME TellInv, NEW ps, ps \subseteq Inputs, DiffPaused(ps), UNCHANGED <<told, unheard>>
  PROVE  ChangesOK' /\ previousPaused' = ps
<1>1. pending' = pending \o WorkStateChanges(previousPaused, ps) /\ previousPaused' = ps
  BY DEF DiffPaused, EmitChanges
<1>2. pending \in Seq(WorkChanges) /\ (~unheard => Heard(told, pending) = previousPaused)
  BY DEF TellInv, ChangesOK
<1>3. WorkStateChanges(previousPaused, ps) \in Seq(WorkChanges)
  BY ChangesOf
<1>4. pending' \in Seq(WorkChanges)
  BY <1>1, <1>2, <1>3, ConcatValues
<1>5. ASSUME ~unheard PROVE Heard(told, pending') = ps
  <2>1. Heard(told, pending \o WorkStateChanges(Heard(told, pending), ps)) = ps
    BY <1>2, HeardAll
  <2> QED
    BY <1>1, <1>2, <1>5, <2>1
<1>6. Heard(told, pending)' = Heard(told, pending')
  BY DEF Heard
<1>7. told' \subseteq Inputs
  BY DEF TellInv, ChangesOK
<1> QED
  BY <1>1, <1>4, <1>5, <1>6, <1>7 DEF ChangesOK

\* The steps between the inputs of a tick and between ticks.
LEMMA LoopTells ==
  ASSUME TellInv, \/ Standby \/ InvalidOutput \/ BeginInputs \/ EndInputs \/ ReportSent \/ ReportFails
                  \/ LinesArrive \/ FileMoves \/ LinkDrops \/ LinkReturns \/ GrantsChange \/ NoticeCrash
  PROVE  TellInv'
<1>1. CASE Standby
  <2>1. /\ npc' = "idle" /\ nat' = 1 /\ reports' = NoReports /\ fails' = <<>> /\ paused' = {} /\ worked' = FALSE
        /\ UNCHANGED <<works, spool, link, previousPaused, pending, told, unheard>>
    BY <1>1 DEF Standby, Conclude, grantVars, sourceVars, gateVars
  <2>2. ChangesOK'
    BY <2>1 DEF TellInv, ChangesOK, Heard
  <2>3. previousPaused' \subseteq Inputs
    BY <2>1 DEF TellInv, TellTypes
  <2> QED
    BY <2>1, <2>2, <2>3, TickEnds
<1>2. CASE InvalidOutput
  <2>1. /\ npc' = "idle" /\ nat' = 1 /\ reports' = NoReports /\ fails' = <<>> /\ paused' = {} /\ worked' = FALSE
        /\ UNCHANGED <<works, spool, link, told, unheard>> /\ DiffPaused({})
    BY <1>2 DEF InvalidOutput, Conclude, grantVars, sourceVars, gateVars
  <2>2. {} \subseteq Inputs
    OBVIOUS
  <2>3. ChangesOK' /\ previousPaused' = {}
    BY <2>1, <2>2, Differs
  <2> QED
    BY <2>1, <2>3, TickEnds
<1>3. CASE EndInputs
  <2>1. /\ npc' = "idle" /\ nat' = 1 /\ reports' = NoReports /\ fails' = <<>> /\ paused' = {} /\ worked' = FALSE
        /\ UNCHANGED <<works, spool, link, told, unheard>> /\ DiffPaused(paused)
    BY <1>3 DEF EndInputs, Conclude, grantVars, sourceVars, gateVars
  <2>2. paused \subseteq Inputs
    BY DEF TellInv, TellTypes
  <2>3. ChangesOK' /\ previousPaused' = paused
    BY <2>1, <2>2, Differs
  <2> QED
    BY <2>1, <2>2, <2>3, TickEnds
<1>4. CASE BeginInputs
  <2>1. /\ npc = "idle" /\ npc' = "input" /\ nat' = 1
        /\ UNCHANGED <<works, spool, link, reports, fails, paused, worked, previousPaused, pending, told, unheard>>
    BY <1>4 DEF BeginInputs, grantVars, sourceVars, gateVars
  <2>2. TellTypes' /\ fails = <<>>
    BY <2>1 DEF TellInv, TellTypes
  <2>3. ChangesOK'
    BY <2>1 DEF TellInv, ChangesOK, Heard
  <2>4. SaidOK'
    BY <2>1, <2>2 DEF TellInv, SaidOK, Values
  <2>5. LeftOK'
    BY <2>1, InputsInOrder DEF LeftOK
  <2> QED
    BY <2>2, <2>3, <2>4, <2>5 DEF TellInv
<1>5. CASE ReportSent
  <2>1. /\ npc = "idle" /\ pending' = <<>> /\ told' = Heard(told, pending)
        /\ UNCHANGED <<works, spool, link, npc, nat, reports, fails, paused, worked, previousPaused, unheard>>
    BY <1>5 DEF ReportSent, grantVars, sourceVars, tickVars
  <2>2. Heard(told, pending)' = told' /\ told' \subseteq Inputs
    <3>1. told' \subseteq Inputs
      BY <2>1 DEF Heard
    <3> QED
      BY <2>1, <3>1 DEF Heard
  <2>3. ChangesOK'
    BY <2>1, <2>2 DEF TellInv, ChangesOK
  <2>4. TellTypes' /\ SaidOK' /\ LeftOK'
    BY <2>1 DEF TellInv, TellTypes, SaidOK, LeftOK
  <2> QED
    BY <2>3, <2>4 DEF TellInv
<1>6. CASE ReportFails
  <2>1. /\ npc = "idle" /\ pending' = <<>> /\ unheard' = TRUE
        /\ UNCHANGED <<works, spool, link, npc, nat, reports, fails, paused, worked, previousPaused, told>>
    BY <1>6 DEF ReportFails, grantVars, sourceVars, tickVars
  <2>2. ChangesOK'
    BY <2>1 DEF TellInv, ChangesOK
  <2>3. TellTypes' /\ SaidOK' /\ LeftOK'
    BY <2>1 DEF TellInv, TellTypes, SaidOK, LeftOK
  <2> QED
    BY <2>2, <2>3 DEF TellInv
<1>7. CASE LinesArrive \/ FileMoves \/ LinkDrops \/ LinkReturns
  <2>1. link \in BOOLEAN
    BY DEF TellInv, TellTypes
  <2>2. /\ link' \in BOOLEAN
        /\ UNCHANGED <<works, spool, npc, nat, reports, fails, paused, worked, previousPaused, pending, told, unheard>>
    BY <1>7, <2>1 DEF LinesArrive, FileMoves, LinkDrops, LinkReturns, grantVars, tickVars, memoryVars, gateVars
  <2> QED
    BY <2>2, AsideTells
<1>8. CASE GrantsChange
  <2>1. /\ npc = "idle"
        /\ UNCHANGED <<spool, link, npc, nat, reports, fails, paused, worked, previousPaused, pending, told, unheard>>
    BY <1>8 DEF GrantsChange, sourceVars, tickVars, memoryVars, gateVars
  <2>2. works' \subseteq Inputs
    BY <1>8 DEF GrantsChange, TellInv, TellTypes
  <2>3. TellTypes' /\ SaidOK' /\ LeftOK'
    BY <2>1, <2>2 DEF TellInv, TellTypes, SaidOK, LeftOK
  <2>4. ChangesOK'
    BY <2>1 DEF TellInv, ChangesOK, Heard
  <2> QED
    BY <2>3, <2>4 DEF TellInv
<1>9. CASE NoticeCrash
  <2>1. /\ npc' = "idle" /\ nat' = 1 /\ reports' = NoReports /\ fails' = <<>> /\ paused' = {} /\ worked' = FALSE
        /\ UNCHANGED <<works, spool, link, told>> /\ pending' = <<>> /\ previousPaused' = {} /\ unheard' = TRUE
    BY <1>9 DEF NoticeCrash, grantVars, sourceVars
  <2>2. ChangesOK'
    BY <2>1 DEF TellInv, ChangesOK
  <2> QED
    BY <2>1, <2>2, TickEnds
<1> QED
  BY <1>1, <1>2, <1>3, <1>4, <1>5, <1>6, <1>7, <1>8, <1>9

\* A tick is active when it did something or has a failure that counts.
Counts(f) == f.kind \notin {"NoiseDropped", "SelectionFiltered"}
LEMMA ActiveByValues ==
  ASSUME NEW fs \in Seq(Failures), NEW did \in BOOLEAN
  PROVE  IsActive(fs, did) <=> did \/ \E f \in Values(fs) : Counts(f)
<1>1. DOMAIN fs = 1..Len(fs)
  OBVIOUS
<1> QED
  BY <1>1 DEF IsActive, Values, Counts

\* A failure of the input at hand.
LEMMA OneFailure ==
  ASSUME NEW kind \in RemarkKinds \cup {"MissingInput", "ProcessingFailed", "OutputWriteFailed"}, NEW i \in Inputs
  PROVE  /\ Failure(kind, i) \in Failures /\ Failure(kind, i).kind = kind /\ Failure(kind, i).input = i
         /\ <<Failure(kind, i)>> \in Seq(Failures) /\ Values(<<Failure(kind, i)>>) = {Failure(kind, i)}
         /\ OnceEach(<<Failure(kind, i)>>)
<1>1. Failure(kind, i) \in Failures /\ Failure(kind, i).kind = kind /\ Failure(kind, i).input = i
  BY DEF Failure, Failures
<1>2. PICK f \in Failures : f = Failure(kind, i)
  BY <1>1
<1>3. <<f>> \in Seq(Failures) /\ Len(<<f>>) = 1 /\ <<f>>[1] = f /\ \A k : k \in 1..1 <=> k = 1
  OBVIOUS
<1>4. Values(<<f>>) = {f} /\ OnceEach(<<f>>)
  BY <1>3 DEF Values, OnceEach
<1> QED
  BY <1>1, <1>2, <1>3, <1>4

\* What an input remarked is told once for each kind, and a failed output once.
LEMMA PushTells ==
  ASSUME NEW r \in [sinkError : BOOLEAN, remarks : SUBSET RemarkKinds], Input \in Inputs
  PROVE  /\ Push(r) \in Seq(Failures) /\ OnceEach(Push(r))
         /\ \A f \in Values(Push(r)) : f.input = Input /\ (f.kind \in RemarkKinds \/ (f.kind = "OutputWriteFailed" /\ r.sinkError))
         /\ r.sinkError => Failure("OutputWriteFailed", Input) \in Values(Push(r))
<1> DEFINE p == At(RemarkOrder, {k \in DOMAIN RemarkOrder : RemarkOrder[k] \in r.remarks})
           g == [x \in RemarkKinds |-> Failure(x, Input)]
           q == Mapped(p, g)
           last == IF r.sinkError THEN <<Failure("OutputWriteFailed", Input)>> ELSE <<>>
<1>1. RemarkOrder \in Seq(RemarkKinds) /\ OnceEach(RemarkOrder)
  BY NoticesAssumption DEF RemarkKinds, OnceEach
<1>2. p \in Seq(RemarkKinds) /\ OnceEach(p)
  BY <1>1, AtSelects
<1>3. Push(r) = [k \in DOMAIN p |-> Failure(p[k], Input)] \o last
  BY DEF Push, RemarkFailures
<1> HIDE DEF p
<1>4. g \in [RemarkKinds -> Failures] /\ \A x \in RemarkKinds : g[x] = Failure(x, Input)
  <2>1. \A x \in RemarkKinds : Failure(x, Input) \in Failures
    BY DEF Failure, Failures
  <2> QED
    BY <2>1
<1>5. \A x, y \in RemarkKinds : g[x] = g[y] => x = y
  BY <1>4 DEF Failure
<1>6. q = [k \in DOMAIN p |-> Failure(p[k], Input)]
  <2>1. \A k \in DOMAIN p : g[p[k]] = Failure(p[k], Input)
    BY <1>2, <1>4
  <2> QED
    BY <2>1 DEF Mapped
<1> HIDE DEF g
<1>7. q \in Seq(Failures) /\ Values(q) = {g[x] : x \in Values(p)} /\ OnceEach(q)
  <2>1. /\ q \in Seq(Failures) /\ Values(q) = {g[x] : x \in Values(p)}
        /\ OnceEach(p) /\ (\A x, y \in RemarkKinds : g[x] = g[y] => x = y) => OnceEach(q)
    BY <1>2, <1>4, MapValues
  <2> QED
    BY <1>2, <1>5, <2>1
<1>8. \A f \in Values(q) : f.input = Input /\ f.kind \in RemarkKinds
  <2>1. Values(p) \subseteq RemarkKinds
    BY <1>2 DEF Values
  <2> QED
    BY <1>4, <1>7, <2>1 DEF Failure
<1>9. /\ last \in Seq(Failures) /\ OnceEach(last)
      /\ \A f \in Values(last) : r.sinkError /\ f = Failure("OutputWriteFailed", Input)
      /\ r.sinkError => Failure("OutputWriteFailed", Input) \in Values(last)
  <2>1. CASE r.sinkError
    BY <2>1, OneFailure
  <2>2. CASE ~r.sinkError
    BY <2>2 DEF Values, OnceEach
  <2> QED
    BY <2>1, <2>2
<1> HIDE DEF q, last
<1>10. /\ Failure("OutputWriteFailed", Input).kind = "OutputWriteFailed" /\ "OutputWriteFailed" \notin RemarkKinds
       /\ Failure("OutputWriteFailed", Input).input = Input
  BY DEF Failure, RemarkKinds
<1>11. Values(q) \cap Values(last) = {}
  BY <1>8, <1>9, <1>10
<1>12. /\ q \o last \in Seq(Failures) /\ Values(q \o last) = Values(q) \cup Values(last)
       /\ OnceEach(q \o last)
  BY <1>7, <1>9, <1>11, ConcatValues
<1>13. Push(r) = q \o last
  BY <1>3, <1>6
<1>14. ASSUME NEW f \in Values(Push(r))
       PROVE  f.input = Input /\ (f.kind \in RemarkKinds \/ (f.kind = "OutputWriteFailed" /\ r.sinkError))
  <2>1. f \in Values(q) \/ f \in Values(last)
    BY <1>12, <1>13, <1>14
  <2>2. CASE f \in Values(q)
    BY <1>8, <2>2
  <2>3. CASE f \in Values(last)
    <3>1. r.sinkError /\ f = Failure("OutputWriteFailed", Input)
      BY <1>9, <2>3
    <3> QED
      BY <1>10, <3>1
  <2> QED
    BY <2>1, <2>2, <2>3
<1>15. Push(r) \in Seq(Failures) /\ OnceEach(Push(r))
  BY <1>12, <1>13
<1>16. r.sinkError => Failure("OutputWriteFailed", Input) \in Values(Push(r))
  BY <1>9, <1>12, <1>13
<1> QED
  BY <1>14, <1>15, <1>16

\* The input at hand, and what was told before it.
LEMMA AtHand ==
  ASSUME TellInv, nat <= Len(InputOrder)
  PROVE  /\ nat \in 1..Len(InputOrder) /\ Input = InputOrder[nat] /\ Input \in Inputs
         /\ \A f \in Values(fails) : f.input # Input
         /\ \A j \in 1..Len(InputOrder) : j # nat => InputOrder[j] # Input
<1>1. nat \in 1..Len(InputOrder)
  BY InputsInOrder DEF TellInv, TellTypes
<1>2. Input = InputOrder[nat]
  BY DEF Input
<1>3. Input \in Inputs
  BY <1>1, <1>2, InputsInOrder DEF Values
<1>4. \A j \in 1..Len(InputOrder) : j # nat => InputOrder[j] # Input
  BY <1>1, <1>2, InputsInOrder DEF OnceEach
<1>5. \A j \in 1..Len(InputOrder) : j < nat => j # nat
  BY <1>1
<1>6. \A f \in Values(fails) : f.input # Input
  BY <1>4, <1>5 DEF TellInv, SaidOK
<1> QED
  BY <1>1, <1>2, <1>3, <1>4, <1>6

\* The tick tells of the input at hand and goes on to the next.
LEMMA TellsMore ==
  ASSUME TellInv, nat <= Len(InputOrder), Forward,
         NEW new \in Seq(Failures), OnceEach(new), \A f \in Values(new) : f.input = Input, fails' = fails \o new
  PROVE  SaidOK' /\ fails' \in Seq(Failures) /\ Values(fails') = Values(fails) \cup Values(new)
<1>1. nat' = nat + 1 /\ reports' = NoReports /\ nat \in 1..Len(InputOrder) /\ Input = InputOrder[nat]
  BY AtHand DEF Forward
<1>2. \A f \in Values(fails) : f.input # Input
  BY AtHand
<1>3. fails \in Seq(Failures) /\ OnceEach(fails)
  BY DEF TellInv, TellTypes, SaidOK
<1>4. Values(fails) \cap Values(new) = {}
  BY <1>2
<1>5. fails' \in Seq(Failures) /\ Values(fails') = Values(fails) \cup Values(new) /\ OnceEach(fails')
  BY <1>3, <1>4, ConcatValues
<1>6. \A f \in Values(fails') : \E j \in 1..Len(InputOrder) : j < nat' /\ f.input = InputOrder[j]
  <2>1. \A f \in Values(fails) : \E j \in 1..Len(InputOrder) : j < nat' /\ f.input = InputOrder[j]
    BY <1>1 DEF TellInv, SaidOK
  <2>2. \A f \in Values(new) : nat \in 1..Len(InputOrder) /\ nat < nat' /\ f.input = InputOrder[nat]
    BY <1>1
  <2> QED
    BY <1>5, <2>1, <2>2
<1>7. ~reports'.sinkError
  BY <1>1 DEF NoReports
<1>8. SaidOK'
  BY <1>5, <1>6, <1>7 DEF SaidOK
<1> QED
  BY <1>5, <1>8

\* The tick leaves an input: with records in its spool it is active.
LEMMA LeavesInput ==
  ASSUME TellInv, nat <= Len(InputOrder), npc # "idle", Forward, UNCHANGED works,
         fails' \in Seq(Failures), Values(fails) \subseteq Values(fails'),
         worked' \in BOOLEAN, worked => worked',
         spool' \in [Inputs -> Nat], \A i \in Inputs : i # Input => spool'[i] = spool[i],
         \/ Input \notin works \ Unsupported \/ spool'[Input] = 0 \/ worked' \/ \E f \in Values(fails') : Counts(f)
  PROVE  LeftOK'
<1>1. /\ nat' = nat + 1 /\ nat \in 1..Len(InputOrder) /\ Input = InputOrder[nat] /\ Input \in Inputs
      /\ \A j \in 1..Len(InputOrder) : j # nat => InputOrder[j] # Input
  BY AtHand DEF Forward
<1>2. fails \in Seq(Failures) /\ worked \in BOOLEAN
  BY DEF TellInv, TellTypes
<1>3. /\ IsActive(fails, worked) <=> worked \/ \E f \in Values(fails) : Counts(f)
      /\ IsActive(fails', worked') <=> worked' \/ \E f \in Values(fails') : Counts(f)
  BY <1>2, ActiveByValues
<1>4. IsActive(fails, worked) => IsActive(fails', worked')
  BY <1>3
<1>5. IsActive(fails, worked)' <=> IsActive(fails', worked')
  BY DEF IsActive
<1>6. CASE IsActive(fails', worked')
  BY <1>5, <1>6 DEF LeftOK
<1>7. CASE ~IsActive(fails', worked')
  <2>1. \A j \in 1..Len(InputOrder) : j < nat /\ InputOrder[j] \in works \ Unsupported => spool[InputOrder[j]] = 0
    BY <1>4, <1>7 DEF TellInv, LeftOK
  <2>2. Input \notin works \ Unsupported \/ spool'[Input] = 0
    BY <1>3, <1>7
  <2>3. ASSUME NEW j \in 1..Len(InputOrder), j < nat', InputOrder[j] \in works \ Unsupported PROVE spool'[InputOrder[j]] = 0
    <3>1. CASE j = nat
      BY <1>1, <2>2, <2>3, <3>1
    <3>2. CASE j # nat
      <4>1. j < nat /\ InputOrder[j] # Input /\ InputOrder[j] \in Inputs
        BY <1>1, <2>3, <3>2, InputsInOrder DEF Values
      <4> QED
        BY <2>1, <2>3, <4>1
    <3> QED
      BY <3>1, <3>2
  <2> QED
    BY <2>3 DEF LeftOK
<1> QED
  BY <1>6, <1>7

\* The tick tells new failures of the input at hand and goes on: what holds between inputs holds again.
LEMMA GoesOn ==
  ASSUME TellInv, nat <= Len(InputOrder), npc # "idle", Forward,
         UNCHANGED <<works, link, previousPaused, pending, told, unheard>>,
         paused' \subseteq Inputs, worked' \in BOOLEAN, worked => worked',
         spool' \in [Inputs -> Nat], \A i \in Inputs : i # Input => spool'[i] = spool[i],
         NEW new \in Seq(Failures), OnceEach(new), \A f \in Values(new) : f.input = Input, fails' = fails \o new,
         \/ Input \notin works \ Unsupported \/ spool'[Input] = 0 \/ worked' \/ \E f \in Values(new) : Counts(f)
  PROVE  TellInv'
<1>1. SaidOK' /\ fails' \in Seq(Failures) /\ Values(fails') = Values(fails) \cup Values(new)
  BY TellsMore
<1>2. Values(fails) \subseteq Values(fails')
  BY <1>1
<1>3. \/ Input \notin works \ Unsupported \/ spool'[Input] = 0 \/ worked' \/ \E f \in Values(fails') : Counts(f)
  BY <1>1
<1>4. LeftOK'
  BY <1>1, <1>2, <1>3, LeavesInput
<1>5. ChangesOK'
  BY DEF TellInv, ChangesOK, Heard
<1>6. npc' = "input" /\ nat' = nat + 1 /\ reports' = NoReports
  BY DEF Forward
<1>7. TellTypes'
  <2>1. works \subseteq Inputs /\ link \in BOOLEAN /\ nat \in Nat \ {0} /\ previousPaused \subseteq Inputs
    BY DEF TellInv, TellTypes
  <2>2. worked' \in BOOLEAN /\ link' \in BOOLEAN
    BY <2>1
  <2>3. nat' \in Nat \ {0} /\ npc' \in {"idle", "input", "batch"} /\ (npc' = "batch" => nat' <= Len(InputOrder))
    BY <1>6, <2>1
  <2>4. fails' \in Seq(Failures) /\ (npc' = "idle" => fails' = <<>>) /\ reports' \in [sinkError : BOOLEAN, remarks : SUBSET RemarkKinds]
    BY <1>1, <1>6, NoReportsType
  <2>5. works' \subseteq Inputs /\ paused' \subseteq Inputs /\ previousPaused' \subseteq Inputs /\ spool' \in [Inputs -> Nat]
    BY <2>1
  <2> QED
    BY <2>2, <2>3, <2>4, <2>5 DEF TellTypes
<1> QED
  BY <1>1, <1>4, <1>5, <1>7 DEF TellInv

\* Where a tick may be when it works on an input.
LEMMA AtWork ==
  ASSUME TellInv, AtInput \/ Reading
  PROVE  /\ nat <= Len(InputOrder) /\ npc # "idle" /\ Input \in Inputs
         /\ spool \in [Inputs -> Nat] /\ worked \in BOOLEAN /\ paused \subseteq Inputs
         /\ reports \in [sinkError : BOOLEAN, remarks : SUBSET RemarkKinds] /\ ~reports.sinkError
<1>1. nat <= Len(InputOrder) /\ npc # "idle"
  BY DEF AtInput, Reading, TellInv, TellTypes
<1>2. Input \in Inputs
  BY <1>1, AtHand
<1>3. worked \in BOOLEAN
  BY DEF TellInv, TellTypes
<1>4. /\ spool \in [Inputs -> Nat] /\ paused \subseteq Inputs
      /\ reports \in [sinkError : BOOLEAN, remarks : SUBSET RemarkKinds] /\ ~reports.sinkError
  BY DEF TellInv, TellTypes, SaidOK
<1> QED
  BY <1>1, <1>2, <1>3, <1>4

\* A failure that ends an input, and what its earlier batches remarked.
LEMMA EndsTold ==
  ASSUME TellInv, Reading, NEW kind \in {"OutputWriteFailed", "ProcessingFailed"}, EndsWith(kind),
         UNCHANGED <<works, spool, link, paused, worked, previousPaused, pending, told, unheard>>
  PROVE  TellInv'
<1> DEFINE one == <<Failure(kind, Input)>>
           more == Push(reports)
           new == one \o more
<1>1. /\ nat <= Len(InputOrder) /\ npc # "idle" /\ Input \in Inputs
      /\ reports \in [sinkError : BOOLEAN, remarks : SUBSET RemarkKinds] /\ ~reports.sinkError
  BY AtWork
<1>2. worked \in BOOLEAN
  BY AtWork
<1>3. spool \in [Inputs -> Nat] /\ paused \subseteq Inputs
  BY AtWork
<1>4. kind \in RemarkKinds \cup {"MissingInput", "ProcessingFailed", "OutputWriteFailed"} /\ kind \notin RemarkKinds
  BY DEF RemarkKinds
<1>5. /\ Failure(kind, Input).kind = kind /\ Failure(kind, Input).input = Input
      /\ one \in Seq(Failures) /\ Values(one) = {Failure(kind, Input)} /\ OnceEach(one)
  BY <1>1, <1>4, OneFailure
<1>6. more \in Seq(Failures) /\ OnceEach(more) /\ \A f \in Values(more) : f.input = Input /\ f.kind \in RemarkKinds
  BY <1>1, PushTells
<1>e. fails' = (fails \o one) \o more /\ Forward
  BY DEF EndsWith
<1>c. Counts(Failure(kind, Input))
  BY <1>5 DEF Counts
<1> HIDE DEF one, more
<1>7. Values(one) \cap Values(more) = {}
  BY <1>4, <1>5, <1>6
<1>8. new \in Seq(Failures) /\ Values(new) = Values(one) \cup Values(more) /\ OnceEach(new)
  BY <1>5, <1>6, <1>7, ConcatValues
<1>9. fails \in Seq(Failures)
  BY DEF TellInv, TellTypes
<1>10. fails' = fails \o new
  <2>1. (fails \o one) \o more = fails \o (one \o more)
    BY <1>5, <1>6, <1>9, ConcatAssociative
  <2> QED
    BY <1>e, <2>1
<1>11. (\A f \in Values(new) : f.input = Input) /\ \E f \in Values(new) : Counts(f)
  BY <1>5, <1>6, <1>8, <1>c
<1> HIDE DEF new
<1>12. paused' \subseteq Inputs /\ spool' \in [Inputs -> Nat] /\ \A i \in Inputs : i # Input => spool'[i] = spool[i]
  BY <1>3
<1>13. worked' \in BOOLEAN /\ (worked => worked')
  BY <1>2
<1> QED
  BY <1>1, <1>8, <1>10, <1>11, <1>12, <1>13, <1>e, GoesOn

\* An input that is not granted, or cannot be collected, or has no file.
LEMMA SkipTells ==
  ASSUME TellInv, NotGranted \/ UnsupportedTarget \/ SourceMissing
  PROVE  TellInv'
<1>1. /\ nat <= Len(InputOrder) /\ npc # "idle" /\ Input \in Inputs
      /\ spool \in [Inputs -> Nat] /\ paused \subseteq Inputs
  BY AtWork DEF NotGranted, UnsupportedTarget, SourceMissing
<1>2. worked \in BOOLEAN
  BY AtWork DEF NotGranted, UnsupportedTarget, SourceMissing
<1>3. fails \in Seq(Failures)
  BY DEF TellInv, TellTypes
<1>m. /\ Failure("MissingInput", Input).kind = "MissingInput" /\ Failure("MissingInput", Input).input = Input
      /\ Failure("MissingInput", Input) \in Failures
      /\ <<Failure("MissingInput", Input)>> \in Seq(Failures) /\ OnceEach(<<Failure("MissingInput", Input)>>)
      /\ Values(<<Failure("MissingInput", Input)>>) = {Failure("MissingInput", Input)}
  BY <1>1, OneFailure
<1>c. Counts(Failure("MissingInput", Input))
  BY <1>m DEF Counts
<1>4. CASE NotGranted
  <2>1. /\ Forward /\ UNCHANGED <<works, link, previousPaused, pending, told, unheard>>
        /\ UNCHANGED <<spool, fails, paused, worked>> /\ Input \notin works
    BY <1>4 DEF NotGranted, grantVars, sourceVars, memoryVars, gateVars
  <2>2. <<>> \in Seq(Failures) /\ OnceEach(<<>>) /\ Values(<<>>) = {}
    BY DEF Values, OnceEach
  <2>3. fails' = fails \o <<>>
    BY <1>3, <2>1
  <2>4. worked' \in BOOLEAN /\ (worked => worked')
    BY <1>2, <2>1
  <2>5. paused' \subseteq Inputs /\ spool' \in [Inputs -> Nat] /\ \A i \in Inputs : i # Input => spool'[i] = spool[i]
    BY <1>1, <2>1
  <2>6. Input \notin works \ Unsupported /\ \A f \in Values(<<>>) : f.input = Input
    BY <2>1, <2>2
  <2> QED
    BY <1>1, <2>1, <2>2, <2>3, <2>4, <2>5, <2>6, GoesOn
<1>5. CASE UnsupportedTarget
  <2>1. /\ Forward /\ UNCHANGED <<works, link, previousPaused, pending, told, unheard>>
        /\ UNCHANGED <<spool, paused, worked>> /\ fails' = Append(fails, Failure("MissingInput", Input))
    BY <1>5 DEF UnsupportedTarget, grantVars, sourceVars, memoryVars, gateVars
  <2>2. fails' = fails \o <<Failure("MissingInput", Input)>>
    BY <1>3, <1>m, <2>1, AppendIsConcat
  <2>3. (\E f \in Values(<<Failure("MissingInput", Input)>>) : Counts(f)) /\ \A f \in Values(<<Failure("MissingInput", Input)>>) : f.input = Input
    BY <1>m, <1>c
  <2>4. worked' \in BOOLEAN /\ (worked => worked')
    BY <1>2, <2>1
  <2>5. paused' \subseteq Inputs /\ spool' \in [Inputs -> Nat] /\ \A i \in Inputs : i # Input => spool'[i] = spool[i]
    BY <1>1, <2>1
  <2> QED
    BY <1>1, <1>m, <2>1, <2>2, <2>3, <2>4, <2>5, GoesOn
<1>6. CASE SourceMissing
  <2> DEFINE one == <<Failure("MissingInput", Input)>>
             more == IF spool[Input] > 0 /\ ~link THEN <<Failure("ProcessingFailed", Input)>> ELSE <<>>
             new == one \o more
  <2>1. /\ Forward /\ UNCHANGED <<works, link, previousPaused, pending, told, unheard, paused>>
        /\ fails' = (fails \o one) \o more
    BY <1>6 DEF SourceMissing, grantVars, memoryVars, gateVars
  <2>2. worked' \in BOOLEAN /\ (worked => worked')
    BY <1>2, <1>6 DEF SourceMissing
  <2>3. paused' \subseteq Inputs /\ spool' \in [Inputs -> Nat] /\ \A i \in Inputs : i # Input => spool'[i] = spool[i]
    BY <1>1, <1>6, <2>1 DEF SourceMissing
  <2>4. more \in Seq(Failures) /\ OnceEach(more) /\ \A f \in Values(more) : f.input = Input /\ f.kind # "MissingInput"
    <3>1. CASE spool[Input] > 0 /\ ~link
      <4>1. /\ Failure("ProcessingFailed", Input).kind = "ProcessingFailed" /\ Failure("ProcessingFailed", Input).input = Input
            /\ <<Failure("ProcessingFailed", Input)>> \in Seq(Failures) /\ OnceEach(<<Failure("ProcessingFailed", Input)>>)
            /\ Values(<<Failure("ProcessingFailed", Input)>>) = {Failure("ProcessingFailed", Input)}
        BY <1>1, OneFailure
      <4>2. more = <<Failure("ProcessingFailed", Input)>>
        BY <3>1
      <4> QED
        BY <4>1, <4>2
    <3>2. CASE ~(spool[Input] > 0 /\ ~link)
      <4>1. more = <<>>
        BY <3>2
      <4> HIDE DEF more
      <4> QED
        BY <4>1 DEF Values, OnceEach
    <3> QED
      BY <3>1, <3>2
  <2> HIDE DEF one, more
  <2>5. /\ one \in Seq(Failures) /\ OnceEach(one) /\ Values(one) = {Failure("MissingInput", Input)}
    BY <1>m DEF one
  <2>6. Values(one) \cap Values(more) = {}
    BY <1>m, <2>4, <2>5
  <2>7. new \in Seq(Failures) /\ Values(new) = Values(one) \cup Values(more) /\ OnceEach(new)
    BY <2>4, <2>5, <2>6, ConcatValues
  <2>8. fails' = fails \o new
    <3>1. (fails \o one) \o more = fails \o (one \o more)
      BY <1>3, <2>4, <2>5, ConcatAssociative
    <3> QED
      BY <2>1, <3>1
  <2>9. (\A f \in Values(new) : f.input = Input) /\ \E f \in Values(new) : Counts(f)
    BY <1>m, <1>c, <2>4, <2>5, <2>7
  <2> HIDE DEF new
  <2> QED
    BY <1>1, <2>1, <2>2, <2>3, <2>7, <2>8, <2>9, GoesOn
<1> QED
  BY <1>4, <1>5, <1>6

\* The spool cannot be replayed, or reading fails.
LEMMA FailTells ==
  ASSUME TellInv, ReplayFails \/ BatchFails
  PROVE  TellInv'
<1>1. Reading
  BY DEF ReplayFails, BatchFails
<1>2. CASE BatchFails
  <2>1. /\ EndsWith("ProcessingFailed")
        /\ UNCHANGED <<works, spool, link, paused, worked, previousPaused, pending, told, unheard>>
    BY <1>2 DEF BatchFails, grantVars, sourceVars, memoryVars, gateVars
  <2> QED
    BY <1>1, <2>1, EndsTold
<1>3. CASE ReplayFails /\ ~(spool[Input] >= SpoolLimit)
  <2>1. /\ EndsWith("OutputWriteFailed")
        /\ UNCHANGED <<works, spool, link, paused, worked, previousPaused, pending, told, unheard>>
    BY <1>3 DEF ReplayFails, grantVars, sourceVars, memoryVars, gateVars
  <2> QED
    BY <1>1, <2>1, EndsTold
<1>4. CASE ReplayFails /\ spool[Input] >= SpoolLimit
  <2> DEFINE r == [reports EXCEPT !.sinkError = TRUE]
             new == Push(r)
  <2>1. /\ Forward /\ UNCHANGED <<works, spool, link, previousPaused, pending, told, unheard>>
        /\ worked' = TRUE /\ paused' = paused \cup {Input} /\ fails' = fails \o new
    BY <1>4 DEF ReplayFails, grantVars, sourceVars, memoryVars, gateVars
  <2>2. /\ nat <= Len(InputOrder) /\ npc # "idle" /\ Input \in Inputs
        /\ spool \in [Inputs -> Nat] /\ paused \subseteq Inputs
    BY <1>1, AtWork
  <2>3. r \in [sinkError : BOOLEAN, remarks : SUBSET RemarkKinds]
    BY <1>1, AtWork
  <2> HIDE DEF r
  <2>4. new \in Seq(Failures) /\ OnceEach(new) /\ \A f \in Values(new) : f.input = Input
    BY <2>2, <2>3, PushTells
  <2> HIDE DEF new
  <2>5. paused' \subseteq Inputs /\ spool' \in [Inputs -> Nat] /\ \A i \in Inputs : i # Input => spool'[i] = spool[i]
    BY <2>1, <2>2
  <2>6. worked' \in BOOLEAN /\ (worked => worked') /\ worked'
    BY <2>1
  <2> QED
    BY <2>1, <2>2, <2>4, <2>5, <2>6, GoesOn
<1> QED
  BY <1>2, <1>3, <1>4

\* A batch tells what it saw at its end, or goes on with an output that took everything.
LEMMA BatchTells ==
  ASSUME TellInv, Batch
  PROVE  TellInv'
<1>1. Reading /\ UNCHANGED <<works, link, paused, previousPaused, pending, told, unheard>>
  BY DEF Batch, grantVars, memoryVars, gateVars
<1>2. /\ nat <= Len(InputOrder) /\ npc # "idle" /\ Input \in Inputs
      /\ spool \in [Inputs -> Nat] /\ paused \subseteq Inputs
      /\ reports \in [sinkError : BOOLEAN, remarks : SUBSET RemarkKinds] /\ ~reports.sinkError
  BY <1>1, AtWork
<1>3. worked \in BOOLEAN /\ link \in BOOLEAN
  BY DEF TellInv, TellTypes
<1>4. PICK remarks \in {{}} \cup {{x} : x \in ToSet(RemarkOrder)}, leaves \in 0..SpoolLimit :
         LET read == unread[Input] > 0
             records == read /\ remarks \cap {"NoiseDropped", "RecordWithheld"} = {}
             sinkError == records /\ ~link
         IN  /\ leaves > 0 => records
             /\ spool' = [spool EXCEPT ![Input] = leaves]
             /\ worked' = (worked \/ spool[Input] > 0 \/ records)
             /\ \/ /\ MadeProgress(read, sinkError)
                   /\ npc' = "batch" /\ reports' = Observe(reports, remarks, sinkError) /\ UNCHANGED <<nat, fails>>
                \/ /\ Forward /\ fails' = fails \o Push(Observe(reports, remarks, sinkError))
  BY Zenon DEF Batch
<1> DEFINE records == unread[Input] > 0 /\ remarks \cap {"NoiseDropped", "RecordWithheld"} = {}
           sinkError == records /\ ~link
           r == Observe(reports, remarks, sinkError)
<1>5. /\ leaves > 0 => records
      /\ spool' = [spool EXCEPT ![Input] = leaves]
      /\ worked' = (worked \/ spool[Input] > 0 \/ records)
      /\ \/ /\ MadeProgress(unread[Input] > 0, sinkError)
            /\ npc' = "batch" /\ reports' = r /\ UNCHANGED <<nat, fails>>
         \/ /\ Forward /\ fails' = fails \o Push(r)
  BY <1>4, Zenon
<1>6. records \in BOOLEAN /\ sinkError \in BOOLEAN
  BY <1>3, Zenon
<1> HIDE DEF records, sinkError
<1>7. r \in [sinkError : BOOLEAN, remarks : SUBSET RemarkKinds] /\ r.sinkError = (reports.sinkError \/ sinkError)
  <2>1. remarks \subseteq RemarkKinds
    <3>1. RemarkOrder \in Seq(RemarkKinds)
      BY NoticesAssumption DEF RemarkKinds
    <3>2. ToSet(RemarkOrder) \subseteq RemarkKinds
      BY <3>1 DEF ToSet
    <3> QED
      BY <3>2
  <2>2. (reports.sinkError \/ sinkError) \in BOOLEAN
    OBVIOUS
  <2>3. reports.remarks \cup remarks \subseteq RemarkKinds
    BY <1>2, <2>1
  <2> QED
    BY <1>2, <2>2, <2>3 DEF Observe
<1>8. worked' \in BOOLEAN /\ (worked => worked') /\ (records => worked')
  BY <1>3, <1>5, Zenon
<1>9. leaves \in Nat
  BY NoticesAssumption
<1>10. /\ paused' \subseteq Inputs /\ spool' \in [Inputs -> Nat] /\ spool'[Input] = leaves
       /\ \A i \in Inputs : i # Input => spool'[i] = spool[i]
  BY <1>1, <1>2, <1>5, <1>9
<1>11. CASE Forward /\ fails' = fails \o Push(r)
  <2>1. Push(r) \in Seq(Failures) /\ OnceEach(Push(r)) /\ \A f \in Values(Push(r)) : f.input = Input
    BY <1>2, <1>7, PushTells
  <2>2. spool'[Input] = 0 \/ worked'
    BY <1>5, <1>8, <1>9, <1>10
  <2> DEFINE new == Push(r)
  <2> HIDE DEF r, new
  <2>3. new \in Seq(Failures) /\ OnceEach(new) /\ (\A f \in Values(new) : f.input = Input) /\ fails' = fails \o new /\ Forward
    BY <1>11, <2>1 DEF new
  <2> QED
    BY <1>1, <1>2, <1>8, <1>10, <2>2, <2>3, GoesOn
<1>12. CASE MadeProgress(unread[Input] > 0, sinkError) /\ npc' = "batch" /\ reports' = r /\ UNCHANGED <<nat, fails>>
  <2>1. ~sinkError
    BY <1>12, Zenon DEF MadeProgress
  <2>2. ~reports'.sinkError
    BY <1>2, <1>7, <1>12, <2>1
  <2> HIDE DEF r
  <2>3. nat \in 1..Len(InputOrder) /\ \A j \in 1..Len(InputOrder) : j # nat => InputOrder[j] # Input
    BY <1>2, AtHand
  <2>4. SaidOK'
    BY <1>12, <2>2 DEF TellInv, SaidOK
  <2>5. ChangesOK'
    BY <1>1 DEF TellInv, ChangesOK, Heard
  <2>6. TellTypes'
    <3>1. works \subseteq Inputs /\ nat \in Nat \ {0} /\ previousPaused \subseteq Inputs /\ fails \in Seq(Failures)
      BY DEF TellInv, TellTypes
    <3>2. worked' \in BOOLEAN /\ link' \in BOOLEAN
      BY <1>1, <1>3, <1>8
    <3>3. nat' \in Nat \ {0} /\ npc' \in {"idle", "input", "batch"} /\ (npc' = "batch" => nat' <= Len(InputOrder))
      BY <1>2, <1>12, <3>1
    <3>4. fails' \in Seq(Failures) /\ (npc' = "idle" => fails' = <<>>) /\ reports' \in [sinkError : BOOLEAN, remarks : SUBSET RemarkKinds]
      BY <1>7, <1>12, <3>1
    <3>5. works' \subseteq Inputs /\ paused' \subseteq Inputs /\ previousPaused' \subseteq Inputs /\ spool' \in [Inputs -> Nat]
      BY <1>1, <1>10, <3>1
    <3> QED
      BY <3>2, <3>3, <3>4, <3>5 DEF TellTypes
  <2>7. LeftOK'
    <3>1. CASE IsActive(fails, worked)
      <4>1. IsActive(fails, worked)'
        BY <1>8, <1>12, <3>1 DEF IsActive
      <4> QED
        BY <4>1 DEF LeftOK
    <3>2. CASE ~IsActive(fails, worked)
      <4>1. \A j \in 1..Len(InputOrder) : j < nat /\ InputOrder[j] \in works \ Unsupported => spool[InputOrder[j]] = 0
        BY <1>2, <3>2 DEF TellInv, LeftOK
      <4>2. ASSUME NEW j \in 1..Len(InputOrder), j < nat', InputOrder[j] \in works \ Unsupported PROVE spool'[InputOrder[j]] = 0
        <5>1. j < nat /\ j # nat /\ InputOrder[j] \in Inputs
          BY <1>12, <2>3, <4>2, InputsInOrder DEF Values
        <5> QED
          BY <1>10, <2>3, <4>1, <4>2, <5>1
      <4> QED
        BY <1>1, <4>2 DEF LeftOK
    <3> QED
      BY <3>1, <3>2
  <2> QED
    BY <2>4, <2>5, <2>6, <2>7 DEF TellInv
<1> QED
  BY <1>5, <1>11, <1>12

\* Every step of the telling part keeps the invariant.
LEMMA NoticesTell == TellInv /\ NoticesNext => TellInv'
  BY LoopTells, SkipTells, FailTells, BatchTells DEF NoticesNext, TickStep

\* The telling part keeps its invariant, and no other part runs a tick.
TellPart == IF part = "tell" THEN TellInv ELSE npc = "none"
LEMMA TellPartHolds == PlaneSpec => []TellPart
<1>1. PlaneInit => TellPart
  BY TellInvInit DEF PlaneInit, TellPart, NoticesIdle
<1>2. TellPart /\ [PlaneNext]_planeVars => TellPart'
  <2> SUFFICES ASSUME TellPart, [PlaneNext]_planeVars PROVE TellPart'
    OBVIOUS
  <2>1. CASE Telling(NoticesNext)
    <3>1. part = "tell" /\ part' = "tell" /\ NoticesNext
      BY <2>1 DEF Telling
    <3>2. TellInv
      BY <3>1 DEF TellPart
    <3>3. TellInv'
      BY <3>1, <3>2, NoticesTell
    <3> QED
      BY <3>1, <3>3 DEF TellPart
  <2>2. CASE Discovering(DiscoveryNext) \/ Sending(UpNext)
    <3>1. part # "tell" /\ UNCHANGED <<part, npc>>
      BY <2>2 DEF Discovering, Sending, noticeVars
    <3> QED
      BY <3>1 DEF TellPart
  <2>3. CASE UNCHANGED planeVars
    <3>1. UNCHANGED <<part, works, spool, npc, nat, reports, fails, paused, worked, previousPaused, pending, told, unheard, link>>
      BY <2>3 DEF planeVars, noticeVars
    <3>2. CASE part = "tell"
      <4>1. TellInv
        BY <3>2 DEF TellPart
      <4>2. link' \in BOOLEAN
        BY <3>1, <4>1 DEF TellInv, TellTypes
      <4>3. TellInv'
        BY <3>1, <4>1, <4>2, AsideTells
      <4> QED
        BY <3>1, <3>2, <4>3 DEF TellPart
    <3>3. CASE part # "tell"
      BY <3>1, <3>3 DEF TellPart
    <3> QED
      BY <3>2, <3>3
  <2> QED
    BY <2>1, <2>2, <2>3 DEF PlaneNext
<1> QED
  BY <1>1, <1>2, PTL DEF PlaneSpec

\* As long as no report is lost and the daemon is not restarted, an empty list of pending
\* changes means that the control plane holds exactly those inputs for paused that the last
\* tick found paused: differences sent one report after the other never drift
\* (daemon_runtime_state.rs work_state_changes, pending_work_state_changes).
THEOREM WorkStateToldHolds == PlaneSpec => []WorkStateTold
<1>1. TellPart => WorkStateTold
  <2> SUFFICES ASSUME TellPart, part = "tell", ~unheard, pending = <<>> PROVE told = previousPaused
    BY DEF WorkStateTold
  <2>1. Heard(told, <<>>) = previousPaused /\ told \subseteq Inputs
    BY DEF TellPart, TellInv, ChangesOK
  <2>2. Heard(told, <<>>) = told
    BY <2>1 DEF Heard
  <2> QED
    BY <2>1, <2>2
<1> QED
  BY <1>1, TellPartHolds, PTL

\* No tick tells a problem of an input twice, however many batches its catch-up runs, and a tick
\* at its end that leaves records in the spool of an input it ran counts as active
\* (daemon_telemetry.rs process_telemetry_input, TelemetryTick::is_active).
THEOREM TickToldHolds == PlaneSpec => []TickTold
<1>1. TellPart => TickTold
  <2> SUFFICES ASSUME TellPart PROVE TickTold
    OBVIOUS
  <2>1. ASSUME part = "tell", NEW j \in DOMAIN fails, NEW k \in DOMAIN fails, fails[j] = fails[k] PROVE j = k
    <3>1. fails \in Seq(Failures) /\ OnceEach(fails)
      BY <2>1 DEF TellPart, TellInv, TellTypes, SaidOK
    <3> QED
      BY <2>1, <3>1 DEF OnceEach
  <2>2. ASSUME npc = "input", nat > Len(InputOrder), ~IsActive(fails, worked), NEW i \in works \ Unsupported PROVE spool[i] = 0
    <3>1. TellInv
      BY <2>2 DEF TellPart
    <3>2. i \in Inputs /\ nat \in Nat
      BY <3>1 DEF TellInv, TellTypes
    <3>3. PICK j \in 1..Len(InputOrder) : i = InputOrder[j]
      BY <3>2, InputsInOrder DEF Values
    <3>4. j < nat
      BY <2>2, <3>2, InputsInOrder
    <3> QED
      BY <2>2, <3>1, <3>3, <3>4 DEF TellInv, LeftOK
  <2> QED
    BY <2>1, <2>2 DEF TickTold
<1> QED
  BY <1>1, TellPartHolds, PTL
=============================================================================
