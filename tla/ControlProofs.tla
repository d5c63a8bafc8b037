--------------------------- MODULE ControlProofs ---------------------------
(***************************************************************************)
(* Proofs about Control: a command is executed once, and a tick that knows *)
(* its credential to be refused has the uplink in standby, for every set   *)
(* of commands, every limit of the history and every scenario.             *)
(***************************************************************************)
EXTENDS Control, FiniteSetTheorems, TLAPS

-----------------------------------------------------------------------------
(* The history of commands.                                                 *)

\* Named is what CommandHistory::find looks through.
LEMMA NamedIs ==
  ASSUME NEW s \in Seq(Record), NEW c
  PROVE  c \in Named(s) <=> \E i \in 1..Len(s) : s[i].cmd = c
<1>1. DOMAIN s = 1..Len(s)
  OBVIOUS
<1> QED
  BY <1>1 DEF Named, ToSet

\* A history names commands.
LEMMA NamedCmds == ASSUME NEW s \in Seq(Record) PROVE Named(s) \subseteq Cmds
<1> SUFFICES ASSUME NEW c \in Named(s) PROVE c \in Cmds
  OBVIOUS
<1>1. PICK i \in 1..Len(s) : s[i].cmd = c
  BY NamedIs
<1>2. s[i] \in Record
  BY <1>1
<1> QED
  BY <1>1, <1>2 DEF Record

\* A command that is not found has no record.
LEMMA NotFound ==
  ASSUME h \in Seq(Record), NEW c, Find(c) = {} PROVE c \notin Named(h)
  BY DEF Find, Named

\* CommandHistory::record, retain: one record goes, the others stay in their order.
LEMMA WithoutType ==
  ASSUME h \in Seq(Record), NEW c
  PROVE  Without(c) \in Seq(Record) /\ Len(Without(c)) <= Len(h)
<1>1. CASE c \notin Named(h)
  BY <1>1 DEF Without
<1>2. CASE c \in Named(h)
  <2>1. \E i \in DOMAIN h : h[i].cmd = c
    BY <1>2, NamedIs
  <2> DEFINE k == CHOOSE i \in DOMAIN h : h[i].cmd = c
  <2>2. k \in 1..Len(h)
    BY <2>1
  <2>3. Without(c) = SubSeq(h, 1, k - 1) \o SubSeq(h, k + 1, Len(h))
    BY <1>2 DEF Without, RemoveAt
  <2> HIDE DEF k
  <2> DEFINE a == SubSeq(h, 1, k - 1)
             b == SubSeq(h, k + 1, Len(h))
  <2>4. a \in Seq(Record) /\ Len(a) = k - 1
    BY <2>2
  <2>5. b \in Seq(Record) /\ Len(b) = Len(h) - k
    BY <2>2
  <2>6. Without(c) = a \o b
    BY <2>3
  <2> HIDE DEF a, b
  <2>7. a \o b \in Seq(Record) /\ Len(a \o b) = Len(a) + Len(b)
    BY <2>4, <2>5
  <2>8. Len(h) \in Nat /\ k \in Nat
    BY <2>2
  <2> QED
    BY <2>4, <2>5, <2>6, <2>7, <2>8
<1> QED
  BY <1>1, <1>2

\* CommandHistory::record keeps to the limit and holds the new result.
LEMMA RecordedType ==
  ASSUME h \in Seq(Record), NEW c \in Cmds, NEW o \in Outcomes
  PROVE  /\ Recorded(c, o) \in Seq(Record)
         /\ Len(Recorded(c, o)) <= HistoryLimit
         /\ c \in Named(Recorded(c, o))
<1> DEFINE all == Append(Without(c), [cmd |-> c, outcome |-> o])
<1>1. [cmd |-> c, outcome |-> o] \in Record
  BY DEF Record
<1>2. all \in Seq(Record) /\ Len(all) \in Nat /\ Len(all) > 0 /\ all[Len(all)] = [cmd |-> c, outcome |-> o]
  BY <1>1, WithoutType
<1>3. HistoryLimit \in Nat /\ HistoryLimit > 0
  BY ControlAssumption
<1>4. Recorded(c, o) = IF Len(all) > HistoryLimit
                       THEN SubSeq(all, Len(all) - HistoryLimit + 1, Len(all)) ELSE all
  BY DEF Recorded
<1> HIDE DEF all
<1>5. CASE Len(all) > HistoryLimit
  <2> DEFINE m == Len(all) - HistoryLimit + 1
             s == SubSeq(all, m, Len(all))
  <2>1. m \in 1..Len(all)
    BY <1>2, <1>3, <1>5
  <2>2. s \in Seq(Record) /\ Len(s) = HistoryLimit
    BY <1>2, <1>3, <1>5
  <2>3. s[HistoryLimit] = all[Len(all)]
    BY <1>2, <1>3, <1>5
  <2>4. Recorded(c, o) = s
    BY <1>4, <1>5
  <2> HIDE DEF m, s
  <2>5. HistoryLimit \in 1..Len(s) /\ s[HistoryLimit].cmd = c
    BY <1>2, <1>3, <2>2, <2>3
  <2> QED
    BY <1>3, <2>2, <2>4, <2>5, NamedIs
<1>6. CASE ~(Len(all) > HistoryLimit)
  <2>1. Recorded(c, o) = all
    BY <1>4, <1>6
  <2>2. Len(all) \in 1..Len(all) /\ all[Len(all)].cmd = c
    BY <1>2
  <2> QED
    BY <1>2, <1>3, <1>6, <2>1, <2>2, NamedIs
<1> QED
  BY <1>5, <1>6
-----------------------------------------------------------------------------
(* The parts of TypeOK, each closed under every step.                       *)

AuthTypes ==
  /\ ledger \in Codes \cup {"none"} /\ term \in Codes \cup {"none"}
  /\ refused \in Codes \cup {"none"} /\ grant \in {"on", "standby"}
  /\ uplink \in {"none", "standby", "on"}
  /\ pc \in {"down", "clear", "term", "renew", "take", "remove", "drain", "handle", "fetch", "run", "report"}
FlagTypes == {clearing, retryDue, dirty, cool, fetchDue, unsaved, regranted} \subseteq BOOLEAN
CommandTypes ==
  /\ request \in Local \cup {Nobody} /\ accepted \in Cmds \cup {Nobody}
  /\ queue \in Seq(Cmds)
  /\ taken \in Local \cup {Nobody} /\ replaced \in [Local -> Local \cup {Nobody}]
  /\ client \in [Local -> Local \cup {"idle", "free", "done"}]
  /\ inflight \in [Cmds -> {"no", "running", "report", "error"}]
  /\ runs \in [Cmds -> 0..2]
HistoryTypes ==
  /\ hist \in Seq(Record) /\ Len(hist) <= HistoryLimit
  /\ h \in Seq(Record) /\ Len(h) <= HistoryLimit
  /\ acks \subseteq Ack /\ dropped \subseteq Cmds
VerdictTypes == verdict \in [Remote -> Outcomes \cup {"none", "open", "accepted"}]

Types == AuthTypes /\ FlagTypes /\ CommandTypes /\ HistoryTypes /\ VerdictTypes

LEMMA TypesAre == Types <=> TypeOK
  BY DEF Types, TypeOK, AuthTypes, FlagTypes, CommandTypes, HistoryTypes, VerdictTypes

\* The terminal state, the uplink and the place in the tick.
LEMMA AuthTypesStep == AuthTypes /\ [Next]_vars => AuthTypes'
<1> SUFFICES ASSUME AuthTypes, [Next]_vars PROVE AuthTypes'
  OBVIOUS
<1> USE DEF AuthTypes, Codes, files, auth, commands, link, gateway, bounds, ghosts
<1>u. CASE UNCHANGED vars
  BY <1>u DEF vars
<1>1. CASE Start
  BY <1>1 DEF Start, Fresh
<1>2. CASE ClearLedger
  BY <1>2 DEF ClearLedger
<1>3. CASE SkipTerminal
  BY <1>3 DEF SkipTerminal
<1>4. CASE ProbeRefused
  BY <1>4 DEF ProbeRefused
<1>5. CASE Recovered
  BY <1>5 DEF Recovered
<1>6. CASE RenewalRevoked
  BY <1>6 DEF RenewalRevoked, EnterTerminal
<1>7. CASE RenewalQuiet
  BY <1>7 DEF RenewalQuiet
<1>8. CASE ReadLocal
  BY <1>8 DEF ReadLocal
<1>8b. CASE RemoveLocal
  BY <1>8b DEF RemoveLocal
<1>9. CASE Drain
  BY <1>9 DEF Drain
<1>10. CASE HandleCommand
  BY <1>10 DEF HandleCommand
<1>11. CASE QueueDone
  BY <1>11 DEF QueueDone
<1>12. CASE FetchUplink
  BY <1>12 DEF FetchUplink, Observe
<1>13. CASE Tick
  BY <1>13 DEF Tick
<1>14. CASE ReportAccepted
  BY <1>14 DEF ReportAccepted
<1>15. CASE ReportLost
  BY <1>15 DEF ReportLost
<1>16. CASE ReportRefused
  BY <1>16 DEF ReportRefused, EnterTerminal
<1>17. CASE RetryElapses
  BY <1>17 DEF RetryElapses
<1>18. CASE FetchElapses
  BY <1>18 DEF FetchElapses
<1>19. CASE CoolsDown
  BY <1>19 DEF CoolsDown
<1>20. ASSUME NEW c \in Cmds, InvestigationEnds(c) PROVE AuthTypes'
  BY <1>20 DEF InvestigationEnds
<1>21. ASSUME NEW c \in Local, LookRequest(c) PROVE AuthTypes'
  BY <1>21 DEF LookRequest
<1>22. ASSUME NEW c \in Local, SubmitRequest(c) PROVE AuthTypes'
  BY <1>22 DEF SubmitRequest
<1>23. ASSUME NEW c \in Local, RefreshFactsEnds(c) PROVE AuthTypes'
  BY <1>23 DEF RefreshFactsEnds
<1>24. ASSUME NEW c \in Remote, Issue(c) PROVE AuthTypes'
  BY <1>24 DEF Issue
<1>25. ASSUME NEW code \in Codes, Refuse(code) PROVE AuthTypes'
  BY <1>25 DEF Refuse
<1>26. CASE Lift
  BY <1>26 DEF Lift
<1>27. CASE TickFails
  BY <1>27 DEF TickFails, Fresh
<1>28. CASE Crash
  BY <1>28 DEF Crash, Fresh
<1> QED
  BY <1>u, <1>1, <1>2, <1>3, <1>4, <1>5, <1>6, <1>7, <1>8, <1>8b, <1>9, <1>10, <1>11, <1>12, <1>13, <1>14, <1>15, <1>16, <1>17, <1>18, <1>19, <1>20, <1>21, <1>22, <1>23, <1>24, <1>25, <1>26, <1>27, <1>28 DEF Next, Loop

\* The flags of the loop.
LEMMA FlagTypesStep == FlagTypes /\ [Next]_vars => FlagTypes'
<1> SUFFICES ASSUME FlagTypes, [Next]_vars PROVE FlagTypes'
  OBVIOUS
<1> USE DEF FlagTypes, files, auth, commands, link, gateway, bounds, ghosts
<1>u. CASE UNCHANGED vars
  BY <1>u DEF vars
<1>1. CASE Start
  BY <1>1 DEF Start, Fresh
<1>2. CASE ClearLedger
  BY <1>2 DEF ClearLedger
<1>3. CASE SkipTerminal
  BY <1>3 DEF SkipTerminal
<1>4. CASE ProbeRefused
  BY <1>4 DEF ProbeRefused
<1>5. CASE Recovered
  BY <1>5 DEF Recovered
<1>6. CASE RenewalRevoked
  BY <1>6 DEF RenewalRevoked, EnterTerminal
<1>7. CASE RenewalQuiet
  BY <1>7 DEF RenewalQuiet
<1>8. CASE ReadLocal
  BY <1>8 DEF ReadLocal
<1>8b. CASE RemoveLocal
  BY <1>8b DEF RemoveLocal
<1>9. CASE Drain
  BY <1>9 DEF Drain, RecordCommand
<1>10. CASE HandleCommand
  <2> USE DEF HandleCommand, RecordCommand
  <2> DEFINE c == Head(queue)
  <2>1. Duplicate(c) \/ Decline(c) \/ AcceptRefresh(c) \/ AcceptProbe(c) \/ AcceptInvestigate(c)
    BY <1>10
  <2>2. dirty' \in {dirty, TRUE} /\ cool' \in {cool, TRUE}
    BY <2>1 DEF Duplicate, Decline, AcceptRefresh, AcceptProbe, AcceptInvestigate
  <2>3. UNCHANGED <<clearing, retryDue, fetchDue, unsaved, regranted>>
    BY <1>10
  <2> QED
    BY <2>2, <2>3
<1>11. CASE QueueDone
  BY <1>11 DEF QueueDone
<1>12. CASE FetchUplink
  BY <1>12 DEF FetchUplink, Observe
<1>13. CASE Tick
  BY <1>13 DEF Tick
<1>14. CASE ReportAccepted
  BY <1>14 DEF ReportAccepted
<1>15. CASE ReportLost
  BY <1>15 DEF ReportLost
<1>16. CASE ReportRefused
  BY <1>16 DEF ReportRefused, EnterTerminal
<1>17. CASE RetryElapses
  BY <1>17 DEF RetryElapses
<1>18. CASE FetchElapses
  BY <1>18 DEF FetchElapses
<1>19. CASE CoolsDown
  BY <1>19 DEF CoolsDown
<1>20. ASSUME NEW c \in Cmds, InvestigationEnds(c) PROVE FlagTypes'
  BY <1>20 DEF InvestigationEnds
<1>21. ASSUME NEW c \in Local, LookRequest(c) PROVE FlagTypes'
  BY <1>21 DEF LookRequest
<1>22. ASSUME NEW c \in Local, SubmitRequest(c) PROVE FlagTypes'
  BY <1>22 DEF SubmitRequest
<1>23. ASSUME NEW c \in Local, RefreshFactsEnds(c) PROVE FlagTypes'
  BY <1>23 DEF RefreshFactsEnds
<1>24. ASSUME NEW c \in Remote, Issue(c) PROVE FlagTypes'
  BY <1>24 DEF Issue
<1>25. ASSUME NEW code \in Codes, Refuse(code) PROVE FlagTypes'
  BY <1>25 DEF Refuse
<1>26. CASE Lift
  BY <1>26 DEF Lift
<1>27. CASE TickFails
  BY <1>27 DEF TickFails, Fresh
<1>28. CASE Crash
  BY <1>28 DEF Crash, Fresh
<1> QED
  BY <1>u, <1>1, <1>2, <1>3, <1>4, <1>5, <1>6, <1>7, <1>8, <1>8b, <1>9, <1>10, <1>11, <1>12, <1>13, <1>14, <1>15, <1>16, <1>17, <1>18, <1>19, <1>20, <1>21, <1>22, <1>23, <1>24, <1>25, <1>26, <1>27, <1>28 DEF Next, Loop

\* handle_command_queue treats the head of the queue in one of five ways.
LEMMA HandledHow ==
  ASSUME HandleCommand, queue \in Seq(Cmds)
  PROVE  \E c \in Cmds : /\ queue # <<>> /\ c = Head(queue) /\ queue' = Tail(queue) /\ queue' \in Seq(Cmds)
                         /\ Duplicate(c) \/ Decline(c) \/ AcceptRefresh(c) \/ AcceptProbe(c) \/ AcceptInvestigate(c)
<1>1. queue # <<>> /\ Head(queue) \in Cmds /\ Tail(queue) \in Seq(Cmds)
  BY DEF HandleCommand
<1> QED
  BY <1>1 DEF HandleCommand

\* Requests, queue, clients, tasks and counts of runs.
LEMMA CommandTypesStep == CommandTypes /\ VerdictTypes /\ [Next]_vars => CommandTypes'
<1> SUFFICES ASSUME CommandTypes, VerdictTypes, [Next]_vars PROVE CommandTypes'
  OBVIOUS
<1> USE DEF CommandTypes, files, auth, commands, link, gateway, bounds, ghosts
<1>u. CASE UNCHANGED vars
  BY <1>u DEF vars
<1>1. CASE Start
  <2>1. UNCHANGED <<request, client, runs, replaced>> /\ taken' = Nobody /\ accepted' = Nobody /\ queue' = <<>> /\ inflight' = [c \in Cmds |-> "no"]
    BY <1>1 DEF Start, Fresh
  <2> QED
    BY <2>1
<1>2. CASE ClearLedger
  BY <1>2 DEF ClearLedger
<1>3. CASE SkipTerminal
  BY <1>3 DEF SkipTerminal
<1>4. CASE ProbeRefused
  BY <1>4 DEF ProbeRefused
<1>5. CASE Recovered
  BY <1>5 DEF Recovered
<1>6. CASE RenewalRevoked
  BY <1>6 DEF RenewalRevoked, EnterTerminal
<1>7. CASE RenewalQuiet
  BY <1>7 DEF RenewalQuiet
<1>8. CASE ReadLocal
  <2>1. taken' \in {taken, request} /\ UNCHANGED <<request, accepted, client, inflight, runs, queue, replaced>>
    BY <1>8 DEF ReadLocal
  <2> QED
    BY <2>1
<1>8b. CASE RemoveLocal
  <2>1. request' \in {request, Nobody} /\ taken' = Nobody /\ UNCHANGED <<accepted, client, inflight, runs>>
    BY <1>8b DEF RemoveLocal
  <2>2. queue' = queue \/ (taken # Nobody /\ queue' = Append(queue, taken))
    BY <1>8b DEF RemoveLocal
  <2>3. queue' \in Seq(Cmds)
    BY <2>2 DEF Cmds
  <2>4. CASE UNCHANGED replaced
    BY <2>1, <2>3, <2>4
  <2>5. CASE taken # Nobody /\ Replace(request, taken)
    <3>1. replaced' \in [Local -> Local \cup {Nobody}]
      BY <2>5 DEF Replace
    <3> QED
      BY <2>1, <2>3, <3>1
  <2> QED
    BY <1>8b, <2>4, <2>5 DEF RemoveLocal
<1>9. CASE Drain
  BY <1>9 DEF Drain
<1>10. CASE HandleCommand
  <2>1. PICK c \in Cmds : /\ queue' \in Seq(Cmds)
                         /\ (Duplicate(c) \/ Decline(c) \/ AcceptRefresh(c) \/ AcceptProbe(c) \/ AcceptInvestigate(c))
    BY <1>10, HandledHow
  <2>2. accepted' \in Cmds \cup {Nobody}
    BY <2>1 DEF Duplicate, Decline, AcceptRefresh, AcceptProbe, AcceptInvestigate
  <2>3. inflight' \in [Cmds -> {"no", "running", "report", "error"}]
    BY <2>1 DEF Duplicate, Decline, AcceptRefresh, AcceptProbe, AcceptInvestigate
  <2>4. runs' = runs \/ Executed(c)
    BY <2>1 DEF Duplicate, Decline, AcceptRefresh, AcceptProbe, AcceptInvestigate
  <2>5. runs' \in [Cmds -> 0..2]
    BY <2>4 DEF Executed
  <2>6. UNCHANGED <<request, client, taken, replaced>>
    BY <1>10 DEF HandleCommand
  <2>7. queue' \in Seq(Cmds)
    BY <1>10 DEF HandleCommand
  <2> QED
    BY <2>2, <2>3, <2>5, <2>6, <2>7
<1>11. CASE QueueDone
  BY <1>11 DEF QueueDone
<1>12. CASE FetchUplink
  BY <1>12 DEF FetchUplink, Observe
<1>13. CASE Tick
  BY <1>13 DEF Tick
<1>14. CASE ReportAccepted
  <2>1. UNCHANGED <<request, accepted, client, inflight, runs, taken, replaced>>
    BY <1>14 DEF ReportAccepted
  <2>2. PICK sent \in {Offered(verdict), Offered(verdict')} : queue' \in SetToSeqs(sent)
    BY <1>14 DEF ReportAccepted
  <2>3. sent \subseteq Remote
    BY <2>2 DEF Offered
  <2>4. IsFiniteSet(sent)
    BY <2>3, FS_Subset, ControlAssumption
  <2>5. Cardinality(sent) \in Nat
    BY <2>4, FS_CardinalityType
  <2>6. queue' \in [1..Cardinality(sent) -> sent]
    BY <2>2 DEF SetToSeqs
  <2>7. queue' \in Seq(Cmds)
    BY <2>3, <2>5, <2>6 DEF Cmds
  <2> QED
    BY <2>1, <2>7
<1>15. CASE ReportLost
  BY <1>15 DEF ReportLost
<1>16. CASE ReportRefused
  BY <1>16 DEF ReportRefused, EnterTerminal
<1>17. CASE RetryElapses
  BY <1>17 DEF RetryElapses
<1>18. CASE FetchElapses
  BY <1>18 DEF FetchElapses
<1>19. CASE CoolsDown
  BY <1>19 DEF CoolsDown
<1>20. ASSUME NEW c \in Cmds, InvestigationEnds(c) PROVE CommandTypes'
  BY <1>20 DEF InvestigationEnds
<1>21. ASSUME NEW c \in Local, LookRequest(c) PROVE CommandTypes'
  BY <1>21 DEF LookRequest
<1>22. ASSUME NEW c \in Local, SubmitRequest(c) PROVE CommandTypes'
  <2>1. UNCHANGED <<accepted, queue, taken, inflight, runs>>
    BY <1>22 DEF SubmitRequest
  <2>2. request' \in {request, c} /\ client' \in {[client EXCEPT ![c] = c], [client EXCEPT ![c] = "done"]}
    BY <1>22 DEF SubmitRequest
  <2>3. replaced' = replaced \/ Replace(request, c)
    BY <1>22 DEF SubmitRequest
  <2>4. replaced' \in [Local -> Local \cup {Nobody}]
    BY <2>3 DEF Replace
  <2> QED
    BY <2>1, <2>2, <2>4
<1>23. ASSUME NEW c \in Local, RefreshFactsEnds(c) PROVE CommandTypes'
  BY <1>23 DEF RefreshFactsEnds
<1>24. ASSUME NEW c \in Remote, Issue(c) PROVE CommandTypes'
  BY <1>24 DEF Issue
<1>25. ASSUME NEW code \in Codes, Refuse(code) PROVE CommandTypes'
  BY <1>25 DEF Refuse
<1>26. CASE Lift
  BY <1>26 DEF Lift
<1>27. CASE TickFails
  <2>1. UNCHANGED <<request, client, runs, replaced>> /\ taken' = Nobody /\ accepted' = Nobody /\ queue' = <<>> /\ inflight' = [c \in Cmds |-> "no"]
    BY <1>27 DEF TickFails, Fresh
  <2> QED
    BY <2>1
<1>28. CASE Crash
  <2>1. UNCHANGED <<request, client, runs, replaced>> /\ taken' = Nobody /\ accepted' = Nobody /\ queue' = <<>> /\ inflight' = [c \in Cmds |-> "no"]
    BY <1>28 DEF Crash, Fresh
  <2> QED
    BY <2>1
<1> QED
  BY <1>u, <1>1, <1>2, <1>3, <1>4, <1>5, <1>6, <1>7, <1>8, <1>8b, <1>9, <1>10, <1>11, <1>12, <1>13, <1>14, <1>15, <1>16, <1>17, <1>18, <1>19, <1>20, <1>21, <1>22, <1>23, <1>24, <1>25, <1>26, <1>27, <1>28 DEF Next, Loop


\* record_command and ack_from_record.
LEMMA RecordCommandType ==
  ASSUME HistoryTypes, NEW c \in Cmds, NEW o \in Outcomes, RecordCommand(c, o)
  PROVE  /\ h' \in Seq(Record) /\ Len(h') <= HistoryLimit
         /\ acks' \subseteq Ack /\ dropped' \subseteq Cmds /\ c \in Named(h')
<1>1. h' \in Seq(Record) /\ Len(h') <= HistoryLimit /\ c \in Named(h')
  BY RecordedType DEF RecordCommand, HistoryTypes
<1>2. acks' \subseteq Ack
  BY DEF RecordCommand, AckFor, Ack, HistoryTypes
<1>3. dropped' \subseteq Cmds
  BY NamedCmds DEF RecordCommand, HistoryTypes
<1> QED
  BY <1>1, <1>2, <1>3

\* The history in memory and on disk, and the acknowledgements.
LEMMA HistoryTypesStep == HistoryTypes /\ CommandTypes /\ [Next]_vars => HistoryTypes'
<1> SUFFICES ASSUME HistoryTypes, CommandTypes, [Next]_vars PROVE HistoryTypes'
  OBVIOUS
<1> USE DEF HistoryTypes, files, auth, commands, link, gateway, bounds, ghosts
<1>u. CASE UNCHANGED vars
  BY <1>u DEF vars
<1>1. CASE Start
  <2>1. h' \in {hist, <<>>} /\ UNCHANGED hist /\ acks' = {}
    BY <1>1 DEF Start, Fresh
  <2>2. dropped' \in {dropped, dropped \cup Named(hist)}
    BY <1>1 DEF Start
  <2>3. h' \in Seq(Record) /\ Len(h') <= HistoryLimit
    <3>1. <<>> \in Seq(Record) /\ Len(<<>>) <= HistoryLimit
      BY ControlAssumption
    <3> QED
      BY <2>1, <3>1
  <2> QED
    BY <2>1, <2>2, <2>3, NamedCmds
<1>2. CASE ClearLedger
  BY <1>2 DEF ClearLedger
<1>3. CASE SkipTerminal
  BY <1>3 DEF SkipTerminal
<1>4. CASE ProbeRefused
  BY <1>4 DEF ProbeRefused
<1>5. CASE Recovered
  BY <1>5 DEF Recovered
<1>6. CASE RenewalRevoked
  BY <1>6 DEF RenewalRevoked, EnterTerminal
<1>7. CASE RenewalQuiet
  BY <1>7 DEF RenewalQuiet
<1>8. CASE ReadLocal
  BY <1>8 DEF ReadLocal
<1>8b. CASE RemoveLocal
  <2>1. UNCHANGED <<hist, h, acks>> /\ dropped' \subseteq dropped \cup ({request} \ {Nobody})
    BY <1>8b DEF RemoveLocal
  <2> QED
    BY <2>1 DEF CommandTypes, Cmds
<1>9. CASE Drain
  <2>1. CASE UNCHANGED <<h, acks, dropped>>
    BY <1>9, <2>1 DEF Drain
  <2>2. ASSUME NEW d \in Cmds, RecordCommand(d, InvestigationOutcome(d)) PROVE HistoryTypes'
    <3>1. InvestigationOutcome(d) \in Outcomes
      BY DEF InvestigationOutcome, Outcomes
    <3>2. UNCHANGED hist
      BY <1>9 DEF Drain
    <3> QED
      BY <2>2, <3>1, <3>2, RecordCommandType
  <2> QED
    BY <1>9, <2>1, <2>2 DEF Drain
<1>10. CASE HandleCommand
  <2>1. PICK c \in Cmds : Duplicate(c) \/ Decline(c) \/ AcceptRefresh(c) \/ AcceptProbe(c) \/ AcceptInvestigate(c)
    BY <1>10, HandledHow DEF CommandTypes
  <2>2. UNCHANGED hist
    BY <1>10 DEF HandleCommand
  <2>3. ASSUME NEW o \in Outcomes, RecordCommand(c, o) PROVE HistoryTypes'
    BY <2>2, <2>3, RecordCommandType
  <2>4. CASE Duplicate(c)
    <3>1. \A r \in Find(c) : r \in Record
      BY DEF Find, ToSet
    <3>2. \A r \in Find(c) : AckFor(c, r.outcome) \subseteq Ack
      BY <3>1 DEF AckFor, Ack, Record
    <3>3. acks' \subseteq Ack /\ UNCHANGED <<h, dropped>>
      BY <2>4, <3>2 DEF Duplicate
    <3> QED
      BY <2>2, <3>3
  <2>5. CASE Decline(c)
    BY <2>3, <2>5 DEF Decline
  <2>6. CASE AcceptRefresh(c)
    BY <2>2, <2>6 DEF AcceptRefresh
  <2>7. CASE AcceptProbe(c)
    BY <2>3, <2>7 DEF AcceptProbe, Outcomes
  <2>8. CASE AcceptInvestigate(c)
    BY <2>2, <2>8 DEF AcceptInvestigate, AckFor, Ack
  <2> QED
    BY <2>1, <2>4, <2>5, <2>6, <2>7, <2>8
<1>11. CASE QueueDone
  BY <1>11 DEF QueueDone
<1>12. CASE FetchUplink
  BY <1>12 DEF FetchUplink, Observe
<1>13. CASE Tick
  <2>1. h' \in Seq(Record) /\ Len(h') <= HistoryLimit /\ acks' \subseteq Ack
    <3>1. CASE accepted = Nobody
      BY <1>13, <3>1 DEF Tick
    <3>2. CASE accepted # Nobody
      <4>1. PICK o \in RefreshOutcomes : h' = Recorded(accepted, o) /\ acks' = acks \cup AckFor(accepted, o)
        BY <1>13, <3>2 DEF Tick
      <4>2. o \in Outcomes /\ accepted \in Cmds
        BY <3>2, <4>1 DEF RefreshOutcomes, Outcomes, CommandTypes
      <4>3. AckFor(accepted, o) \subseteq Ack
        BY <4>2 DEF AckFor, Ack
      <4> QED
        BY <4>1, <4>2, <4>3, RecordedType
    <3> QED
      BY <3>1, <3>2
  <2>2. hist' \in {hist, h'} /\ dropped' \subseteq dropped \cup Named(h) \cup Named(h')
    BY <1>13 DEF Tick, StoreHistory
  <2>3. Named(h) \subseteq Cmds /\ Named(h') \subseteq Cmds
    BY <2>1, NamedCmds
  <2> QED
    BY <2>1, <2>2, <2>3
<1>14. CASE ReportAccepted
  BY <1>14 DEF ReportAccepted
<1>15. CASE ReportLost
  BY <1>15 DEF ReportLost
<1>16. CASE ReportRefused
  BY <1>16 DEF ReportRefused, EnterTerminal
<1>17. CASE RetryElapses
  BY <1>17 DEF RetryElapses
<1>18. CASE FetchElapses
  BY <1>18 DEF FetchElapses
<1>19. CASE CoolsDown
  BY <1>19 DEF CoolsDown
<1>20. ASSUME NEW c \in Cmds, InvestigationEnds(c) PROVE HistoryTypes'
  BY <1>20 DEF InvestigationEnds
<1>21. ASSUME NEW c \in Local, LookRequest(c) PROVE HistoryTypes'
  BY <1>21 DEF LookRequest
<1>22. ASSUME NEW c \in Local, SubmitRequest(c) PROVE HistoryTypes'
  <2>1. UNCHANGED <<hist, h, acks>> /\ dropped' \subseteq dropped \cup ({request} \ {Nobody})
    BY <1>22 DEF SubmitRequest
  <2> QED
    BY <2>1 DEF CommandTypes, Cmds
<1>23. ASSUME NEW c \in Local, RefreshFactsEnds(c) PROVE HistoryTypes'
  BY <1>23 DEF RefreshFactsEnds
<1>24. ASSUME NEW c \in Remote, Issue(c) PROVE HistoryTypes'
  BY <1>24 DEF Issue
<1>25. ASSUME NEW code \in Codes, Refuse(code) PROVE HistoryTypes'
  BY <1>25 DEF Refuse
<1>26. CASE Lift
  BY <1>26 DEF Lift
<1>27. CASE TickFails
  <2>1. h' = <<>> /\ acks' = {}
    BY <1>27 DEF TickFails, Fresh
  <2>2. h' \in Seq(Record) /\ Len(h') <= HistoryLimit
    BY <2>1, ControlAssumption
  <2> DEFINE last == IF accepted # Nobody THEN Recorded(accepted, "failed") ELSE h
  <2>3. last \in Seq(Record) /\ Len(last) <= HistoryLimit
    BY RecordedType DEF CommandTypes, Outcomes
  <2>4. Named(last) \subseteq Cmds /\ Named(h) \subseteq Cmds
    BY <2>3, NamedCmds
  <2>5. hist' \in {hist, last} /\ dropped' \subseteq dropped \cup Cmds \cup Named(h) \cup Named(last)
    BY <1>27 DEF TickFails
  <2> QED
    BY <2>1, <2>2, <2>3, <2>4, <2>5
<1>28. CASE Crash
  <2>1. h' = <<>> /\ UNCHANGED hist /\ acks' = {} /\ dropped' = dropped \cup (Unstored \cap Cmds)
    BY <1>28 DEF Crash, Fresh
  <2>2. h' \in Seq(Record) /\ Len(h') <= HistoryLimit
    BY <2>1, ControlAssumption
  <2> QED
    BY <2>1, <2>2
<1> QED
  BY <1>u, <1>1, <1>2, <1>3, <1>4, <1>5, <1>6, <1>7, <1>8, <1>8b, <1>9, <1>10, <1>11, <1>12, <1>13, <1>14, <1>15, <1>16, <1>17, <1>18, <1>19, <1>20, <1>21, <1>22, <1>23, <1>24, <1>25, <1>26, <1>27, <1>28 DEF Next, Loop

\* What the gateway holds of its commands.
LEMMA VerdictTypesStep == VerdictTypes /\ [Next]_vars => VerdictTypes'
<1> SUFFICES ASSUME VerdictTypes, [Next]_vars PROVE VerdictTypes'
  OBVIOUS
<1> USE DEF VerdictTypes, files, auth, commands, link, gateway, bounds, ghosts
<1>u. CASE UNCHANGED vars
  BY <1>u DEF vars
<1>1. CASE Start
  BY <1>1 DEF Start, Fresh
<1>2. CASE ClearLedger
  BY <1>2 DEF ClearLedger
<1>3. CASE SkipTerminal
  BY <1>3 DEF SkipTerminal
<1>4. CASE ProbeRefused
  BY <1>4 DEF ProbeRefused
<1>5. CASE Recovered
  BY <1>5 DEF Recovered
<1>6. CASE RenewalRevoked
  BY <1>6 DEF RenewalRevoked, EnterTerminal
<1>7. CASE RenewalQuiet
  BY <1>7 DEF RenewalQuiet
<1>8. CASE ReadLocal
  BY <1>8 DEF ReadLocal
<1>8b. CASE RemoveLocal
  BY <1>8b DEF RemoveLocal
<1>9. CASE Drain
  BY <1>9 DEF Drain
<1>10. CASE HandleCommand
  BY <1>10 DEF HandleCommand
<1>11. CASE QueueDone
  BY <1>11 DEF QueueDone
<1>12. CASE FetchUplink
  BY <1>12 DEF FetchUplink, Observe
<1>13. CASE Tick
  BY <1>13 DEF Tick
<1>14. CASE ReportAccepted
  BY <1>14 DEF ReportAccepted, TakeAcks
<1>15. CASE ReportLost
  BY <1>15 DEF ReportLost, TakeAcks
<1>16. CASE ReportRefused
  BY <1>16 DEF ReportRefused, EnterTerminal
<1>17. CASE RetryElapses
  BY <1>17 DEF RetryElapses
<1>18. CASE FetchElapses
  BY <1>18 DEF FetchElapses
<1>19. CASE CoolsDown
  BY <1>19 DEF CoolsDown
<1>20. ASSUME NEW c \in Cmds, InvestigationEnds(c) PROVE VerdictTypes'
  BY <1>20 DEF InvestigationEnds
<1>21. ASSUME NEW c \in Local, LookRequest(c) PROVE VerdictTypes'
  BY <1>21 DEF LookRequest
<1>22. ASSUME NEW c \in Local, SubmitRequest(c) PROVE VerdictTypes'
  BY <1>22 DEF SubmitRequest
<1>23. ASSUME NEW c \in Local, RefreshFactsEnds(c) PROVE VerdictTypes'
  BY <1>23 DEF RefreshFactsEnds
<1>24. ASSUME NEW c \in Remote, Issue(c) PROVE VerdictTypes'
  BY <1>24 DEF Issue
<1>25. ASSUME NEW code \in Codes, Refuse(code) PROVE VerdictTypes'
  BY <1>25 DEF Refuse
<1>26. CASE Lift
  BY <1>26 DEF Lift
<1>27. CASE TickFails
  BY <1>27 DEF TickFails, Fresh
<1>28. CASE Crash
  BY <1>28 DEF Crash, Fresh
<1> QED
  BY <1>u, <1>1, <1>2, <1>3, <1>4, <1>5, <1>6, <1>7, <1>8, <1>8b, <1>9, <1>10, <1>11, <1>12, <1>13, <1>14, <1>15, <1>16, <1>17, <1>18, <1>19, <1>20, <1>21, <1>22, <1>23, <1>24, <1>25, <1>26, <1>27, <1>28 DEF Next, Loop

-----------------------------------------------------------------------------
(* Why the uplink stands by.                                                *)

\* A tick that knows of a refusal has put the uplink in standby before it gets to
\* run_once, and only the fetch of this tick may take it out again.
StandbyOK ==
  /\ pc = "renew" => term = "none"
  /\ pc \in {"take", "remove", "drain", "handle", "fetch"} /\ term # "none" => uplink = "standby"
  /\ NoSendWhenRefused

\* RenewalRevoked and ReportRefused force the standby, the fetch keeps it.
LEMMA StandbyStep == StandbyOK /\ [Next]_vars => StandbyOK'
<1> SUFFICES ASSUME StandbyOK, [Next]_vars PROVE StandbyOK'
  OBVIOUS
<1> USE DEF StandbyOK, NoSendWhenRefused, files, auth, commands, link, gateway, bounds, ghosts
<1>u. CASE UNCHANGED vars
  BY <1>u DEF vars
<1>1. CASE Start
  BY <1>1 DEF Start, Fresh
<1>2. CASE ClearLedger
  BY <1>2 DEF ClearLedger
<1>3. CASE SkipTerminal
  BY <1>3 DEF SkipTerminal
<1>4. CASE ProbeRefused
  BY <1>4 DEF ProbeRefused
<1>5. CASE Recovered
  BY <1>5 DEF Recovered
<1>6. CASE RenewalRevoked
  BY <1>6 DEF RenewalRevoked, EnterTerminal
<1>7. CASE RenewalQuiet
  BY <1>7 DEF RenewalQuiet
<1>8. CASE ReadLocal
  BY <1>8 DEF ReadLocal
<1>8b. CASE RemoveLocal
  BY <1>8b DEF RemoveLocal
<1>9. CASE Drain
  BY <1>9 DEF Drain
<1>10. CASE HandleCommand
  BY <1>10 DEF HandleCommand
<1>11. CASE QueueDone
  BY <1>11 DEF QueueDone
<1>12. CASE FetchUplink
  BY <1>12 DEF FetchUplink, Observe
<1>13. CASE Tick
  BY <1>13 DEF Tick
<1>14. CASE ReportAccepted
  BY <1>14 DEF ReportAccepted
<1>15. CASE ReportLost
  BY <1>15 DEF ReportLost
<1>16. CASE ReportRefused
  BY <1>16 DEF ReportRefused, EnterTerminal
<1>17. CASE RetryElapses
  BY <1>17 DEF RetryElapses
<1>18. CASE FetchElapses
  BY <1>18 DEF FetchElapses
<1>19. CASE CoolsDown
  BY <1>19 DEF CoolsDown
<1>20. ASSUME NEW c \in Cmds, InvestigationEnds(c) PROVE StandbyOK'
  BY <1>20 DEF InvestigationEnds
<1>21. ASSUME NEW c \in Local, LookRequest(c) PROVE StandbyOK'
  BY <1>21 DEF LookRequest
<1>22. ASSUME NEW c \in Local, SubmitRequest(c) PROVE StandbyOK'
  BY <1>22 DEF SubmitRequest
<1>23. ASSUME NEW c \in Local, RefreshFactsEnds(c) PROVE StandbyOK'
  BY <1>23 DEF RefreshFactsEnds
<1>24. ASSUME NEW c \in Remote, Issue(c) PROVE StandbyOK'
  BY <1>24 DEF Issue
<1>25. ASSUME NEW code \in Codes, Refuse(code) PROVE StandbyOK'
  BY <1>25 DEF Refuse
<1>26. CASE Lift
  BY <1>26 DEF Lift
<1>27. CASE TickFails
  BY <1>27 DEF TickFails, Fresh
<1>28. CASE Crash
  BY <1>28 DEF Crash, Fresh
<1> QED
  BY <1>u, <1>1, <1>2, <1>3, <1>4, <1>5, <1>6, <1>7, <1>8, <1>8b, <1>9, <1>10, <1>11, <1>12, <1>13, <1>14, <1>15, <1>16, <1>17, <1>18, <1>19, <1>20, <1>21, <1>22, <1>23, <1>24, <1>25, <1>26, <1>27, <1>28 DEF Next, Loop

-----------------------------------------------------------------------------
(* Why a command is executed once.                                          *)

\* Tasks are investigations, the accepted command is a refresh: what is in work as one
\* is never taken for the other.
KindsOK ==
  /\ \A c \in Cmds : inflight[c] # "no" => KindOf(c) = "investigate"
  /\ accepted # Nobody => KindOf(accepted) \notin {"investigate", "probe"}

\* A command that was executed has left something that handle_command_queue will see:
\* a result, or its being in work; without a process, a result on disk.
Seen(c) ==
  IF pc = "down" THEN c \in Named(hist)
  ELSE c \in Named(h) \/ c = accepted \/ inflight[c] # "no"
CountOK == \A c \in Cmds : c \notin dropped => runs[c] <= 1 /\ (runs[c] = 1 => Seen(c))

ControlInv == Types /\ StandbyOK /\ KindsOK /\ CountOK

\* What evaluate_command says depends on the kind of the command.
LEMMA VerdictKinds ==
  ASSUME NEW c
  PROVE  /\ "investigate" \in Verdicts(c) => KindOf(c) = "investigate"
         /\ "probe" \in Verdicts(c) => KindOf(c) = "probe"
         /\ "refresh" \in Verdicts(c) => accepted = Nobody /\ KindOf(c) \notin {"investigate", "probe"}
<1> DEFINE fresh == CASE KindOf(c) = "investigate" -> "investigate"
                 [] KindOf(c) = "bad_params" -> "failed"
                 [] KindOf(c) = "probe" -> "probe"
                 [] OTHER -> IF accepted # Nobody \/ cool THEN "throttled" ELSE "refresh"
<1>1. Verdicts(c) = IF KindOf(c) = "unknown" THEN {"unsupported"} ELSE {"stale", fresh}
  BY DEF Verdicts
<1>2. CASE KindOf(c) = "investigate"
  BY <1>1, <1>2
<1>3. CASE KindOf(c) = "bad_params"
  BY <1>1, <1>3
<1>4. CASE KindOf(c) = "probe"
  BY <1>1, <1>4
<1>5. CASE KindOf(c) \notin {"investigate", "bad_params", "probe"}
  BY <1>1, <1>5
<1> QED
  BY <1>2, <1>3, <1>4, <1>5

\* The kind of what is in work.
LEMMA KindsStep == KindsOK /\ CommandTypes /\ [Next]_vars => KindsOK'
<1> SUFFICES ASSUME KindsOK, CommandTypes, [Next]_vars PROVE KindsOK'
  OBVIOUS
<1> USE DEF KindsOK, KindOf, files, auth, commands, link, gateway, bounds, ghosts
<1>u. CASE UNCHANGED vars
  BY <1>u DEF vars
<1>1. CASE Start
  BY <1>1 DEF Start, Fresh
<1>2. CASE ClearLedger
  BY <1>2 DEF ClearLedger
<1>3. CASE SkipTerminal
  BY <1>3 DEF SkipTerminal
<1>4. CASE ProbeRefused
  BY <1>4 DEF ProbeRefused
<1>5. CASE Recovered
  BY <1>5 DEF Recovered
<1>6. CASE RenewalRevoked
  BY <1>6 DEF RenewalRevoked, EnterTerminal
<1>7. CASE RenewalQuiet
  BY <1>7 DEF RenewalQuiet
<1>8. CASE ReadLocal
  BY <1>8 DEF ReadLocal
<1>8b. CASE RemoveLocal
  BY <1>8b DEF RemoveLocal
<1>9. CASE Drain
  <2>1. UNCHANGED <<kind, accepted>>
    BY <1>9 DEF Drain
  <2>2. \A d \in Cmds : inflight'[d] # "no" => inflight[d] # "no"
    BY <1>9 DEF Drain, CommandTypes
  <2> QED
    BY <2>1, <2>2
<1>10. CASE HandleCommand
  <2>1. PICK c \in Cmds : Duplicate(c) \/ Decline(c) \/ AcceptRefresh(c) \/ AcceptProbe(c) \/ AcceptInvestigate(c)
    BY <1>10, HandledHow DEF CommandTypes
  <2>2. UNCHANGED kind
    BY <1>10 DEF HandleCommand
  <2>3. CASE UNCHANGED <<accepted, inflight>>
    BY <2>2, <2>3
  <2>4. CASE AcceptRefresh(c)
    BY <2>2, <2>4, VerdictKinds DEF AcceptRefresh
  <2>5. CASE AcceptInvestigate(c)
    <3>1. KindOf(c) = "investigate" /\ UNCHANGED accepted
      BY <2>5, VerdictKinds DEF AcceptInvestigate
    <3>2. \A d \in Cmds : inflight'[d] # "no" => inflight[d] # "no" \/ d = c
      BY <2>5 DEF AcceptInvestigate, CommandTypes
    <3> QED
      BY <2>2, <3>1, <3>2
  <2> QED
    BY <2>1, <2>3, <2>4, <2>5 DEF Duplicate, Decline, AcceptProbe
<1>11. CASE QueueDone
  BY <1>11 DEF QueueDone
<1>12. CASE FetchUplink
  BY <1>12 DEF FetchUplink, Observe
<1>13. CASE Tick
  BY <1>13 DEF Tick
<1>14. CASE ReportAccepted
  BY <1>14 DEF ReportAccepted
<1>15. CASE ReportLost
  BY <1>15 DEF ReportLost
<1>16. CASE ReportRefused
  BY <1>16 DEF ReportRefused, EnterTerminal
<1>17. CASE RetryElapses
  BY <1>17 DEF RetryElapses
<1>18. CASE FetchElapses
  BY <1>18 DEF FetchElapses
<1>19. CASE CoolsDown
  BY <1>19 DEF CoolsDown
<1>20. ASSUME NEW c \in Cmds, InvestigationEnds(c) PROVE KindsOK'
  <2>1. UNCHANGED <<kind, accepted>> /\ inflight[c] = "running"
    BY <1>20 DEF InvestigationEnds
  <2>2. \A d \in Cmds : inflight'[d] # "no" => inflight[d] # "no"
    BY <1>20 DEF InvestigationEnds, CommandTypes
  <2> QED
    BY <2>1, <2>2
<1>21. ASSUME NEW c \in Local, LookRequest(c) PROVE KindsOK'
  BY <1>21 DEF LookRequest
<1>22. ASSUME NEW c \in Local, SubmitRequest(c) PROVE KindsOK'
  BY <1>22 DEF SubmitRequest
<1>23. ASSUME NEW c \in Local, RefreshFactsEnds(c) PROVE KindsOK'
  BY <1>23 DEF RefreshFactsEnds
<1>24. ASSUME NEW c \in Remote, Issue(c) PROVE KindsOK'
  BY <1>24 DEF Issue
<1>25. ASSUME NEW code \in Codes, Refuse(code) PROVE KindsOK'
  BY <1>25 DEF Refuse
<1>26. CASE Lift
  BY <1>26 DEF Lift
<1>27. CASE TickFails
  BY <1>27 DEF TickFails, Fresh
<1>28. CASE Crash
  BY <1>28 DEF Crash, Fresh
<1> QED
  BY <1>u, <1>1, <1>2, <1>3, <1>4, <1>5, <1>6, <1>7, <1>8, <1>8b, <1>9, <1>10, <1>11, <1>12, <1>13, <1>14, <1>15, <1>16, <1>17, <1>18, <1>19, <1>20, <1>21, <1>22, <1>23, <1>24, <1>25, <1>26, <1>27, <1>28 DEF Next, Loop

\* The count of one command moves by at most one.
LEMMA ExecutedOnce ==
  ASSUME CommandTypes, NEW c \in Cmds, Executed(c)
  PROVE  /\ \A d \in Cmds : d # c => runs'[d] = runs[d]
         /\ runs[c] = 0 => runs'[c] = 1
<1>1. runs \in [Cmds -> 0..2]
  BY DEF CommandTypes
<1> QED
  BY <1>1 DEF Executed

\* A command that is recorded is seen from then on, and what the record pushes out of
\* the history is written off.
LEMMA RecordCommandSeen ==
  ASSUME HistoryTypes, NEW c \in Cmds, NEW o \in Outcomes, RecordCommand(c, o)
  PROVE  /\ c \in Named(h')
         /\ \A d \in Named(h) : d \in Named(h') \/ d \in dropped'
         /\ dropped \subseteq dropped'
  BY RecordCommandType DEF RecordCommand

\* A command in the queue that is not found and not in work was not executed, or written off.
LEMMA NotYetRun ==
  ASSUME CountOK, CommandTypes, HistoryTypes, NEW c \in Cmds, pc # "down", Find(c) = {},
         c # accepted, inflight[c] = "no", c \notin dropped
  PROVE  runs[c] = 0
<1>1. runs[c] \in 0..2
  BY DEF CommandTypes
<1>2. c \notin Named(h)
  BY NotFound DEF HistoryTypes
<1>3. ~ Seen(c)
  BY <1>2 DEF Seen
<1> QED
  BY <1>1, <1>3 DEF CountOK

\* Each step keeps an executed command in sight, or writes it off.
LEMMA CountStep == CountOK /\ KindsOK /\ CommandTypes /\ HistoryTypes /\ [Next]_vars => CountOK'
<1> SUFFICES ASSUME CountOK, KindsOK, CommandTypes, HistoryTypes, [Next]_vars PROVE CountOK'
  OBVIOUS
<1> USE DEF CountOK, Seen, files, auth, commands, link, gateway, bounds, ghosts
<1>u. CASE UNCHANGED vars
  BY <1>u DEF vars
<1>1. CASE Start
  <2>1. pc = "down" /\ pc' # "down" /\ runs' = runs /\ dropped \subseteq dropped'
    BY <1>1 DEF Start, Fresh
  <2>2. h' = hist \/ Named(hist) \subseteq dropped'
    BY <1>1 DEF Start
  <2> QED
    BY <2>1, <2>2
<1>2. CASE ClearLedger
  <2>1. UNCHANGED <<runs, h, hist, accepted, inflight>> /\ dropped \subseteq dropped'
    BY <1>2 DEF ClearLedger
  <2>2. pc = "down" <=> pc' = "down"
    BY <1>2 DEF ClearLedger
  <2> QED
    BY <2>1, <2>2
<1>3. CASE SkipTerminal
  <2>1. UNCHANGED <<runs, h, hist, accepted, inflight>> /\ dropped \subseteq dropped'
    BY <1>3 DEF SkipTerminal
  <2>2. pc = "down" <=> pc' = "down"
    BY <1>3 DEF SkipTerminal
  <2> QED
    BY <2>1, <2>2
<1>4. CASE ProbeRefused
  <2>1. UNCHANGED <<runs, h, hist, accepted, inflight>> /\ dropped \subseteq dropped'
    BY <1>4 DEF ProbeRefused
  <2>2. pc = "down" <=> pc' = "down"
    BY <1>4 DEF ProbeRefused
  <2> QED
    BY <2>1, <2>2
<1>5. CASE Recovered
  <2>1. UNCHANGED <<runs, h, hist, accepted, inflight>> /\ dropped \subseteq dropped'
    BY <1>5 DEF Recovered
  <2>2. pc = "down" <=> pc' = "down"
    BY <1>5 DEF Recovered
  <2> QED
    BY <2>1, <2>2
<1>6. CASE RenewalRevoked
  <2>1. UNCHANGED <<runs, h, hist, accepted, inflight>> /\ dropped \subseteq dropped'
    BY <1>6 DEF RenewalRevoked
  <2>2. pc = "down" <=> pc' = "down"
    BY <1>6 DEF RenewalRevoked
  <2> QED
    BY <2>1, <2>2
<1>7. CASE RenewalQuiet
  <2>1. UNCHANGED <<runs, h, hist, accepted, inflight>> /\ dropped \subseteq dropped'
    BY <1>7 DEF RenewalQuiet
  <2>2. pc = "down" <=> pc' = "down"
    BY <1>7 DEF RenewalQuiet
  <2> QED
    BY <2>1, <2>2
<1>8. CASE ReadLocal
  <2>1. UNCHANGED <<runs, h, hist, accepted, inflight>> /\ dropped \subseteq dropped'
    BY <1>8 DEF ReadLocal
  <2>2. pc = "down" <=> pc' = "down"
    BY <1>8 DEF ReadLocal
  <2> QED
    BY <2>1, <2>2
<1>8b. CASE RemoveLocal
  <2>1. UNCHANGED <<runs, h, hist, accepted, inflight>> /\ dropped \subseteq dropped'
    BY <1>8b DEF RemoveLocal
  <2>2. pc = "down" <=> pc' = "down"
    BY <1>8b DEF RemoveLocal
  <2> QED
    BY <2>1, <2>2
<1>9. CASE Drain
  <2>1. CASE UNCHANGED <<h, inflight, dropped>>
    BY <1>9, <2>1 DEF Drain
  <2>2. ASSUME NEW d \in Cmds, RecordCommand(d, InvestigationOutcome(d)), inflight' = [inflight EXCEPT ![d] = "no"]
        PROVE  CountOK'
    <3>1. InvestigationOutcome(d) \in Outcomes
      BY DEF InvestigationOutcome, Outcomes
    <3>2. pc = "drain" /\ pc' # "down" /\ UNCHANGED <<accepted, runs>>
      BY <1>9 DEF Drain
    <3>3. \A c \in Cmds : c # d => inflight'[c] = inflight[c]
      BY <2>2 DEF CommandTypes
    <3>4. /\ d \in Named(h')
          /\ \A c \in Named(h) : c \in Named(h') \/ c \in dropped'
          /\ dropped \subseteq dropped'
      BY <2>2, <3>1, RecordCommandSeen
    <3> QED
      BY <3>2, <3>3, <3>4
  <2> QED
    BY <1>9, <2>1, <2>2 DEF Drain
<1>10. CASE HandleCommand
  <2>1. PICK c \in Cmds : Duplicate(c) \/ Decline(c) \/ AcceptRefresh(c) \/ AcceptProbe(c) \/ AcceptInvestigate(c)
    BY <1>10, HandledHow DEF CommandTypes
  <2>2. pc = "handle" /\ pc' = "handle"
    BY <1>10 DEF HandleCommand
  <2>3. CASE Duplicate(c)
    BY <2>2, <2>3 DEF Duplicate
  <2>4. CASE Decline(c)
    <3>1. PICK v \in Outcomes : RecordCommand(c, v)
      BY <2>4 DEF Decline
    <3>2. UNCHANGED <<accepted, inflight, runs>>
      BY <2>4 DEF Decline
    <3>3. /\ \A d \in Named(h) : d \in Named(h') \/ d \in dropped'
          /\ dropped \subseteq dropped'
      BY <3>1, RecordCommandSeen
    <3> QED
      BY <2>2, <3>2, <3>3
  <2>5. CASE AcceptRefresh(c)
    <3>1. accepted = Nobody /\ KindOf(c) \notin {"investigate", "probe"} /\ Find(c) = {}
      BY <2>5, VerdictKinds DEF AcceptRefresh
    <3>2. inflight[c] = "no" /\ c # accepted
      BY <3>1, ControlAssumption DEF KindsOK
    <3>3. c \notin dropped => runs[c] = 0
      BY <2>2, <3>1, <3>2, NotYetRun
    <3>4. UNCHANGED <<h, inflight, dropped>> /\ accepted' = c /\ Executed(c)
      BY <2>5 DEF AcceptRefresh
    <3>5. \A d \in Cmds : d # c => runs'[d] = runs[d]
      BY <3>4, ExecutedOnce
    <3>6. c \notin dropped => runs'[c] = 1
      BY <3>3, <3>4, ExecutedOnce
    <3> QED
      BY <2>2, <3>1, <3>4, <3>5, <3>6, ControlAssumption
  <2>6. CASE AcceptProbe(c)
    <3>1. KindOf(c) = "probe" /\ Find(c) = {}
      BY <2>6, VerdictKinds DEF AcceptProbe
    <3>2. inflight[c] = "no" /\ c # accepted
      BY <3>1, ControlAssumption DEF KindsOK
    <3>3. c \notin dropped => runs[c] = 0
      BY <2>2, <3>1, <3>2, NotYetRun
    <3>4. PICK o \in Outcomes : RecordCommand(c, o)
      BY <2>6 DEF AcceptProbe, Outcomes
    <3>5. UNCHANGED <<accepted, inflight>> /\ Executed(c)
      BY <2>6 DEF AcceptProbe
    <3>6. \A d \in Cmds : d # c => runs'[d] = runs[d]
      BY <3>5, ExecutedOnce
    <3>7. c \notin dropped => runs'[c] = 1
      BY <3>3, <3>5, ExecutedOnce
    <3>8. /\ c \in Named(h')
          /\ \A d \in Named(h) : d \in Named(h') \/ d \in dropped'
          /\ dropped \subseteq dropped'
      BY <3>4, RecordCommandSeen
    <3> QED
      BY <2>2, <3>5, <3>6, <3>7, <3>8
  <2>7. CASE AcceptInvestigate(c)
    <3>1. KindOf(c) = "investigate" /\ Find(c) = {} /\ UNCHANGED <<h, accepted, dropped>>
      BY <2>7, VerdictKinds DEF AcceptInvestigate
    <3>2. CASE UNCHANGED <<inflight, runs>>
      BY <2>2, <3>1, <3>2
    <3>3. CASE inflight[c] = "no" /\ inflight' = [inflight EXCEPT ![c] = "running"] /\ Executed(c)
      <4>1. c # accepted
        BY <3>1, ControlAssumption DEF KindsOK
      <4>2. c \notin dropped => runs[c] = 0
        BY <2>2, <3>1, <3>3, <4>1, NotYetRun
      <4>3. \A d \in Cmds : d # c => runs'[d] = runs[d] /\ inflight'[d] = inflight[d]
        BY <3>3, ExecutedOnce DEF CommandTypes
      <4>4. c \notin dropped => runs'[c] = 1
        BY <3>3, <4>2, ExecutedOnce
      <4>5. inflight'[c] # "no"
        BY <3>3 DEF CommandTypes
      <4> QED
        BY <2>2, <3>1, <4>3, <4>4, <4>5
    <3> QED
      BY <2>7, <3>2, <3>3 DEF AcceptInvestigate, AlreadyRunning
  <2> QED
    BY <2>1, <2>3, <2>4, <2>5, <2>6, <2>7
<1>11. CASE QueueDone
  <2>1. UNCHANGED <<runs, h, hist, accepted, inflight>> /\ dropped \subseteq dropped'
    BY <1>11 DEF QueueDone
  <2>2. pc = "down" <=> pc' = "down"
    BY <1>11 DEF QueueDone
  <2> QED
    BY <2>1, <2>2
<1>12. CASE FetchUplink
  <2>1. UNCHANGED <<runs, h, hist, accepted, inflight>> /\ dropped \subseteq dropped'
    BY <1>12 DEF FetchUplink
  <2>2. pc = "down" <=> pc' = "down"
    BY <1>12 DEF FetchUplink
  <2> QED
    BY <2>1, <2>2
<1>13. CASE Tick
  <2>1. pc = "run" /\ pc' = "report" /\ UNCHANGED <<inflight, runs>> /\ accepted' = Nobody
    BY <1>13 DEF Tick
  <2>2. \A c \in Named(h) : c \in Named(h') \/ c \in dropped'
    BY <1>13 DEF Tick, StoreHistory
  <2>3. dropped \subseteq dropped'
    BY <1>13 DEF Tick, StoreHistory
  <2>4. accepted # Nobody => accepted \in Named(h')
    <3> HAVE accepted # Nobody
    <3>1. PICK o \in RefreshOutcomes : h' = Recorded(accepted, o)
      BY <1>13 DEF Tick
    <3>2. o \in Outcomes /\ accepted \in Cmds
      BY <3>1 DEF RefreshOutcomes, Outcomes, CommandTypes
    <3> QED
      BY <3>1, <3>2, RecordedType DEF HistoryTypes
  <2> QED
    BY <2>1, <2>2, <2>3, <2>4, ControlAssumption
<1>14. CASE ReportAccepted
  <2>1. UNCHANGED <<runs, h, hist, accepted, inflight>> /\ dropped \subseteq dropped'
    BY <1>14 DEF ReportAccepted
  <2>2. pc = "down" <=> pc' = "down"
    BY <1>14 DEF ReportAccepted
  <2> QED
    BY <2>1, <2>2
<1>15. CASE ReportLost
  <2>1. UNCHANGED <<runs, h, hist, accepted, inflight>> /\ dropped \subseteq dropped'
    BY <1>15 DEF ReportLost
  <2>2. pc = "down" <=> pc' = "down"
    BY <1>15 DEF ReportLost
  <2> QED
    BY <2>1, <2>2
<1>16. CASE ReportRefused
  <2>1. UNCHANGED <<runs, h, hist, accepted, inflight>> /\ dropped \subseteq dropped'
    BY <1>16 DEF ReportRefused
  <2>2. pc = "down" <=> pc' = "down"
    BY <1>16 DEF ReportRefused
  <2> QED
    BY <2>1, <2>2
<1>17. CASE RetryElapses
  <2>1. UNCHANGED <<runs, h, hist, accepted, inflight>> /\ dropped \subseteq dropped'
    BY <1>17 DEF RetryElapses
  <2>2. pc = "down" <=> pc' = "down"
    BY <1>17 DEF RetryElapses
  <2> QED
    BY <2>1, <2>2
<1>18. CASE FetchElapses
  <2>1. UNCHANGED <<runs, h, hist, accepted, inflight>> /\ dropped \subseteq dropped'
    BY <1>18 DEF FetchElapses
  <2>2. pc = "down" <=> pc' = "down"
    BY <1>18 DEF FetchElapses
  <2> QED
    BY <2>1, <2>2
<1>19. CASE CoolsDown
  <2>1. UNCHANGED <<runs, h, hist, accepted, inflight>> /\ dropped \subseteq dropped'
    BY <1>19 DEF CoolsDown
  <2>2. pc = "down" <=> pc' = "down"
    BY <1>19 DEF CoolsDown
  <2> QED
    BY <2>1, <2>2
<1>20. ASSUME NEW c \in Cmds, InvestigationEnds(c) PROVE CountOK'
  <2>1. UNCHANGED <<runs, h, hist, accepted, dropped, pc>>
    BY <1>20 DEF InvestigationEnds
  <2>2. \A d \in Cmds : inflight[d] # "no" => inflight'[d] # "no"
    BY <1>20 DEF InvestigationEnds, CommandTypes
  <2> QED
    BY <2>1, <2>2
<1>21. ASSUME NEW c \in Local, LookRequest(c) PROVE CountOK'
  <2>1. UNCHANGED <<runs, h, hist, accepted, inflight>> /\ dropped \subseteq dropped'
    BY <1>21 DEF LookRequest
  <2>2. pc = "down" <=> pc' = "down"
    BY <1>21 DEF LookRequest
  <2> QED
    BY <2>1, <2>2
<1>22. ASSUME NEW c \in Local, SubmitRequest(c) PROVE CountOK'
  <2>1. UNCHANGED <<runs, h, hist, accepted, inflight>> /\ dropped \subseteq dropped'
    BY <1>22 DEF SubmitRequest
  <2>2. pc = "down" <=> pc' = "down"
    BY <1>22 DEF SubmitRequest
  <2> QED
    BY <2>1, <2>2
<1>23. ASSUME NEW c \in Local, RefreshFactsEnds(c) PROVE CountOK'
  <2>1. UNCHANGED <<runs, h, hist, accepted, inflight>> /\ dropped \subseteq dropped'
    BY <1>23 DEF RefreshFactsEnds
  <2>2. pc = "down" <=> pc' = "down"
    BY <1>23 DEF RefreshFactsEnds
  <2> QED
    BY <2>1, <2>2
<1>24. ASSUME NEW c \in Remote, Issue(c) PROVE CountOK'
  <2>1. UNCHANGED <<runs, h, hist, accepted, inflight>> /\ dropped \subseteq dropped'
    BY <1>24 DEF Issue
  <2>2. pc = "down" <=> pc' = "down"
    BY <1>24 DEF Issue
  <2> QED
    BY <2>1, <2>2
<1>25. ASSUME NEW code \in Codes, Refuse(code) PROVE CountOK'
  <2>1. UNCHANGED <<runs, h, hist, accepted, inflight>> /\ dropped \subseteq dropped'
    BY <1>25 DEF Refuse
  <2>2. pc = "down" <=> pc' = "down"
    BY <1>25 DEF Refuse
  <2> QED
    BY <2>1, <2>2
<1>26. CASE Lift
  <2>1. UNCHANGED <<runs, h, hist, accepted, inflight>> /\ dropped \subseteq dropped'
    BY <1>26 DEF Lift
  <2>2. pc = "down" <=> pc' = "down"
    BY <1>26 DEF Lift
  <2> QED
    BY <2>1, <2>2
<1>27. CASE TickFails
  <2> DEFINE last == IF accepted # Nobody THEN Recorded(accepted, "failed") ELSE h
             running == {c \in Cmds : inflight[c] # "no"}
  <2>1. pc = "run" /\ pc' = "down" /\ UNCHANGED runs
    BY <1>27 DEF TickFails, Fresh
  <2>2. accepted # Nobody => accepted \in Named(last)
    BY RecordedType DEF HistoryTypes, CommandTypes, Outcomes
  <2>3. \/ /\ hist' = (IF dirty \/ accepted # Nobody THEN last ELSE hist)
           /\ dropped' = dropped \cup running \cup (Named(h) \ Named(hist'))
        \/ /\ hist' = hist
           /\ dropped' = dropped \cup running \cup ((Named(h) \cup Named(last)) \ Named(hist))
    BY <1>27 DEF TickFails
  <2> HIDE DEF last
  <2>4. accepted # Nobody => accepted \in Named(hist') \/ accepted \in dropped'
    BY <2>2, <2>3
  <2>5. \A c \in Named(h) : c \in Named(hist') \/ c \in dropped'
    BY <2>3
  <2>6. dropped \cup running \subseteq dropped'
    BY <2>3
  <2> QED
    BY <2>1, <2>4, <2>5, <2>6, ControlAssumption
<1>28. CASE Crash
  <2>1. pc # "down" /\ pc' = "down" /\ UNCHANGED <<runs, hist>> /\ dropped' = dropped \cup (Unstored \cap Cmds)
    BY <1>28 DEF Crash, Fresh
  <2>2. \A c \in Cmds : Seen(c) => c \in Unstored \/ c \in Named(hist)
    BY <2>1 DEF Unstored
  <2> QED
    BY <2>1, <2>2
<1> QED
  BY <1>u, <1>1, <1>2, <1>3, <1>4, <1>5, <1>6, <1>7, <1>8, <1>8b, <1>9, <1>10, <1>11, <1>12, <1>13, <1>14, <1>15, <1>16, <1>17, <1>18, <1>19, <1>20, <1>21, <1>22, <1>23, <1>24, <1>25, <1>26, <1>27, <1>28 DEF Next, Loop

-----------------------------------------------------------------------------
LEMMA InitInv == Init => ControlInv
<1> SUFFICES ASSUME Init PROVE ControlInv
  OBVIOUS
<1>1. PICK sc \in Scenarios : grant = sc.grant /\ client = [c \in Local |-> IF c \in sc.local THEN "idle" ELSE "done"]
  BY DEF Init
<1>2. grant \in {"on", "standby"}
  BY <1>1, ControlAssumption
<1>3. AuthTypes /\ FlagTypes
  BY <1>2 DEF Init, AuthTypes, FlagTypes
<1>4. CommandTypes
  BY <1>1 DEF Init, CommandTypes
<1>5. HistoryTypes
  <2>1. <<>> \in Seq(Record) /\ Len(<<>>) <= HistoryLimit
    BY ControlAssumption
  <2> QED
    BY <2>1 DEF Init, HistoryTypes
<1>6. VerdictTypes
  BY DEF Init, VerdictTypes
<1>7. StandbyOK /\ KindsOK /\ CountOK
  BY DEF Init, StandbyOK, NoSendWhenRefused, KindsOK, CountOK
<1> QED
  BY <1>3, <1>4, <1>5, <1>6, <1>7 DEF ControlInv, Types

LEMMA NextInv == ControlInv /\ [Next]_vars => ControlInv'
  BY AuthTypesStep, FlagTypesStep, CommandTypesStep, HistoryTypesStep, VerdictTypesStep, StandbyStep,
     KindsStep, CountStep DEF ControlInv, Types

\* handle_command_queue, CommandHistory, force_standby: for every set of commands, limit
\* of the history and scenario of crashes, lost requests, refusals and failing files, a
\* command is executed once unless it was written off, a tick that knows its credential
\* to be refused has the uplink in standby, and all state keeps its shape.
THEOREM ControlSafeHolds == Spec => []ControlSafe
<1>1. ControlInv => ControlSafe
  <2> SUFFICES ASSUME ControlInv PROVE ControlSafe
    OBVIOUS
  <2>1. TypeOK
    BY TypesAre DEF ControlInv
  <2>2. RunOnce
    BY DEF ControlInv, CountOK, RunOnce
  <2>3. NoSendWhenRefused
    BY DEF ControlInv, StandbyOK
  <2> QED
    BY <2>1, <2>2, <2>3 DEF ControlSafe
<1> QED
  BY <1>1, InitInv, NextInv, PTL DEF Spec

=============================================================================
