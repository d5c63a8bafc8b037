------------------------------ MODULE Control ------------------------------
(***************************************************************************)
(* The control loop of the daemon (run_forever_async): the terminal state  *)
(* after a refused credential and its ledger, the one-shot commands that   *)
(* come with the answer of a status report and whose results leave with    *)
(* the next one, the local command of `refresh-facts`, investigations that *)
(* run beside the loop, and the uplink grant.  One tick is the chain       *)
(*                                                                         *)
(*   clear -> term -> renew -> take -> remove -> drain -> handle -> fetch  *)
(*         -> run -> report -> clear                                       *)
(*                                                                         *)
(* and the process may be killed at every point of it.  Identity models    *)
(* where the credential comes from; here the gateway accepts or refuses it *)
(* as an operator decides.                                                 *)
(***************************************************************************)
EXTENDS Naturals, Sequences, FiniteSets, SequencesExt

CONSTANTS
  Remote,        \* commands of the gateway
  Local,         \* commands of refresh-facts, each submitted at most once
  Nobody,        \* no command
  HistoryLimit,  \* HISTORY_LIMIT
  Scenarios      \* bounds: the commands there are, and how often what may go wrong

Cmds == Remote \cup Local
Kinds == {"refresh", "probe", "investigate", "bad_params", "unknown"}
Codes == {"certificate_revoked", "certificate_mismatch"}

\* A scenario: the kinds of the remote commands it has, its local commands, whether
\* the gateway grants the uplink; how often the process dies, a request or its
\* answer gets lost, the gateway starts to refuse the credential, and reading or
\* writing a file or the tick itself fails.
ASSUME ControlAssumption ==
  /\ Remote \cap Local = {} /\ Nobody \notin Cmds /\ IsFiniteSet(Remote)
  /\ HistoryLimit \in Nat \ {0}
  /\ \A sc \in Scenarios :
       /\ DOMAIN sc.kind \subseteq Remote /\ \A c \in DOMAIN sc.kind : sc.kind[c] \in Kinds
       /\ sc.local \subseteq Local /\ sc.grant \in {"on", "standby"}
       /\ {sc.crash, sc.lost, sc.refuse, sc.fault} \subseteq Nat

VARIABLES
  \* files
  ledger,    \* auth_terminal.json: the code, "none" without the file
  hist,      \* command_history.json: results in the order of completion
  request,   \* command.request.json
  \* memory of the daemon
  pc, term, clearing, retryDue,
  h, dirty, acks, queue, accepted, inflight, cool,
  taken,     \* the local command that was read and whose file is about to be removed
  uplink, fetchDue,
  \* the refresh-facts processes
  client,    \* client[c]: "idle", "free" (the slot was), "done", or the command it waits for
  \* the gateway
  kind,      \* kind[c] of a remote command
  verdict,   \* verdict[c]: "none", "open", "accepted" or the outcome it was told
  refused,   \* the code it refuses the credential with, "none": accepted
  grant,     \* the uplink it wants: "on" or "standby"
  \* bounds and bookkeeping
  left,      \* what the scenario still allows
  runs,      \* runs[c]: executions of c, counted up to 2
  dropped,   \* commands that a crash, a failed read or write or the limit has lost
  replaced,  \* replaced[c]: the local command in whose favour c was lost unread
  unsaved,   \* the last write or removal of the ledger failed
  regranted  \* the gateway granted the uplink in this very tick

files    == <<ledger, hist, request>>
auth     == <<term, clearing, retryDue, unsaved>>
commands == <<h, dirty, acks, queue, accepted, inflight, cool, taken>>
link     == <<uplink, fetchDue, regranted>>
gateway  == <<kind, verdict, refused, grant>>
bounds   == <<client, left>>
ghosts   == <<runs, dropped, replaced>>
vars     == <<files, pc, auth, commands, link, gateway, bounds, ghosts>>

-----------------------------------------------------------------------------
Outcomes == {"succeeded", "failed", "no_uplink", "throttled", "stale", "unsupported"}
Closed(c) == verdict[c] \in Outcomes
KindOf(c) == IF c \in Local THEN "refresh" ELSE kind[c]

Record == [cmd : Cmds, outcome : Outcomes]
Ack == [cmd : Remote, outcome : Outcomes \cup {"accepted"}]

\* CommandHistory::find
Find(c) == {r \in ToSet(h) : r.cmd = c}

Named(s) == {r.cmd : r \in ToSet(s)}

\* CommandHistory::record, retain: a command has at most one record.
Without(c) ==
  IF c \in Named(h) THEN RemoveAt(h, CHOOSE i \in DOMAIN h : h[i].cmd = c) ELSE h

\* Mutant: the history is never cut.
RecordedUnlimited(c, outcome) == Append(Without(c), [cmd |-> c, outcome |-> outcome])

\* CommandHistory::record: one record per command, the oldest go beyond the limit.
Recorded(c, outcome) ==
  LET all == Append(Without(c), [cmd |-> c, outcome |-> outcome])
  IN  IF Len(all) > HistoryLimit
      THEN SubSeq(all, Len(all) - HistoryLimit + 1, Len(all)) ELSE all

\* ack_from_record: results of remote commands go back, those of local ones stay.
AckFor(c, outcome) == IF c \in Remote THEN {[cmd |-> c, outcome |-> outcome]} ELSE {}

\* record_command
RecordCommand(c, outcome) ==
  /\ h' = Recorded(c, outcome) /\ dirty' = TRUE
  /\ acks' = acks \cup AckFor(c, outcome)
  /\ dropped' = dropped \cup (Named(h) \ Named(h'))

Executed(c) == runs' = [runs EXCEPT ![c] = IF @ < 2 THEN @ + 1 ELSE @]

\* What a new process starts from.
Fresh ==
  /\ clearing' = FALSE /\ retryDue' = TRUE
  /\ dirty' = FALSE /\ acks' = {} /\ queue' = <<>> /\ accepted' = Nobody
  /\ inflight' = [c \in Cmds |-> "no"] /\ cool' = FALSE /\ taken' = Nobody
  /\ uplink' = "none" /\ fetchDue' = TRUE /\ regranted' = FALSE
  /\ UNCHANGED <<runs, replaced>>

Init ==
  /\ ledger = "none" /\ hist = <<>> /\ request = Nobody
  /\ pc = "down" /\ term = "none" /\ clearing = FALSE /\ retryDue = TRUE /\ unsaved = FALSE
  /\ h = <<>> /\ dirty = FALSE /\ acks = {} /\ queue = <<>> /\ accepted = Nobody
  /\ inflight = [c \in Cmds |-> "no"] /\ cool = FALSE /\ taken = Nobody
  /\ uplink = "none" /\ fetchDue = TRUE /\ regranted = FALSE
  /\ verdict = [c \in Remote |-> "none"] /\ refused = "none"
  /\ \E sc \in Scenarios :
       /\ kind = sc.kind /\ client = [c \in Local |-> IF c \in sc.local THEN "idle" ELSE "done"] /\ grant = sc.grant
       /\ left = [crash |-> sc.crash, lost |-> sc.lost, refuse |-> sc.refuse, fault |-> sc.fault]
  /\ runs = [c \in Cmds |-> 0] /\ dropped = {} /\ replaced = [c \in Local |-> Nobody]

\* What goes wrong is taken from what the scenario allows.
Spend(lost, fault) ==
  /\ left.lost >= lost /\ left.fault >= fault
  /\ left' = [left EXCEPT !.lost = @ - lost, !.fault = @ - fault]
Fails(n) == Spend(0, n)
Works == UNCHANGED left

-----------------------------------------------------------------------------
(* Start: load_terminal_ledger and load_history; the uplink grant is not    *)
(* kept on disk.                                                            *)

Start ==
  /\ pc = "down" /\ pc' = "clear"
  /\ \/ term' = ledger /\ h' = hist /\ UNCHANGED <<ledger, dropped>> /\ Works
     \/ /\ term' = "none" /\ ledger' = "none" /\ h' = hist /\ UNCHANGED dropped /\ Fails(1)
     \/ /\ term' = ledger /\ h' = <<>> /\ UNCHANGED ledger /\ Fails(1)
        /\ dropped' = dropped \cup Named(hist)
  /\ unsaved' = FALSE /\ Fresh
  /\ UNCHANGED <<hist, request, gateway, client>>

\* The process dies: what the memory alone knows is gone.
Unstored == (Named(h) \ Named(hist)) \cup ToSet(queue) \cup {accepted} \cup ({taken} \ {request})
            \cup {c \in Cmds : inflight[c] # "no"}
Crash ==
  /\ pc # "down" /\ left.crash > 0 /\ left' = [left EXCEPT !.crash = @ - 1]
  /\ pc' = "down" /\ dropped' = dropped \cup (Unstored \cap Cmds)
  /\ term' = "none" /\ h' = <<>> /\ unsaved' = FALSE /\ Fresh
  /\ UNCHANGED <<files, gateway, client>>

-----------------------------------------------------------------------------
(* The terminal state.                                                      *)

\* clear_terminal_ledger_if_pending
ClearLedger ==
  /\ pc = "clear" /\ pc' = "term"
  /\ IF clearing
     THEN \/ ledger' = "none" /\ clearing' = FALSE /\ Works
          \/ UNCHANGED <<ledger, clearing>> /\ Fails(1)
     ELSE UNCHANGED <<ledger, clearing>> /\ Works
  /\ UNCHANGED <<hist, request, term, retryDue, unsaved, commands, link, gateway, ghosts>>
  /\ UNCHANGED client

\* No terminal state: an ordinary tick.  Not yet time to retry: the loop sleeps.
SkipTerminal ==
  /\ pc = "term"
  /\ \/ term = "none" /\ pc' = "renew"
     \/ term # "none" /\ ~retryDue /\ pc' = "clear"
  /\ UNCHANGED <<files, auth, commands, link, gateway, bounds, ghosts>>

\* retry_terminal_probe, still refused or no answer: attempts and, where the
\* gateway now gives another reason, the code go to the ledger.
ProbeRefused ==
  /\ pc = "term" /\ term # "none" /\ retryDue
  /\ retryDue' = FALSE /\ pc' = "clear"
  /\ \E unanswered, unwritten \in {0, 1} :
       /\ Spend(unanswered, unwritten)
       /\ \/ unanswered = 1 /\ UNCHANGED term
          \/ unanswered = 0 /\ refused # "none" /\ term' = refused
       /\ ledger' = IF unwritten = 1 THEN ledger ELSE term'
       /\ unsaved' = (unwritten = 1)
  /\ UNCHANGED <<hist, request, clearing, commands, link, gateway, ghosts>>
  /\ UNCHANGED client

\* Mutant: a ledger that could not be removed is forgotten.
RecoveredForgetful ==
  /\ pc = "term" /\ term # "none" /\ retryDue /\ refused = "none"
  /\ term' = "none" /\ pc' = "renew" /\ UNCHANGED <<retryDue, clearing>>
  /\ \/ ledger' = "none" /\ unsaved' = FALSE /\ Works
     \/ ledger' = term /\ unsaved' = FALSE /\ Fails(1)
     \/ UNCHANGED ledger /\ unsaved' = FALSE /\ Fails(2)
  /\ UNCHANGED <<hist, request, commands, link, gateway, ghosts>>
  /\ UNCHANGED client

\* retry_terminal_probe accepted: the ledger is written once more and removed;
\* the tick then goes on as an ordinary one.
Recovered ==
  /\ pc = "term" /\ term # "none" /\ retryDue /\ refused = "none"
  /\ term' = "none" /\ pc' = "renew" /\ UNCHANGED retryDue
  /\ \/ ledger' = "none" /\ clearing' = FALSE /\ unsaved' = FALSE /\ Works
     \/ ledger' = term /\ clearing' = TRUE /\ unsaved' = FALSE /\ Fails(1)
     \/ UNCHANGED ledger /\ clearing' = TRUE /\ unsaved' = FALSE /\ Fails(2)
  /\ UNCHANGED <<hist, request, commands, link, gateway, ghosts>>
  /\ UNCHANGED client

RetryElapses ==
  /\ pc = "clear" /\ ~retryDue /\ retryDue' = TRUE
  /\ UNCHANGED <<files, pc, term, clearing, unsaved, commands, link, gateway, bounds, ghosts>>

\* enter_terminal_if_absent: the first to see the code writes the ledger; a
\* failed write does not keep the daemon out of the terminal state.
EnterTerminal(code) ==
  IF term # "none" THEN UNCHANGED <<term, ledger, unsaved>> /\ Works
  ELSE /\ term' = code
       /\ \/ ledger' = code /\ unsaved' = FALSE /\ Works
          \/ UNCHANGED ledger /\ unsaved' = TRUE /\ Fails(1)

\* Mutant: the renewal enters the terminal state and leaves the uplink as it is.
RevokedButSending ==
  /\ pc = "renew" /\ pc' = "take" /\ refused # "none"
  /\ EnterTerminal("certificate_revoked")
  /\ UNCHANGED link
  /\ UNCHANGED <<hist, request, clearing, retryDue, commands, gateway, ghosts>>
  /\ UNCHANGED client

\* The hourly renewal: a refusal of any code is "revoked"; force_standby.
RenewalRevoked ==
  /\ pc = "renew" /\ pc' = "take" /\ refused # "none"
  /\ EnterTerminal("certificate_revoked")
  /\ uplink' = "standby" /\ UNCHANGED <<fetchDue, regranted>>
  /\ UNCHANGED <<hist, request, clearing, retryDue, commands, gateway, ghosts>>
  /\ UNCHANGED client

\* Not due, renewed, failed or without a certificate: only a line in the log.
RenewalQuiet ==
  /\ pc = "renew" /\ pc' = "take"
  /\ UNCHANGED <<files, auth, commands, link, gateway, bounds, ghosts>>

-----------------------------------------------------------------------------
(* Commands.                                                                *)

\* refresh-facts, a process of its own: submit_request looks at the slot first and
\* waits for the command that is there already; one it cannot read does not count.
LookRequest(c) ==
  /\ client[c] = "idle"
  /\ \/ client' = [client EXCEPT ![c] = IF request = Nobody THEN "free" ELSE request] /\ Works
     \/ request # Nobody /\ client' = [client EXCEPT ![c] = "free"] /\ Fails(1)
  /\ UNCHANGED <<files, pc, auth, commands, link, gateway, ghosts>>

\* Command w leaves the slot unread because of c, and so, in effect, do those that
\* w had replaced.
Replace(w, c) ==
  replaced' = [x \in Local |-> IF w \in {x, replaced[x]} \ {Nobody} THEN c ELSE replaced[x]]

\* Then it writes: another one may have done so since, and its command is gone
\* unless the daemon has read it.
SubmitRequest(c) ==
  /\ client[c] = "free"
  /\ \/ /\ request' = c /\ client' = [client EXCEPT ![c] = c] /\ Works
        /\ IF request = taken THEN UNCHANGED replaced ELSE Replace(request, c)
     \/ client' = [client EXCEPT ![c] = "done"] /\ Fails(1) /\ UNCHANGED <<request, replaced>>
  /\ UNCHANGED <<ledger, hist, pc, auth, commands, link, gateway, runs, dropped>>

\* run_refresh_facts: the ledger is polled until the command is in it, or the time is over.
RefreshFactsEnds(c) ==
  /\ client[c] \in Local
  /\ client' = [client EXCEPT ![c] = "done"]
  /\ UNCHANGED <<files, pc, auth, commands, link, gateway, left, ghosts>>

\* take_local_command, read_request: a command that cannot be read is removed all
\* the same.
ReadLocal ==
  /\ pc = "take"
  /\ \/ request = Nobody /\ pc' = "drain" /\ UNCHANGED taken /\ Works
     \/ request # Nobody /\ pc' = "remove" /\ taken' = request /\ Works
     \/ request # Nobody /\ pc' = "remove" /\ UNCHANGED taken /\ Fails(1)
  /\ UNCHANGED <<files, auth, h, dirty, acks, queue, accepted, inflight, cool, link, gateway>>
  /\ UNCHANGED <<client, ghosts>>

\* Mutant: a command is only taken if it is still the one in the slot.
RemoveIfSame ==
  /\ pc = "remove" /\ pc' = "drain" /\ taken' = Nobody
  /\ queue' = IF taken = request THEN Append(queue, taken) ELSE queue
  /\ request' = Nobody /\ Works /\ UNCHANGED dropped
  /\ IF request = taken THEN UNCHANGED replaced ELSE Replace(request, taken)
  /\ UNCHANGED <<ledger, hist, auth, h, dirty, acks, accepted, inflight, cool, link, gateway>>
  /\ UNCHANGED <<client, runs>>

\* take_local_command, remove_request: whatever is in the slot by now goes; if that
\* fails it is picked up again.
RemoveLocal ==
  /\ pc = "remove" /\ pc' = "drain" /\ taken' = Nobody
  /\ queue' = IF taken = Nobody THEN queue ELSE Append(queue, taken)
  /\ \/ /\ request' = Nobody /\ Works
        /\ IF taken = Nobody THEN dropped' = dropped \cup ({request} \ {Nobody}) /\ UNCHANGED replaced
           ELSE /\ UNCHANGED dropped
                /\ IF request = taken THEN UNCHANGED replaced ELSE Replace(request, taken)
     \/ UNCHANGED <<request, dropped, replaced>> /\ Fails(1)
  /\ UNCHANGED <<ledger, hist, auth, h, dirty, acks, accepted, inflight, cool, link, gateway>>
  /\ UNCHANGED <<client, runs>>

\* An investigation's own task ends: with a report, or with an error or a panic.
InvestigationEnds(c) ==
  /\ pc # "down" /\ inflight[c] = "running"
  /\ \E how \in {"report", "error"} : inflight' = [inflight EXCEPT ![c] = how]
  /\ UNCHANGED <<files, pc, auth, h, dirty, acks, queue, accepted, cool, taken, link, gateway>>
  /\ UNCHANGED <<bounds, ghosts>>

\* deliver_investigation: the report is sent over the data plane (LogInput has
\* that frame); whether or not it could be sent, the investigation succeeded.
InvestigationOutcome(c) == IF inflight[c] = "report" THEN "succeeded" ELSE "failed"

\* drain_finished_investigations: only tasks that have ended are awaited.
Drain ==
  /\ pc = "drain"
  /\ IF \E c \in Cmds : inflight[c] \in {"report", "error"}
     THEN /\ \E c \in Cmds : /\ inflight[c] \in {"report", "error"}
                             /\ RecordCommand(c, InvestigationOutcome(c))
                             /\ inflight' = [inflight EXCEPT ![c] = "no"]
          /\ UNCHANGED pc
     ELSE pc' = "handle" /\ UNCHANGED <<h, dirty, acks, inflight, dropped>>
  /\ UNCHANGED <<files, auth, queue, accepted, cool, taken, link, gateway, bounds, runs, replaced>>

\* evaluate_command: what happens to command c; a command may have become stale.
Verdicts(c) ==
  LET fresh == CASE KindOf(c) = "investigate" -> "investigate"
                 [] KindOf(c) = "bad_params" -> "failed"
                 [] KindOf(c) = "probe" -> "probe"
                 [] OTHER -> IF accepted # Nobody \/ cool THEN "throttled" ELSE "refresh"
  IN  IF KindOf(c) = "unknown" THEN {"unsupported"} ELSE {"stale", fresh}

\* Mutant: a known command is passed over in silence.
DuplicateSilent(c) ==
  /\ Find(c) # {}
  /\ UNCHANGED <<h, dirty, acks, accepted, inflight, cool, ghosts>>

\* handle_command_queue, one command: known results are only repeated.
Duplicate(c) ==
  /\ Find(c) # {}
  /\ acks' = acks \cup UNION {AckFor(c, r.outcome) : r \in Find(c)}
  /\ UNCHANGED <<h, dirty, accepted, inflight, cool, ghosts>>

\* Answered at once, without doing anything.
Decline(c) ==
  /\ Find(c) = {}
  /\ \E v \in Verdicts(c) \cap Outcomes : RecordCommand(c, v)
  /\ UNCHANGED <<accepted, inflight, cool, runs>>

\* AcceptRefresh: the work itself is the forced tick that follows.
AcceptRefresh(c) ==
  /\ Find(c) = {} /\ "refresh" \in Verdicts(c)
  /\ accepted' = c /\ cool' = TRUE /\ Executed(c)
  /\ UNCHANGED <<h, dirty, acks, inflight, dropped>>

\* AcceptProbe, report_path_probe
AcceptProbe(c) ==
  /\ Find(c) = {} /\ "probe" \in Verdicts(c)
  /\ \E outcome \in {"succeeded", "failed"} : RecordCommand(c, outcome)
  /\ Executed(c) /\ UNCHANGED <<accepted, inflight, cool>>

\* Mutant: a command that is already being worked on is started again.
InvestigateAgain(c) ==
  /\ Find(c) = {} /\ "investigate" \in Verdicts(c)
  /\ acks' = acks \cup AckFor(c, "accepted")
  /\ inflight' = [inflight EXCEPT ![c] = "running"] /\ Executed(c)
  /\ UNCHANGED <<h, dirty, accepted, cool, dropped>>

\* investigation_already_running: until its result is recorded.
AlreadyRunning(c) == inflight[c] # "no"

\* AcceptInvestigate: "accepted" is told each time, the task is started once.
AcceptInvestigate(c) ==
  /\ Find(c) = {} /\ "investigate" \in Verdicts(c)
  /\ acks' = acks \cup AckFor(c, "accepted")
  /\ IF AlreadyRunning(c) THEN UNCHANGED <<inflight, runs>>
     ELSE inflight' = [inflight EXCEPT ![c] = "running"] /\ Executed(c)
  /\ UNCHANGED <<h, dirty, accepted, cool, dropped>>

HandleCommand ==
  /\ pc = "handle" /\ queue # <<>> /\ queue' = Tail(queue)
  /\ LET c == Head(queue)
     IN  \/ Duplicate(c) \/ Decline(c) \/ AcceptRefresh(c) \/ AcceptProbe(c)
         \/ AcceptInvestigate(c)
  /\ UNCHANGED <<files, pc, auth, taken, link, gateway, bounds, replaced>>

QueueDone ==
  /\ pc = "handle" /\ queue = <<>> /\ pc' = "fetch"
  /\ UNCHANGED <<files, auth, commands, link, gateway, bounds, ghosts>>

\* REFRESH_FACTS_MIN_INTERVAL has passed.
CoolsDown ==
  /\ pc = "clear" /\ cool /\ cool' = FALSE
  /\ UNCHANGED <<files, pc, auth, h, dirty, acks, queue, accepted, inflight, taken, link, gateway>>
  /\ UNCHANGED <<bounds, ghosts>>

-----------------------------------------------------------------------------
(* The uplink grant, the tick and the status report.                        *)

\* Mutant: a standby is never left again.
ObserveSticky(answer) ==
  CASE answer = "granted" -> IF uplink = "standby" THEN uplink ELSE grant
    [] answer = "rejected" -> "standby"
    [] OTHER -> uplink

\* AppliedUplink::observe of one fetch: a grant is applied, a refusal puts the
\* uplink in standby, a failure keeps what there was.
Observe(answer) ==
  CASE answer = "granted" -> grant
    [] answer = "rejected" -> "standby"
    [] OTHER -> uplink

\* refresh_uplink_grant
FetchUplink ==
  /\ pc = "fetch" /\ pc' = "run"
  /\ IF ~fetchDue THEN UNCHANGED <<uplink, fetchDue, left>> /\ regranted' = FALSE
     ELSE /\ fetchDue' = FALSE
          /\ \E answer \in {"granted", "rejected", "failed"} :
               /\ answer = "granted" => refused = "none"
               /\ answer = "rejected" => refused # "none"
               /\ Spend(IF answer = "failed" THEN 1 ELSE 0, 0)
               /\ uplink' = Observe(answer)
               /\ regranted' = (answer = "granted")
  /\ UNCHANGED <<files, auth, commands, gateway, client, ghosts>>

FetchElapses ==
  /\ pc = "clear" /\ ~fetchDue /\ fetchDue' = TRUE
  /\ UNCHANGED <<files, pc, auth, commands, uplink, regranted, gateway, bounds, ghosts>>

\* effective_output, refresh_facts_outcome: only a tcp output carries the facts; a
\* grant makes the output one, without it the configured kind decides.
RefreshOutcomes == {"succeeded", "failed"} \cup (IF uplink = "on" THEN {} ELSE {"no_uplink"})

\* Mutant: only a history with something to acknowledge is stored.
StoreAcknowledged(new) ==
  IF new /\ acks' # {} THEN hist' = h' /\ UNCHANGED dropped /\ Works
  ELSE UNCHANGED <<hist, dropped>> /\ Works

\* store_history, if anything was recorded; a failed write is only logged.
StoreHistory(new) ==
  \/ new /\ hist' = h' /\ dropped' = dropped \cup (Named(h) \ Named(h')) /\ Works
  \/ /\ new /\ UNCHANGED hist /\ Fails(1)
     /\ dropped' = dropped \cup (Named(h) \ Named(h')) \cup (Named(h') \ Named(hist))
  \/ ~new /\ UNCHANGED <<hist, dropped>> /\ Works

\* run_once, then the result of the accepted refresh
Tick ==
  /\ pc = "run" /\ pc' = "report"
  /\ IF accepted = Nobody THEN UNCHANGED <<h, acks>>
     ELSE \E outcome \in RefreshOutcomes :
            /\ h' = Recorded(accepted, outcome)
            /\ acks' = acks \cup AckFor(accepted, outcome)
  /\ StoreHistory(dirty \/ accepted # Nobody) /\ dirty' = FALSE
  /\ accepted' = Nobody /\ regranted' = FALSE
  /\ UNCHANGED <<ledger, request, auth, queue, inflight, cool, taken, uplink, fetchDue, gateway>>
  /\ UNCHANGED <<client, runs, replaced>>

\* run_once fails: the accepted command has failed, the history is stored if it can
\* be, and the daemon ends with the error.
TickFails ==
  /\ pc = "run" /\ pc' = "down"
  /\ LET last == IF accepted # Nobody THEN Recorded(accepted, "failed") ELSE h
         running == {c \in Cmds : inflight[c] # "no"}
     IN  \/ /\ hist' = (IF dirty \/ accepted # Nobody THEN last ELSE hist) /\ Fails(1)
            /\ dropped' = dropped \cup running \cup (Named(h) \ Named(hist'))
         \/ /\ dirty \/ accepted # Nobody
            /\ UNCHANGED hist /\ Fails(2)
            /\ dropped' = dropped \cup running \cup ((Named(h) \cup Named(last)) \ Named(hist))
  /\ term' = "none" /\ h' = <<>> /\ unsaved' = FALSE /\ Fresh
  /\ UNCHANGED <<ledger, request, gateway, client>>

\* The gateway takes the acknowledgements: "accepted" is a stage, an outcome is
\* final, the first one counts.
Acknowledged(c) ==
  LET told == {a.outcome : a \in {b \in acks : b.cmd = c}}
  IN  IF verdict[c] \in Outcomes \/ told = {} THEN {verdict[c]}
      ELSE IF told \cap Outcomes # {} THEN told \cap Outcomes
      ELSE {"accepted"}
TakeAcks == verdict' \in {v \in [Remote -> Outcomes \cup {"none", "open", "accepted"}] :
                            \A c \in Remote : v[c] \in Acknowledged(c)}

\* Commands of the answer: those without an outcome, before or after the
\* acknowledgements of the same request are taken into account.
Offered(v) == {c \in Remote : v[c] \in {"open", "accepted"}}

\* report_status_to_control_plane, accepted
ReportAccepted ==
  /\ pc = "report" /\ pc' = "clear" /\ refused = "none"
  /\ TakeAcks /\ acks' = {}
  /\ \E sent \in {Offered(verdict), Offered(verdict')} : queue' \in SetToSeqs(sent)
  /\ UNCHANGED <<files, auth, h, dirty, accepted, inflight, cool, taken, link, kind, refused, grant>>
  /\ UNCHANGED <<bounds, ghosts>>

\* The request or its answer is lost: the acknowledgements stay for the next one.
ReportLost ==
  /\ pc = "report" /\ pc' = "clear" /\ Spend(1, 0)
  /\ (TakeAcks /\ refused = "none") \/ UNCHANGED verdict
  /\ UNCHANGED <<files, auth, commands, link, kind, refused, grant>>
  /\ UNCHANGED <<client, ghosts>>

\* A terminal code in the answer: terminal state and standby.
ReportRefused ==
  /\ pc = "report" /\ pc' = "clear" /\ refused # "none"
  /\ EnterTerminal(refused)
  /\ uplink' = "standby" /\ UNCHANGED <<fetchDue, regranted>>
  /\ UNCHANGED <<hist, request, clearing, retryDue, commands, gateway, ghosts>>
  /\ UNCHANGED client

-----------------------------------------------------------------------------
(* The gateway and its operators.                                           *)

Issue(c) ==
  /\ c \in DOMAIN kind /\ verdict[c] = "none" /\ verdict' = [verdict EXCEPT ![c] = "open"]
  /\ UNCHANGED <<files, pc, auth, commands, link, kind, refused, grant, bounds, ghosts>>

Refuse(code) ==
  /\ left.refuse > 0 /\ left' = [left EXCEPT !.refuse = @ - 1]
  /\ refused # code /\ refused' = code
  /\ UNCHANGED <<files, pc, auth, commands, link, kind, verdict, grant>>
  /\ UNCHANGED <<client, ghosts>>

Lift ==
  /\ refused # "none" /\ refused' = "none"
  /\ UNCHANGED <<files, pc, auth, commands, link, kind, verdict, grant, bounds, ghosts>>

Loop ==
  \/ Start \/ ClearLedger \/ SkipTerminal \/ ProbeRefused \/ Recovered
  \/ RenewalRevoked \/ RenewalQuiet \/ ReadLocal \/ RemoveLocal \/ Drain \/ HandleCommand \/ QueueDone
  \/ FetchUplink \/ Tick \/ ReportAccepted \/ ReportLost \/ ReportRefused

Next ==
  \/ Loop \/ RetryElapses \/ FetchElapses \/ CoolsDown
  \/ \E c \in Cmds : InvestigationEnds(c)
  \/ \E c \in Local : LookRequest(c) \/ SubmitRequest(c) \/ RefreshFactsEnds(c)
  \/ \E c \in Remote : Issue(c)
  \/ \E code \in Codes : Refuse(code)
  \/ Lift \/ TickFails \/ Crash

\* The loop runs and is restarted when it ends; the clock goes on; a scan ends
\* (it is bounded in time) or its task does.
Fairness ==
  /\ WF_vars(Loop) /\ SF_vars(RetryElapses) /\ SF_vars(FetchElapses)
  /\ \A c \in Cmds : WF_vars(InvestigationEnds(c))

Spec == Init /\ [][Next]_vars /\ Fairness

-----------------------------------------------------------------------------
\* The ledgers, the memory of the loop and the gateway hold the values the code can give them.
TypeOK ==
  /\ ledger \in Codes \cup {"none"} /\ term \in Codes \cup {"none"}
  /\ hist \in Seq(Record) /\ Len(hist) <= HistoryLimit
  /\ h \in Seq(Record) /\ Len(h) <= HistoryLimit
  /\ request \in Local \cup {Nobody} /\ accepted \in Cmds \cup {Nobody}
  /\ taken \in Local \cup {Nobody} /\ replaced \in [Local -> Local \cup {Nobody}]
  /\ pc \in {"down", "clear", "term", "renew", "take", "remove", "drain", "handle", "fetch", "run", "report"}
  /\ acks \subseteq Ack /\ queue \in Seq(Cmds)
  /\ client \in [Local -> Local \cup {"idle", "free", "done"}]
  /\ inflight \in [Cmds -> {"no", "running", "report", "error"}]
  /\ uplink \in {"none", "standby", "on"}
  /\ verdict \in [Remote -> Outcomes \cup {"none", "open", "accepted"}]
  /\ refused \in Codes \cup {"none"} /\ grant \in {"on", "standby"}
  /\ runs \in [Cmds -> 0..2] /\ dropped \subseteq Cmds
  /\ {clearing, retryDue, dirty, cool, fetchDue, unsaved, regranted} \subseteq BOOLEAN

\* handle_command_queue, CommandHistory, investigation_already_running: however
\* often the gateway repeats a command, and whether its list was made before or
\* after it saw the acknowledgement, the machine executes it once, restarts
\* included; only a crash before the result is stored, a failed write or the
\* limit of the history may have it executed again.
RunOnce == \A c \in Cmds : runs[c] <= 1 \/ c \in dropped

\* enter_terminal_if_absent, clear_terminal_ledger_if_pending, retry_terminal_probe:
\* the ledger `diagnose` reads and the state of the daemon come together again
\* whatever write or removal failed: a removal that is still pending when the
\* terminal state is entered anew may take the new ledger away, and the next
\* retry puts it back.
LedgerAgrees == []<>(ledger = term)

\* force_standby: a tick in which the credential is known to be refused has the
\* uplink in standby (no source is read, no log or metric sent), unless the gateway
\* has granted it again in that very tick.
NoSendWhenRefused ==
  (pc = "run" /\ term # "none") => (uplink = "standby" \/ regranted)

\* A command of the gateway gets an outcome although reports are lost, the daemon
\* crashes or its credential is refused for a while.
CommandSettled ==
  \A c \in Remote : (verdict[c] = "open") ~> (Closed(c) \/ refused # "none")

\* A terminal state ends once the gateway accepts the credential again: the
\* daemon leaves it by itself, the ledger goes, the uplink comes back.
TerminalRecovers ==
  (refused = "none" /\ grant = "on")
    ~> (refused # "none" \/ (term = "none" /\ ledger = "none" /\ uplink = "on"))

\* The terminal state comes and goes with the refusal, and its ledger with it.
TerminalFollows == LedgerAgrees /\ TerminalRecovers

\* The ledgers are of their kind, a command is executed once, and a tick that knows its
\* credential to be refused collects with the uplink in standby unless the gateway
\* granted it in that tick.
ControlSafe == TypeOK /\ RunOnce /\ NoSendWhenRefused

\* submit_request, take_local_command, store_history: as long as the daemon does not
\* stay in the terminal state, where it takes no command, the command a refresh-facts
\* waits for, its own or the one it found in the slot, gets a result in the ledger it
\* polls unless a crash or a failed read or write has lost it.  Where two refresh-facts,
\* or one and the daemon, meet in the slot, one command is lost unread, and then
\* never both: the command that was kept gets its result.
LocalAnswered ==
  []<>(term = "none") =>
    \A w \in Local : (\E c \in Local : client[c] = w)
      ~> (w \in dropped \cup Named(hist) \/ replaced[w] \in dropped \cup Named(hist))
=============================================================================
