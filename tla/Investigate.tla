----------------------------- MODULE Investigate -----------------------------
(***************************************************************************)
(* What every investigation shares (investigate.rs): the request and its   *)
(* limits, findings with a status, and the report made of them: overall    *)
(* status, exit code, verdict, evidence, and the body sent to the gateway. *)
(* A finding is a record with an id, a status, the number of rows of its   *)
(* evidence table, the sources it was denied and the limits it declares.   *)
(***************************************************************************)
EXTENDS Integers, Sequences, FiniteSetsExt

CONSTANT MaxUplinkBody   \* MAX_UPLINK_BODY_BYTES, in units of a finding's size

Topics == {"disk", "load", "accounts", "persistence", "exposure", "telemetry-health"}
LinuxOnly == {"accounts", "persistence", "exposure"}
EvidenceOnly == {"exposure"}

MaxTop == 50
MaxDepthLimit == 64
MaxScanSeconds == 300

\* Order of the statuses as the enumeration declares them.
StatusRank == [ok |-> 0, warn |-> 1, fail |-> 2, unknown |-> 3]

Worse(a, b) == IF StatusRank[a] >= StatusRank[b] THEN a ELSE b

WorstOf(statuses) ==
    IF statuses = {} THEN "ok"
    ELSE CHOOSE s \in statuses : \A t \in statuses : StatusRank[s] >= StatusRank[t]

ClampTo(n, low, high) == IF n < low THEN low ELSE IF n > high THEN high ELSE n

-----------------------------------------------------------------------------
(* Requests.  None stands for a parameter the gateway left out.            *)

DefaultRequest == [topic |-> "disk", path |-> "none", top |-> 10, depth |-> 16, seconds |-> 120]

NormalizeRequest(r) ==
    [r EXCEPT !.top = ClampTo(@, 1, MaxTop), !.depth = ClampTo(@, 1, MaxDepthLimit),
              !.seconds = ClampTo(@, 1, MaxScanSeconds)]

\* An unknown topic is the only parameter that fails; a relative path is ignored.
FromParams(params) ==
    IF params = [topic |-> "empty"] THEN DefaultRequest
    ELSE IF params.topic \notin Topics THEN [topic |-> "error"]
    ELSE NormalizeRequest([topic |-> params.topic, path |-> IF params.absolute THEN params.path ELSE "none",
                           top |-> params.top, depth |-> params.depth, seconds |-> params.seconds])

TopicSupported(topic, os) == topic \notin LinuxOnly \/ os = "linux"

\* The topic of a command decides what runs; three of them only run on linux.
ExecuteTopic(topic, os) == IF topic \in Topics /\ TopicSupported(topic, os) THEN "runs" ELSE "error"

-----------------------------------------------------------------------------
(* Reports.                                                                *)

Finding(id, status, rows) == [id |-> id, status |-> status, rows |-> rows, denied |-> 0, limits |-> {}]

\* Three outcomes of reading a source: a source that is not there is no denial.
NoTally == [checked |-> 0, denied |-> 0, skipped |-> 0]

TallyRead(tally, state) ==
    [checked |-> tally.checked + 1,
     denied |-> tally.denied + (IF state = "denied" THEN 1 ELSE 0),
     skipped |-> tally.skipped + (IF state \in {"ok", "denied"} THEN 0 ELSE 1)]

\* The coverage of a finding; its table is cut to the size of the request.
Covered(finding, tally, top) ==
    [finding EXCEPT !.denied = tally.denied, !.rows = IF @ > top THEN top ELSE @]

Count(findings, status) == Cardinality({i \in DOMAIN findings : findings[i].status = status})

Judged(topic) == topic \notin EvidenceOnly

\* Failure before warning before unknown: not the order of the enumeration.
Overall(findings) ==
    CASE Count(findings, "fail") > 0 -> "fail"
      [] Count(findings, "fail") = 0 /\ Count(findings, "warn") > 0 -> "warn"
      [] Count(findings, "fail") = 0 /\ Count(findings, "warn") = 0 /\ Count(findings, "unknown") > 0 -> "unknown"
      [] OTHER -> "ok"

ExitCode(findings) == IF Count(findings, "fail") > 0 THEN 1 ELSE 0

Verdict(topic, findings) ==
    CASE ~Judged(topic) -> "evidence"
      [] Judged(topic) /\ Overall(findings) = "ok" -> "all_ok"
      [] OTHER -> "counts"

\* The section shown as evidence: by kind, else the first one with a table.
EvidenceOf(findings) ==
    LET tabled(id) == {i \in DOMAIN findings : findings[i].id = id /\ findings[i].rows > 0}
        kinds == <<"largest_dirs", "top_files", "top_dirs">>
        found == {k \in DOMAIN kinds : tabled(kinds[k]) # {}}
        some == {i \in DOMAIN findings : findings[i].rows > 0}
        least(S) == CHOOSE n \in S : \A k \in S : n <= k
    IN  CASE found # {} -> least(tabled(kinds[least(found)]))
          [] found = {} /\ some # {} -> least(some)
          [] OTHER -> 0

\* A finding takes a unit, and so does every row of its table.
BodySizes(findings) ==
    [noRows |-> Len(findings), whole |-> Len(findings) + MapThenSumSet(LAMBDA i : findings[i].rows, DOMAIN findings)]

\* Tables go first, then hints and long details; the conclusion is never cut.
UplinkBody(sizes) ==
    CASE sizes.whole <= MaxUplinkBody -> "whole"
      [] sizes.whole > MaxUplinkBody /\ sizes.noRows <= MaxUplinkBody -> "rows_omitted"
      [] OTHER -> "conclusion"
=============================================================================
