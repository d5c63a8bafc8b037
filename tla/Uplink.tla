------------------------------- MODULE Uplink -------------------------------
(***************************************************************************)
(* The sending part of a tick: metrics frames and the records of exporters *)
(* over one TCP connection (daemon_metrics.rs write_metrics_uplink,        *)
(* daemon_telemetry.rs process_exporters, telemetry/exporters.rs,          *)
(* telemetry/warp_parse.rs).  The sink is built for the tick, so a         *)
(* connection and its backoff last no longer than the tick; what is left   *)
(* of a stalled frame is finished in the background.                       *)
(*                                                                         *)
(* The exporter is the kernel log: entries 1..journal, of which those up   *)
(* to vacuumed have been removed and those up to aged are older than the   *)
(* window of a run that has no cursor.  Each run has a cursor of its own.  *)
(***************************************************************************)
EXTENDS Integers, Sequences, FiniteSets

CONSTANTS
    RunOrder,    \* the runs of the exporter that are granted, in order
    MaxEntries,  \* entries the kernel writes
    Period,      \* ticks between two runs
    MetricLines, \* frames of a metrics batch
    MaxUpFaults

VARIABLES
    journal, vacuumed, aged,
    large,      \* reading the whole journal takes longer than the command may
    tool,       \* journalctl is installed
    cursors,    \* the cursor file of each run: an entry, 0 when there is none, -1 when malformed
    ranAt,      \* exporters.json: ticks since each run, or -1
    lacking,    \* exporters.json: the tool is recorded as missing
    held,       \* exporters.json as read at the start of the tick
    sent,       \* entries accepted by the socket, for each run
    passed,     \* entries that left the window or the journal while a run had no usable cursor
    stream,     \* "none", "open" or "backoff"
    finishing,  \* payloads being finished in the background
    upc,        \* where the tick stands
    uat,        \* the run, or the metrics line, it is at
    batch,      \* what the command printed
    ufaults

upVars == <<journal, vacuumed, aged, large, tool, cursors, ranAt, lacking, held, sent, passed, stream, finishing,
            upc, uat, batch, ufaults>>
kernelVars == <<journal, vacuumed, aged, large, tool>>
exporterVars == <<cursors, ranAt, lacking, held, sent, passed, batch>>
wireVars == <<stream, finishing>>

Runs == {RunOrder[i] : i \in DOMAIN RunOrder}

ASSUME RunsAssumption == RunOrder \in Seq(Runs)

NoBatch == [entries |-> {}, fellBack |-> FALSE]

NotRead == [ranAt |-> [r \in Runs |-> -1], lacking |-> FALSE]

UpInit ==
    /\ journal = 0 /\ vacuumed = 0 /\ aged = 0 /\ large \in BOOLEAN /\ tool \in BOOLEAN
    /\ cursors = [r \in Runs |-> 0] /\ ranAt = [r \in Runs |-> -1] /\ lacking = FALSE
    /\ held = NotRead
    /\ sent = [r \in Runs |-> {}] /\ passed = [r \in Runs |-> {}]
    /\ stream = "none" /\ finishing = {}
    /\ upc = "idle" /\ uat = 1 /\ batch = NoBatch /\ ufaults = MaxUpFaults

UpFault == ufaults > 0 /\ ufaults' = ufaults - 1
Later(age) == IF age = -1 \/ age = Period THEN age ELSE age + 1

-----------------------------------------------------------------------------
(* The sink. *)

\* ensure_connected: the stream in hand, or a new one unless the backoff still runs.
Connect ==
    \/ stream = "open" /\ UNCHANGED ufaults
    \/ stream = "none" /\ UNCHANGED ufaults
ConnectFails == (stream = "none" /\ UpFault) \/ (stream = "backoff" /\ UNCHANGED ufaults)

\* write_payload, the outcomes after which the payload counts as sent or as failed.
PayloadSent == Connect /\ stream' = "open" /\ UNCHANGED finishing

\* The link breaks; what was written may end inside a frame.
LinkBreaks ==
    /\ stream # "backoff" /\ UpFault
    /\ stream' = "backoff" /\ UNCHANGED finishing

\* No progress, or the total time is used up: part of the payload is on the wire, perhaps
\* none; the rest is finished in the background while the caller keeps the payload.
Stall(payload) ==
    /\ stream # "backoff" /\ UpFault
    /\ stream' = "backoff"
    /\ finishing' = finishing \cup {payload}

PayloadFails(payload) ==
    \/ ConnectFails /\ stream' = "backoff" /\ UNCHANGED finishing
    \/ LinkBreaks
    \/ Stall(payload)

\* The backoff is over within the tick.
BackoffEnds ==
    /\ stream = "backoff" /\ stream' = "none"
    /\ UNCHANGED <<kernelVars, exporterVars, finishing, upc, uat, ufaults>>

\* finish_in_background: the rest goes out and the connection is closed; the peer may
\* break it or not take the rest within the time.
Finish ==
    \E payload \in finishing :
        /\ finishing' = finishing \ {payload}
        /\ \/ /\ UNCHANGED ufaults
              /\ sent' = IF payload.run \in Runs THEN [sent EXCEPT ![payload.run] = @ \cup payload.entries] ELSE sent
           \/ UpFault /\ UNCHANGED sent
        /\ UNCHANGED <<kernelVars, cursors, ranAt, lacking, held, passed, batch, stream, upc, uat>>

-----------------------------------------------------------------------------
(* The tick. *)

BeginSending ==
    /\ upc = "idle" /\ upc' = "metrics" /\ uat' = 1
    /\ held' = [ranAt |-> [r \in Runs |-> Later(ranAt[r])], lacking |-> lacking]
    /\ ranAt' = [r \in Runs |-> Later(ranAt[r])]
    /\ stream' = "none"
    /\ UNCHANGED <<kernelVars, cursors, lacking, sent, passed, finishing, batch, ufaults>>

\* write_metrics_uplink: one frame after the other; the first failure drops the rest.
SendMetrics ==
    /\ upc = "metrics" /\ uat <= MetricLines
    /\ \/ PayloadSent /\ uat' = uat + 1 /\ UNCHANGED upc
       \/ PayloadFails([run |-> "metrics", entries |-> {}]) /\ uat' = 1 /\ upc' = "run"
    /\ UNCHANGED <<kernelVars, exporterVars>>

EndMetrics ==
    /\ upc = "metrics" /\ uat > MetricLines /\ upc' = "run" /\ uat' = 1
    /\ UNCHANGED <<kernelVars, exporterVars, wireVars, ufaults>>

\* An entry a run has not sent is lost to it when it leaves the journal, or the window
\* of a run that has no usable cursor.
Unsent(r, S) == S \ sent[r]

Run == RunOrder[uat]
Skip == upc' = "run" /\ uat' = uat + 1

\* The tool is looked for before anything is run; without it the period does not advance.
CheckTool ==
    /\ upc = "run" /\ uat <= Len(RunOrder)
    /\ held' = [held EXCEPT !.lacking = ~tool]
    /\ IF tool /\ (held.ranAt[Run] = -1 \/ held.ranAt[Run] >= Period)
       THEN upc' = "command" /\ UNCHANGED uat ELSE Skip
    /\ UNCHANGED <<kernelVars, cursors, ranAt, lacking, sent, passed, batch, wireVars, ufaults>>

Oldest == IF aged > vacuumed THEN aged ELSE vacuumed
\* What journalctl prints: after the cursor; the whole journal when the cursor's entry is
\* gone; the window when there is no cursor.
Printed(c) ==
    IF c = 0 THEN (Oldest + 1)..journal
    ELSE IF c > vacuumed THEN (c + 1)..journal ELSE (vacuumed + 1)..journal
Rereads(c) == c > 0 /\ c <= vacuumed

\* run_with_cursor_fallback: a cursor the command refuses is tried again without one.
\* The run is recorded before the command is started, whatever becomes of it.
RunCommand ==
    /\ upc = "command" /\ upc' = "write"
    /\ ~(Rereads(cursors[Run]) /\ large)
    /\ held' = [held EXCEPT !.ranAt[Run] = 0]
    /\ batch' = IF cursors[Run] = -1 THEN [entries |-> Printed(0), fellBack |-> TRUE]
                ELSE [entries |-> Printed(cursors[Run]), fellBack |-> FALSE]
    /\ UNCHANGED <<kernelVars, cursors, ranAt, lacking, sent, passed, wireVars, uat, ufaults>>

\* Mutant: the cursor is kept.
TimesOutKeeps ==
    /\ upc = "command" /\ Skip
    /\ IF Rereads(cursors[Run]) /\ large THEN UNCHANGED ufaults ELSE UpFault
    /\ held' = [held EXCEPT !.ranAt[Run] = 0]
    /\ UNCHANGED <<kernelVars, cursors, ranAt, lacking, sent, passed, batch, wireVars>>

\* should_reset_cursor: with a cursor, a command that takes too long loses the cursor.
TimesOut ==
    /\ upc = "command" /\ Skip
    /\ IF Rereads(cursors[Run]) /\ large THEN UNCHANGED ufaults ELSE UpFault
    /\ held' = [held EXCEPT !.ranAt[Run] = 0]
    /\ cursors' = [cursors EXCEPT ![Run] = 0]
    /\ passed' = [passed EXCEPT ![Run] = @ \cup Unsent(Run, 1..aged)]
    /\ UNCHANGED <<kernelVars, ranAt, lacking, sent, batch, wireVars>>

\* The command exits with an error that says nothing of the cursor.
CommandFails ==
    /\ upc = "command" /\ Skip /\ UpFault
    /\ held' = [held EXCEPT !.ranAt[Run] = 0]
    /\ UNCHANGED <<kernelVars, cursors, ranAt, lacking, sent, passed, batch, wireVars>>

\* persist_cursor: the last entry printed; with nothing printed after a fallback the dead
\* cursor is removed.  The write may fail.
CursorAfter(c, b) ==
    IF b.entries # {} THEN CHOOSE e \in b.entries : \A f \in b.entries : f <= e
    ELSE IF b.fellBack THEN 0 ELSE c

\* Mutant: one cursor file for the exporter.
PersistShared ==
    cursors' = [r \in Runs |-> CursorAfter(cursors[Run], batch)]

PersistCursor ==
    cursors' = [cursors EXCEPT ![Run] = CursorAfter(@, batch)]

\* The cursor moves only when the records are sent.
WriteRecords ==
    /\ upc = "write" /\ Skip /\ batch' = NoBatch
    /\ \/ /\ IF batch.entries = {} THEN UNCHANGED <<wireVars, ufaults>> ELSE PayloadSent
          /\ sent' = [sent EXCEPT ![Run] = @ \cup batch.entries]
          /\ PersistCursor
       \/ /\ batch.entries # {} /\ PayloadFails([run |-> Run, entries |-> batch.entries])
          /\ UNCHANGED <<cursors, sent>>
    /\ UNCHANGED <<kernelVars, ranAt, lacking, held, passed>>

\* The records are sent but the cursor file cannot be written, or there is no __CURSOR in
\* the output: the old one stays.
WriteUnrecorded ==
    /\ upc = "write" /\ Skip /\ batch' = NoBatch
    /\ batch.entries # {} /\ stream # "backoff" /\ UpFault
    /\ stream' = "open" /\ UNCHANGED finishing
    /\ sent' = [sent EXCEPT ![Run] = @ \cup batch.entries]
    /\ UNCHANGED <<kernelVars, cursors, ranAt, lacking, held, passed>>

\* The state is saved at the end; the sink is dropped after its last whole frame.
EndSending ==
    /\ upc = "run" /\ uat > Len(RunOrder) /\ upc' = "idle" /\ uat' = 1
    /\ ranAt' = held.ranAt /\ lacking' = held.lacking
    /\ stream' = "none" /\ held' = NotRead
    /\ UNCHANGED <<kernelVars, cursors, sent, passed, batch, finishing, ufaults>>

-----------------------------------------------------------------------------
(* The host and the faults. *)

\* The process is killed: unfinished frames stay as they are, exporters.json is that of the last tick.
UpCrash ==
    /\ upc # "idle" /\ UpFault
    /\ upc' = "idle" /\ uat' = 1 /\ batch' = NoBatch /\ stream' = "none" /\ finishing' = {}
    /\ held' = NotRead
    /\ UNCHANGED <<kernelVars, cursors, ranAt, lacking, sent, passed>>

KernelWrites ==
    /\ journal < MaxEntries /\ journal' = journal + 1
    /\ UNCHANGED <<vacuumed, aged, large, tool, exporterVars, wireVars, upc, uat, ufaults>>

Vacuum ==
    /\ vacuumed < journal /\ vacuumed' = vacuumed + 1
    /\ passed' = [r \in Runs |-> passed[r] \cup Unsent(r, {vacuumed + 1})]
    /\ UNCHANGED <<journal, aged, large, tool, cursors, ranAt, lacking, held, sent, batch, wireVars, upc, uat, ufaults>>
TimePasses ==
    /\ aged < journal /\ aged' = aged + 1
    /\ passed' = [r \in Runs |-> IF cursors[r] <= 0 THEN passed[r] \cup Unsent(r, {aged + 1}) ELSE passed[r]]
    /\ UNCHANGED <<journal, vacuumed, large, tool, cursors, ranAt, lacking, held, sent, batch, wireVars, upc, uat, ufaults>>

\* The tool is installed; or a cursor file is damaged by hand.
Install ==
    /\ ~tool /\ tool' = TRUE
    /\ UNCHANGED <<journal, vacuumed, aged, large, exporterVars, wireVars, upc, uat, ufaults>>
SpoilCursor ==
    /\ upc = "idle" /\ UpFault
    /\ \E r \in Runs :
        /\ cursors[r] > 0 /\ cursors' = [cursors EXCEPT ![r] = -1]
        /\ passed' = [passed EXCEPT ![r] = @ \cup Unsent(r, 1..aged)]
    /\ UNCHANGED <<kernelVars, ranAt, lacking, held, sent, batch, wireVars, upc, uat>>

UpStep ==
    \/ BeginSending \/ SendMetrics \/ EndMetrics \/ CheckTool \/ RunCommand \/ TimesOut \/ CommandFails
    \/ WriteRecords \/ WriteUnrecorded \/ EndSending
UpNext ==
    \/ UpStep \/ BackoffEnds \/ Finish \/ UpCrash \/ KernelWrites \/ Vacuum \/ TimePasses \/ Install \/ SpoilCursor
=============================================================================
