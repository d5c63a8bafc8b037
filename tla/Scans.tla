-------------------------------- MODULE Scans --------------------------------
(***************************************************************************)
(* One investigation at a time, by topic (investigate.rs, run and          *)
(* run_for_command), or the diagnosis.  The topics share nothing but the   *)
(* form of a report; each runs on its own part of the host, and its        *)
(* findings are made into one answer.                                      *)
(***************************************************************************)
EXTENDS DiskScan, LoadScan, AccountsScan, HostScan, Doctor

CONSTANTS
    Asked,       \* parameters of commands
    Platforms    \* operating systems

VARIABLES
    topic,       \* what runs: a topic, "diagnose" or "refused"
    answer       \* the answer, or NoAnswer

NoAnswer == [verdict |-> "none"]

scanVars == <<topic, answer, diskVars, loadVars, accountVars, hostVars, doctorVars>>

DiskIdle ==
    /\ stage = "idle" /\ opt = "idle" /\ shut = "idle" /\ gone = "idle" /\ unread = "idle" /\ tops = "idle"
    /\ cursor = "idle" /\ stack = "idle" /\ turns = "idle" /\ cur = "idle" /\ spent = "idle" /\ quantum = "idle"
    /\ consumed = "idle" /\ seen = "idle" /\ late = "idle" /\ tracked = "idle" /\ bytes = "idle" /\ inodes = "idle"
    /\ readFiles = "idle" /\ bigFiles = "idle" /\ floor = "idle" /\ rep = "idle" /\ shutTops = "idle" /\ usage = "idle"
LoadIdle ==
    /\ phase = "idle" /\ alive = "idle" /\ meter = "idle" /\ ran = "idle" /\ before = "idle" /\ after = "idle"
    /\ first = "idle" /\ sampled = "idle" /\ looked = "idle" /\ fresh = "idle" /\ burnt = "idle" /\ host = "idle"
AccountsIdle ==
    /\ apc = "idle" /\ acct = "idle" /\ sudoDoc = "idle" /\ sudoFiles = "idle" /\ sudoDirs = "idle" /\ sudoSeen = "idle"
    /\ sudoTally = "idle" /\ sshFrames = "idle" /\ sshValues = "idle" /\ sshSeen = "idle" /\ acctFindings = "idle"
HostIdle == hpc = "idle" /\ htopic = "idle" /\ hfacts = "idle" /\ recent = "idle" /\ hostFindings = "idle"
DoctorIdle ==
    /\ dstep = "idle" /\ offline = "idle" /\ mach = "idle" /\ dchecks = "idle" /\ dgrant = "idle"
    /\ changed = "idle" /\ since = "idle" /\ ever = "idle"

\* A command whose topic is not known, or not for this platform, is refused.
Accepted(params, os) ==
    LET request == FromParams(params)
    IN  IF request = [topic |-> "error"] \/ ExecuteTopic(request.topic, os) = "error" THEN "refused" ELSE request.topic

ScansInit ==
    /\ answer = NoAnswer
    /\ \/ \E params \in Asked, os \in Platforms : topic = Accepted(params, os)
       \/ topic = "diagnose"
    /\ IF topic = "disk" THEN DiskInit ELSE DiskIdle
    /\ IF topic = "load" THEN LoadInit ELSE LoadIdle
    /\ IF topic = "accounts" THEN AccountsInit ELSE AccountsIdle
    /\ IF topic \in {"persistence", "exposure", "telemetry-health"} THEN HostInit /\ htopic = topic ELSE HostIdle
    /\ IF topic = "diagnose" THEN DoctorInit ELSE DoctorIdle

StillDisk == UNCHANGED diskVars
StillLoad == UNCHANGED loadVars
StillAccounts == UNCHANGED accountVars
StillHost == UNCHANGED hostVars
StillDoctor == UNCHANGED doctorVars
StillAll == StillDisk /\ StillLoad /\ StillAccounts /\ StillHost /\ StillDoctor

\* The scan has ended; its findings in the order of the report.
Ended ==
    \/ topic = "disk" /\ stage = "done"
    \/ topic = "load" /\ phase = "reported"
    \/ topic = "accounts" /\ apc = "done"
    \/ topic \in {"persistence", "exposure", "telemetry-health"} /\ hpc = "done"
    \/ topic = "diagnose" /\ dstep = "done"
    \/ topic = "refused"

Findings ==
    CASE topic = "disk" -> DiskFindings
      [] topic = "load" -> LoadFindings
      [] topic = "accounts" -> acctFindings
      [] topic = "diagnose" -> dchecks
      [] topic = "refused" -> <<>>
      [] OTHER -> hostFindings

\* run_for_command: the answer carries the verdict, the exit code and the body.
Answer ==
    /\ Ended /\ answer = NoAnswer
    /\ \E fs \in {Findings} :
          answer' = CASE topic = "refused" -> [verdict |-> "refused"]
                      [] topic = "diagnose" -> [verdict |-> Overall(fs), exit |-> ExitCode(fs)]
                      [] OTHER -> [verdict |-> Verdict(topic, fs), exit |-> ExitCode(fs), evidence |-> EvidenceOf(fs),
                                   body |-> UplinkBody(BodySizes(fs))]
    /\ topic' = topic /\ StillAll

Scan ==
    /\ UNCHANGED <<topic, answer>>
    /\ \/ topic = "disk" /\ DiskNext /\ StillLoad /\ StillAccounts /\ StillHost /\ StillDoctor
       \/ topic = "load" /\ LoadNext /\ StillDisk /\ StillAccounts /\ StillHost /\ StillDoctor
       \/ topic = "accounts" /\ AccountsNext /\ StillDisk /\ StillLoad /\ StillHost /\ StillDoctor
       \/ topic \in {"persistence", "exposure", "telemetry-health"} /\ HostNext
             /\ StillDisk /\ StillLoad /\ StillAccounts /\ StillDoctor
       \/ topic = "diagnose" /\ DoctorNext /\ StillDisk /\ StillLoad /\ StillAccounts /\ StillHost

ScansNext == Scan \/ Answer

\* A scan is one thread that never waits for anybody.
ScansSpec ==
    /\ ScansInit /\ [][ScansNext]_scanVars
    /\ WF_diskVars(topic = "disk" /\ DiskSteps)
    /\ WF_loadVars(topic = "load" /\ (FirstReading \/ SecondReading))
    /\ WF_accountVars(topic = "accounts" /\ AccountsNext)
    /\ WF_hostVars(topic \in {"persistence", "exposure", "telemetry-health"} /\ HostNext)
    /\ WF_doctorVars(topic = "diagnose" /\ Diagnose)
    /\ WF_answer(Answer)

-----------------------------------------------------------------------------
(* Properties.                                                             *)

\* What the walk reports of a disk is true (see the parts, and drain_round_robin,
\* absorb, finish in investigate_disk.rs).
DiskReportTrue == topic = "disk" => WalkHonest /\ BytesAddUp /\ EveryTopVisited /\ TopFilesLargest

\* Services are charged what they used (see NeverOvercharged).
LoadChargedRight == topic = "load" => NeverOvercharged

\* sudo and sshd are judged on the files they would read (see IncludesFollowed).
IncludesRead == topic = "accounts" => IncludesFollowed

\* The main sources of a topic, without which it has nothing to say.  The files they are
\* joined by (crontabs, sudoers.d, key files, ld.so.preload) are not among them.
SourcesMissing ==
    CASE topic = "accounts" -> acct.passwd # "ok" \/ acct.shadow.state # "ok" \/ SudoFile(SudoMain).state = "denied"
                               \/ SshdFile(SshdMain).state = "denied"
      [] topic = "persistence" -> hfacts.unitsDir = "denied"
      [] topic = "telemetry-health" -> hfacts.config # "ok" \/ hfacts.work # "ok" \/ hfacts.inputs = {}
                                       \/ \E i \in hfacts.inputs : i.checkpoint # "ok"
      [] OTHER -> FALSE

\* Facts that are a failure in themselves, where they could be read.
Alarms ==
    CASE topic = "accounts" ->
            \/ acct.passwd = "ok" /\ RootAliases # {}
            \/ /\ acct.passwd = "ok" /\ acct.shadow.state = "ok"
               /\ \E u \in Accounts : LoginShell(u) /\ u.name \in DOMAIN acct.shadow.fields /\ acct.shadow.fields[u.name] = ""
      [] topic = "persistence" -> hfacts.preload.state = "ok" /\ hfacts.preload.libs > 0
      [] topic = "telemetry-health" ->
            /\ hfacts.config = "ok" /\ hfacts.work = "ok"
            /\ \E i \in hfacts.inputs : i.plainId /\ ((i.checkpoint = "ok" /\ i.age >= SilenceFail) \/ i.spool >= SpoolMax)
      [] OTHER -> FALSE

\* An answer says that all is well only if the main sources of its topic could be read,
\* and a failing fact in one source is never hidden by another source that could
\* not be read: the exit code is 1 (overall, verdict, exit_code, worst).
VerdictEarned ==
    answer # NoAnswer /\ topic \in {"accounts", "persistence", "telemetry-health"} =>
        /\ answer.verdict = "all_ok" => ~SourcesMissing
        /\ Alarms => answer.exit = 1
        /\ answer.exit = 1 => answer.verdict = "counts"

\* The verdict of an investigation on its main sources (see VerdictEarned) and the exit code
\* of a diagnosis (see ExitCodeTold) can be trusted.
AnswerTrue == VerdictEarned /\ (topic = "diagnose" => ExitCodeTold)

\* Every scan answers, whatever includes what and however the budget is cut.
ScanEnds == <>(answer # NoAnswer)
=============================================================================
