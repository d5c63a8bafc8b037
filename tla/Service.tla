------------------------------- MODULE Service -------------------------------
(***************************************************************************)
(* `wist-agentd service install | uninstall | status` and the service      *)
(* manager it talks to: one definition file, a list of manager commands of *)
(* which some may fail unnoticed and some are tried again, and the daemon  *)
(* the manager keeps alive, which can only start when it gets the          *)
(* single-instance lock.  systemd and launchd are external, modelled from  *)
(* what the comments and the commands of service/mod.rs expect of them.    *)
(***************************************************************************)
EXTENDS Naturals, Sequences

CONSTANTS
  Specs,       \* the definitions an operator installs: a binary and a config dir
  Odd,         \* those whose paths hold a newline
  None,
  Retries,     \* ACTIVATE_RETRIES
  Burst,       \* StartLimitBurst: starts within StartLimitIntervalSec
  MaxCalls,    \* bound: service commands the operator runs
  MaxUpsets,   \* bound: failed writes, commands and enrollments, processes killed
  MaxHands     \* bound: daemons started by hand

ASSUME ServiceAssumption ==
  /\ Odd \subseteq Specs /\ None \notin Specs
  /\ {Retries, MaxCalls, MaxUpsets, MaxHands} \subseteq Nat /\ Burst \in Nat \ {0}

VARIABLES
  platform,  \* "systemd" or "launchd"
  defn,      \* the definition on disk
  enrolled,  \* the machine has its identity, or needs none
  fit,       \* the configuration loads, directories and state can be written, wist-exec is found
  loaded,    \* the definition the manager has read
  enabled,   \* the manager starts the service at boot
  main,      \* the manager's process: [of, st], st = "none", "start", "locked", "run" or "wait"
  starts,    \* starts of it in the current interval
  holder,    \* who has the lock: "none", "main", "leaving", "hand" or "probe"
  cli,       \* the service command: [pc, req, todo, tries, failed, stopped]
  said,      \* how the last install or uninstall ended: [req, ok, stopped]
  gaveUp,    \* the manager has hit the start limit
  calls, upsets, hands

host == <<platform, fit>>
manager == <<loaded, enabled, main, starts, gaveUp>>
serviceBounds == <<calls, upsets, hands>>
serviceVars == <<host, defn, enrolled, manager, holder, cli, said, serviceBounds>>

NoProc == [of |-> None, st |-> "none"]

\* parse_service_request: what may be asked for; a definition, force, no-activate and
\* a token go with install only.
Requests ==
  {r \in [action : {"install", "uninstall", "status"}, spec : Specs \cup {None}, force : BOOLEAN,
          activate : BOOLEAN, token : BOOLEAN] :
     /\ r.spec # None <=> r.action = "install"
     /\ (r.force \/ ~r.activate \/ r.token) => r.action = "install"}
NoRequest == [action |-> "none", spec |-> None, force |-> FALSE, activate |-> FALSE, token |-> FALSE]
IdleCli == [pc |-> "idle", req |-> NoRequest, todo |-> <<>>, tries |-> 0,
            failed |-> FALSE, stopped |-> FALSE]
Unsaid == [req |-> NoRequest, ok |-> FALSE, stopped |-> FALSE]

ServiceInit ==
  /\ platform \in {"systemd", "launchd"} /\ enrolled \in BOOLEAN /\ fit \in BOOLEAN
  /\ defn = None /\ loaded = None /\ enabled = FALSE /\ main = NoProc /\ starts = 0
  /\ holder = "none" /\ cli = IdleCli /\ said = Unsaid /\ gaveUp = FALSE
  /\ calls = 0 /\ upsets = 0 /\ hands = 0

Upset == upsets < MaxUpsets /\ upsets' = upsets + 1

-----------------------------------------------------------------------------
(* The commands for the manager.                                            *)

Cmd(name, ignored, retries) == [name |-> name, ignore_failure |-> ignored, retries |-> retries]

\* Mutant: a unit that is active goes on with the old definition.
ActivateKeeps ==
  IF platform = "systemd"
  THEN <<Cmd("daemon-reload", FALSE, 0), Cmd("enable", FALSE, 0)>>
       \o IF main = NoProc THEN <<Cmd("restart", FALSE, Retries)>> ELSE <<>>
  ELSE <<Cmd("bootout", TRUE, 0), Cmd("bootstrap", FALSE, Retries), Cmd("enable", FALSE, 0)>>

\* activate_commands
ActivateCommands ==
  IF platform = "systemd"
  THEN <<Cmd("daemon-reload", FALSE, 0), Cmd("enable", FALSE, 0), Cmd("restart", FALSE, Retries)>>
  ELSE <<Cmd("bootout", TRUE, 0), Cmd("bootstrap", FALSE, Retries), Cmd("enable", FALSE, 0)>>

\* deactivate_commands
DeactivateCommands ==
  IF platform = "systemd"
  THEN <<Cmd("disable --now", TRUE, 0), Cmd("daemon-reload", FALSE, 0)>>
  ELSE <<Cmd("bootout", TRUE, 0)>>

\* What the manager needs to do a command.  `bootout` returns before the process
\* is gone, and a `bootstrap` in that time may fail.
Works(name) ==
  CASE name = "disable --now" -> defn # None
    [] name = "enable" -> platform = "launchd" \/ defn # None
    [] name = "restart" -> loaded # None /\ starts < Burst
    [] name = "bootout" -> loaded # None
    [] name = "bootstrap" -> loaded = None /\ defn # None
    [] OTHER -> TRUE
MayFail(name) == ~Works(name) \/ (name = "bootstrap" /\ holder = "leaving")

\* Only systemd counts the starts.
Launch(of) ==
  /\ main' = [of |-> of, st |-> "start"] /\ gaveUp' = FALSE
  /\ starts' = IF platform = "systemd" THEN starts + 1 ELSE starts
Stop == main' = NoProc /\ UNCHANGED <<starts, gaveUp>>
Unlocked(by) == holder' = IF holder = "main" THEN by ELSE holder

\* What it does.  systemd waits for the stopped process, launchd does not.
Effect(name) ==
  CASE name = "daemon-reload" -> loaded' = defn /\ UNCHANGED <<enabled, main, starts, gaveUp, holder>>
    [] name = "enable" -> enabled' = TRUE /\ UNCHANGED <<loaded, main, starts, gaveUp, holder>>
    [] name = "restart" -> Launch(loaded) /\ Unlocked("none") /\ UNCHANGED <<loaded, enabled>>
    [] name = "disable --now" -> enabled' = FALSE /\ Stop /\ Unlocked("none") /\ UNCHANGED loaded
    [] name = "bootout" -> loaded' = None /\ Stop /\ Unlocked("leaving") /\ UNCHANGED enabled
    [] OTHER -> loaded' = defn /\ Launch(defn) /\ UNCHANGED <<enabled, holder>>

-----------------------------------------------------------------------------
(* The service command.                                                     *)

Says(ok) ==
  /\ cli' = IdleCli
  /\ said' = [req |-> cli.req, ok |-> ok, stopped |-> cli.stopped]
Go(pc, todo) == cli' = [cli EXCEPT !.pc = pc, !.todo = todo] /\ UNCHANGED said

\* run_service
RunService(r) ==
  /\ cli.pc = "idle" /\ calls < MaxCalls /\ calls' = calls + 1
  /\ cli' = [IdleCli EXCEPT !.req = r,
       !.pc = CASE r.action = "install" -> (IF r.token THEN "enroll" ELSE "write")
                [] r.action = "uninstall" -> "commands"
                [] OTHER -> "status",
       !.todo = IF r.action = "uninstall" THEN DeactivateCommands ELSE <<>>]
  /\ UNCHANGED <<host, defn, enrolled, manager, holder, said, upsets, hands>>

\* run_service_install: an enrollment that fails, or that finds no configuration,
\* ends the command before anything is written; a machine that has its identity
\* keeps it.
EnrollFirst ==
  /\ cli.pc = "enroll"
  /\ \/ enrolled' = TRUE /\ Go("write", <<>>) /\ UNCHANGED upsets
     \/ ~enrolled /\ Upset /\ Says(FALSE) /\ UNCHANGED enrolled
     \/ ~fit /\ Says(FALSE) /\ UNCHANGED <<enrolled, upsets>>
  /\ UNCHANGED <<host, defn, manager, holder, calls, hands>>

Refused == cli.req.spec \in Odd \/ (defn # None /\ ~cli.req.force)
AfterWrite == IF cli.req.activate THEN Go("commands", ActivateCommands) ELSE Says(TRUE)

\* install: refused, or the definition is replaced in one step.
WriteDefinition ==
  /\ cli.pc = "write"
  /\ IF Refused THEN Says(FALSE) /\ UNCHANGED defn
     ELSE defn' = cli.req.spec /\ AfterWrite
  /\ UNCHANGED <<host, enrolled, manager, holder, serviceBounds>>

\* The write fails and changes nothing; under launchd the log directory may fail
\* once the definition is there.
DefinitionWriteFails ==
  /\ cli.pc = "write" /\ ~Refused /\ Upset /\ Says(FALSE)
  /\ \/ UNCHANGED defn
     \/ platform = "launchd" /\ defn' = cli.req.spec
  /\ UNCHANGED <<host, enrolled, manager, holder, calls, hands>>

\* The next of the commands, or the end of them: a failure that counts is an
\* error, but only after all of them have been run.
Passed(failed, stopped) ==
  /\ cli' = [cli EXCEPT !.todo = Tail(@), !.tries = 0, !.failed = @ \/ failed, !.stopped = @ \/ stopped]
  /\ UNCHANGED said
IsStop(name) == name \in {"disable --now", "bootout"}

CommandWorks ==
  /\ cli.pc = "commands" /\ cli.todo # <<>>
  /\ LET c == Head(cli.todo) IN Works(c.name) /\ Effect(c.name) /\ Passed(FALSE, IsStop(c.name))
  /\ UNCHANGED <<host, defn, enrolled, serviceBounds>>

\* run_with_retries, and run_service_commands with its ignored failures
CommandFails ==
  /\ cli.pc = "commands" /\ cli.todo # <<>>
  /\ LET c == Head(cli.todo) IN
       /\ (MayFail(c.name) /\ UNCHANGED upsets) \/ (Works(c.name) /\ Upset)
       /\ IF cli.tries < c.retries THEN cli' = [cli EXCEPT !.tries = @ + 1] /\ UNCHANGED said
          ELSE Passed(~c.ignore_failure, FALSE)
  /\ UNCHANGED <<host, defn, enrolled, manager, holder, calls, hands>>

\* The program of the manager cannot be run at all: the rest is left out.
CommandMissing ==
  /\ cli.pc = "commands" /\ cli.todo # <<>> /\ Upset /\ Says(FALSE)
  /\ UNCHANGED <<host, defn, enrolled, manager, holder, calls, hands>>

\* run_service_install and run_service_uninstall after their commands
CommandsEnd ==
  /\ cli.pc = "commands" /\ cli.todo = <<>>
  /\ IF cli.failed THEN Says(FALSE) /\ UNCHANGED defn
     ELSE /\ defn' = IF cli.req.action = "uninstall" THEN None ELSE defn
          /\ Says(TRUE)
  /\ UNCHANGED <<host, enrolled, manager, holder, serviceBounds>>

\* Mutant: the error of remove is dropped.
RemoveSwallowed ==
  /\ cli.pc = "commands" /\ cli.todo = <<>> /\ ~cli.failed /\ cli.req.action = "uninstall"
  /\ defn # None /\ Upset /\ Says(TRUE)
  /\ UNCHANGED <<host, defn, enrolled, manager, holder, calls, hands>>

\* remove: the file stays, and the command fails.
RemoveFails ==
  /\ cli.pc = "commands" /\ cli.todo = <<>> /\ ~cli.failed /\ cli.req.action = "uninstall"
  /\ defn # None /\ Upset /\ Says(FALSE)
  /\ UNCHANGED <<host, defn, enrolled, manager, holder, calls, hands>>

\* status, is_held: to see whether a daemon has the lock the command takes it
\* itself for a moment; without a readable configuration or a lock file it asks
\* nothing.
ProbeLock ==
  /\ cli.pc = "status"
  /\ \/ holder = "none" /\ holder' = "probe" /\ Go("probed", <<>>)
     \/ cli' = IdleCli /\ UNCHANGED <<holder, said>>
  /\ UNCHANGED <<host, defn, enrolled, manager, serviceBounds>>
ProbeDone ==
  /\ cli.pc = "probed" /\ holder' = "none" /\ cli' = IdleCli
  /\ UNCHANGED <<host, defn, enrolled, manager, said, serviceBounds>>

-----------------------------------------------------------------------------
(* The daemon and its manager.                                              *)

Exits == main' = [main EXCEPT !.st = "wait"]

daemonFrame == <<host, defn, enrolled, loaded, enabled, starts, gaveUp, cli, said, serviceBounds>>

\* Mutant: a daemon that finds the lock taken ends as if it had been asked to.
AcquireFinal ==
  /\ main.st = "start"
  /\ IF holder = "none" THEN holder' = "main" /\ main' = [main EXCEPT !.st = "locked"]
     ELSE main' = NoProc /\ UNCHANGED holder
  /\ UNCHANGED daemonFrame

\* run_daemon up to acquire: a configuration that does not load or a lock file that
\* cannot be opened, the lock, or AlreadyRunning.
AcquireLock ==
  /\ main.st = "start"
  /\ \/ ~fit /\ Exits /\ UNCHANGED holder
     \/ IF holder = "none" THEN holder' = "main" /\ main' = [main EXCEPT !.st = "locked"]
        ELSE Exits /\ UNCHANGED holder
  /\ UNCHANGED daemonFrame

\* run_daemon after acquire: directories, enrollment, runtime state, wist-exec; then
\* the loop, or an exit that drops the lock.
EnterLoop ==
  /\ main.st = "locked"
  /\ IF enrolled /\ fit THEN main' = [main EXCEPT !.st = "run"] /\ UNCHANGED holder
     ELSE Exits /\ holder' = "none"
  /\ UNCHANGED daemonFrame

\* The daemon dies.
DaemonDies ==
  /\ main.st \in {"locked", "run"} /\ Upset /\ Exits /\ holder' = "none"
  /\ UNCHANGED <<host, defn, enrolled, loaded, enabled, starts, gaveUp, cli, said, calls, hands>>

\* unit_text, plist_text: Restart=always and KeepAlive.  systemd stops restarting
\* when the start limit is hit or the definition is gone; launchd only throttles.
ManagerRestarts ==
  /\ main.st = "wait"
  /\ CASE loaded = None -> Stop
       [] platform = "systemd" /\ starts >= Burst ->
            main' = NoProc /\ gaveUp' = TRUE /\ UNCHANGED starts
       [] OTHER -> Launch(loaded)
  /\ UNCHANGED <<host, defn, enrolled, loaded, enabled, holder, cli, said, serviceBounds>>

IntervalPasses ==
  /\ starts > 0 /\ starts' = 0
  /\ UNCHANGED <<host, defn, enrolled, loaded, enabled, main, gaveUp, holder, cli, said, serviceBounds>>

\* A process that was told to stop lets go of the lock.
LeavingExits ==
  /\ holder = "leaving" /\ holder' = "none"
  /\ UNCHANGED <<host, defn, enrolled, manager, cli, said, serviceBounds>>

\* A daemon started by hand runs for as long as its user likes.
HandExits ==
  /\ holder = "hand" /\ holder' = "none"
  /\ UNCHANGED <<host, defn, enrolled, manager, cli, said, serviceBounds>>
HandStarts ==
  /\ hands < MaxHands /\ hands' = hands + 1 /\ holder = "none" /\ enrolled /\ fit /\ holder' = "hand"
  /\ UNCHANGED <<host, defn, enrolled, manager, cli, said, calls, upsets>>

\* An install or uninstall is under way; status changes nothing.
Changing == cli.req.action \in {"install", "uninstall"}

\* What the daemon needs on the host goes missing, or is put right.
HostChanges ==
  /\ fit' = ~fit /\ (fit => Upset) /\ (~fit => UNCHANGED upsets)
  /\ UNCHANGED <<platform, defn, enrolled, manager, holder, cli, said, calls, hands>>

\* The host boots: no process is left, the manager reads what is on disk.
Boot ==
  /\ Upset /\ holder' = "none" /\ cli' = IdleCli
  /\ said' = IF Changing THEN Unsaid ELSE said
  /\ loaded' = defn /\ starts' = 0 /\ gaveUp' = FALSE
  /\ main' = IF defn # None /\ (platform = "systemd" => enabled)
             THEN [of |-> defn, st |-> "start"] ELSE NoProc
  /\ UNCHANGED <<host, defn, enrolled, enabled, calls, hands>>

CliStep == EnrollFirst \/ WriteDefinition \/ CommandWorks \/ CommandFails \/ CommandsEnd \/ ProbeLock \/ ProbeDone
DaemonStep == AcquireLock \/ EnterLoop \/ ManagerRestarts

ServiceNext ==
  \/ \E r \in Requests : RunService(r)
  \/ CliStep \/ DefinitionWriteFails \/ CommandMissing \/ RemoveFails
  \/ DaemonStep \/ DaemonDies \/ IntervalPasses
  \/ LeavingExits \/ HandExits \/ HandStarts \/ HostChanges \/ Boot

-----------------------------------------------------------------------------
Activated == said.ok /\ said.req.action = "install" /\ said.req.activate

\* run_service_install, activate_commands, acquire, is_held: an installation with
\* activation that reported success has the service manager run a daemon of the new
\* definition, and again after every exit and every boot, whatever was running before
\* (an old definition, a process that is still leaving) and although `service status`
\* may take the lock just when the daemon wants it.  It stays down only without an
\* identity or something else it needs on the host (the install warns of a missing
\* wist-exec and goes on), beside a daemon started by hand, when systemd hit its start
\* limit, or until the next install or uninstall ends.
InstallTakes ==
  Activated ~>
    (\/ main = [of |-> said.req.spec, st |-> "run"]
     \/ ~enrolled \/ ~fit \/ holder = "hand" \/ gaveUp \/ Changing \/ ~Activated)

\* run_service_uninstall: once an uninstall has reported success and its stop
\* was not one of the ignored failures, no daemon of the manager is left and
\* none comes back, not by a restart that was pending nor by a boot.
UninstallStops ==
  (said.req.action = "uninstall" /\ said.ok /\ said.stopped /\ ~Changing)
    => main = NoProc /\ defn = None
=============================================================================
