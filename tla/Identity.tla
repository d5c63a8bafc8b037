------------------------------ MODULE Identity ------------------------------
(***************************************************************************)
(* How a machine gets, keeps and loses its identity: the private key, the  *)
(* client certificate, agent_runtime.json and the enrollment token of the  *)
(* configuration are separate files, written one after the other by two    *)
(* programs, the daemon ("agentd", which enrolls at its start and renews   *)
(* its certificate later) and the `wist-agentd enroll` command ("cli").    *)
(* The daemon holds the single-instance lock; `enroll` takes no lock.      *)
(*                                                                         *)
(* The gateway is external: tokens are single-use, the subject of a        *)
(* certificate is the gateway's choice, a request is accepted when the     *)
(* certificate shown with it belongs to the agent it names; an accepted    *)
(* enrollment carries the credential bundle with the certificate (the      *)
(* comment of renewal_decision: mTLS is the only credential path).  The    *)
(* configuration has the control plane enabled and names its endpoint.     *)
(***************************************************************************)
EXTENDS Naturals, FiniteSets

CONSTANTS
  Agents,      \* agent ids the gateway hands out
  NoAgent,     \* no agent_runtime.json, no identity
  LocalAgent,  \* the placeholder "local-agent" of a fresh agent_runtime.json
  Tokens, NoToken,
  ConfigToken, \* the token agentd.toml starts with
  ConfigIds,   \* values of agent.agent_id in agentd.toml to start from
  MaxAttempts, \* ENROLLMENT_MAX_ATTEMPTS
  MaxEnrolls,  \* bound: runs of the enroll command
  MaxEvents,   \* bound: limits of a certificate that pass, changes of the denylist
  MaxFaults    \* bound: processes killed, failed writes, lost requests or answers

ASSUME IdentityAssumption ==
  /\ NoAgent \notin Agents /\ LocalAgent \notin Agents /\ NoAgent # LocalAgent
  /\ NoToken \notin Tokens /\ ConfigToken \in Tokens \cup {NoToken}
  /\ ConfigIds \subseteq Agents \cup {NoAgent}
  /\ MaxAttempts \in Nat \ {0}
  /\ MaxEnrolls \in Nat
  /\ MaxEvents \in Nat /\ MaxFaults \in Nat

VARIABLES
  \* files
  token,    \* control_plane.enrollment_token in agentd.toml
  cfgid,    \* agent.agent_id in agentd.toml
  key,      \* identity/client.key: "none", "ok" or "torn"
  cert,     \* identity/client.crt: whose, and "none", "valid", "due", "expired" or "torn"
  rt,       \* agent_runtime.json: agent_id
  ledger,   \* identity/renewal.json: outcome
  \* processes
  proc,     \* proc[p]: where p is and what it holds in memory
  \* the gateway
  fresh,    \* tokens not spent
  refused,  \* agents on its denylist
  \* bounds and bookkeeping
  enrolls, events, faults,
  overlap   \* two processes have worked on the identity at the same time

files   == <<token, cfgid, key, cert, rt, ledger>>
gateway == <<fresh, refused>>
bounds  == <<enrolls, events, faults>>
vars    == <<files, proc, gateway, bounds, overlap>>

Procs == {"agentd", "cli"}
NoCert == [agent |-> NoAgent, age |-> "none"]
Idle == [pc |-> "down", me |-> NoAgent, got |-> NoAgent, tok |-> NoToken,
         tries |-> 0, ret |-> "scrub", held |-> NoAgent]

Init ==
  /\ token = ConfigToken /\ cfgid \in ConfigIds
  /\ key = "none" /\ cert = NoCert /\ rt = NoAgent /\ ledger = "none"
  /\ proc = [p \in Procs |-> Idle]
  /\ fresh = Tokens /\ refused = {}
  /\ enrolls = 0 /\ events = 0 /\ faults = 0
  /\ overlap = FALSE

-----------------------------------------------------------------------------
(* is_registered_agent_id, load_or_default, combined_client_identity_pem    *)
(* and local_client_identity: what the files say.                           *)

Registered(a) == a \in Agents
LoadOrDefault == IF rt = NoAgent THEN LocalAgent ELSE rt
Shows == cert.age \in {"valid", "due"} /\ key = "ok"

\* What the gateway says to a request of agent a made with the local certificate.
Rejection(a) == IF ~Shows THEN "certificate_required"
                ELSE IF cert.agent # a THEN "certificate_mismatch"
                ELSE IF a \in refused THEN "certificate_revoked"
                ELSE "none"

\* classify_auth_rejection: the codes after which the daemon stops asking
Terminal(code) == code \in {"certificate_mismatch", "certificate_revoked"}

At(p, pc) == proc[p].pc = pc
Goto(p, pc) == proc' = [proc EXCEPT ![p].pc = pc]
Back(p) == proc' = [proc EXCEPT ![p] = [Idle EXCEPT !.pc = proc[p].ret, !.me = proc[p].me]]
Exit(p) == proc' = [proc EXCEPT ![p] = Idle]

\* Which steps of the two programs must not meet: an identity thrown away under
\* a living daemon, or both of them in the middle of an enrollment.
Enrolling(p) == proc[p].pc \in {"key", "post", "cert", "rt"}
Discarding == proc["cli"].pc \in {"discard_rt", "discard_cert", "discard_ledger"}
Meet == (Discarding \/ Enrolling("cli")) /\ ~At("agentd", "down")
Noted == overlap' = (overlap \/ Meet')

-----------------------------------------------------------------------------
(* ensure_enrolled_with_optional_config_path, run by both programs.         *)

\* Mutant: an identity whose certificate cannot be read is not used.
KnownReadable(p) ==
  /\ cfgid = NoAgent /\ Registered(rt) /\ cert.age # "torn"
  /\ proc' = [proc EXCEPT ![p].pc = "check", ![p].me = rt, ![p].ret = "scrub"]

\* load_state_identity
Known(p) ==
  /\ cfgid = NoAgent /\ Registered(rt)
  /\ proc' = [proc EXCEPT ![p].pc = "check", ![p].me = rt, ![p].ret = "scrub"]

\* has_config_identity
Configured(p) ==
  /\ cfgid # NoAgent
  /\ proc' = [proc EXCEPT ![p].pc = "scrub", ![p].me = cfgid]

\* The token of the command line wins over the one of the configuration.
EnrollmentToken(p) == IF proc[p].tok # NoToken THEN proc[p].tok ELSE token

Unknown(p) ==
  /\ cfgid = NoAgent /\ ~Registered(rt) /\ EnrollmentToken(p) # NoToken
  /\ proc' = [proc EXCEPT ![p].pc = "key", ![p].tok = EnrollmentToken(p)]

\* No token: the command ends; the daemon would exit and be started again.
NoTokenLeft(p) ==
  /\ cfgid = NoAgent /\ ~Registered(rt) /\ EnrollmentToken(p) = NoToken
  /\ p = "cli" /\ Exit(p)

Ensure(p) ==
  /\ At(p, IF p = "agentd" THEN "down" ELSE "ensure")
  /\ Known(p) \/ Configured(p) \/ Unknown(p) \/ NoTokenLeft(p)
  /\ Noted /\ UNCHANGED <<files, gateway, bounds>>

\* build_enrollment_request: a key is generated where there is none and never
\* replaced, so a key file that cannot be parsed ends the enrollment.
BuildRequest(p) ==
  /\ At(p, "key")
  /\ IF key = "torn" THEN Exit(p) /\ UNCHANGED key
     ELSE key' = "ok" /\ proc' = [proc EXCEPT ![p].pc = "post", ![p].tries = 0]
  /\ Noted /\ UNCHANGED <<token, cfgid, cert, rt, ledger, gateway, bounds>>

\* Mutant: one attempt more.
RetryOnceMore(p, otherwise) ==
  IF proc[p].tries + 1 <= MaxAttempts
  THEN proc' = [proc EXCEPT ![p].tries = @ + 1]
  ELSE otherwise

\* send_with_retry: a transport error is tried again, at most MaxAttempts times.
Retry(p, otherwise) ==
  IF proc[p].tries + 1 < MaxAttempts
  THEN proc' = [proc EXCEPT ![p].tries = @ + 1]
  ELSE otherwise

\* post_enrollment: the request never reaches the gateway.
PostLost(p) ==
  /\ At(p, "post") /\ faults < MaxFaults /\ faults' = faults + 1
  /\ Retry(p, Exit(p))
  /\ Noted /\ UNCHANGED <<files, gateway, enrolls, events>>

\* post_enrollment, apply_enrollment_result: the gateway spends the token and
\* issues an identity; its answer may get lost on the way back.
PostAccepted(p) ==
  /\ At(p, "post") /\ proc[p].tok \in fresh
  /\ fresh' = fresh \ {proc[p].tok}
  /\ \/ /\ \E a \in Agents : proc' = [proc EXCEPT ![p].pc = "cert", ![p].got = a]
        /\ UNCHANGED faults
     \/ faults < MaxFaults /\ faults' = faults + 1 /\ Retry(p, Exit(p))
  /\ Noted /\ UNCHANGED <<files, refused, enrolls, events>>

\* A spent token: an HTTP error or a rejection, and no retry.
PostRejected(p) ==
  /\ At(p, "post") /\ proc[p].tok \notin fresh
  /\ Exit(p)
  /\ Noted /\ UNCHANGED <<files, fresh, refused, bounds>>

\* Mutant: the identity is written before the certificate that goes with it.
RuntimeFirst(p) ==
  /\ At(p, "cert") /\ rt' = proc[p].got
  /\ proc' = [proc EXCEPT ![p].pc = "rt", ![p].me = proc[p].got]
  /\ Noted /\ UNCHANGED <<token, cfgid, key, cert, ledger, gateway, bounds>>

\* store_issued_client_certificate
StoreCertificate(p) ==
  /\ At(p, "cert")
  /\ cert' = [agent |-> proc[p].got, age |-> "valid"]
  /\ Goto(p, "rt")
  /\ Noted /\ UNCHANGED <<token, cfgid, key, rt, ledger, gateway, bounds>>

\* apply_enrollment_result: a new agent_runtime.json
StoreIdentity(p) ==
  /\ At(p, "rt")
  /\ rt' = proc[p].got
  /\ proc' = [proc EXCEPT ![p].pc = "scrub", ![p].me = proc[p].got]
  /\ Noted /\ UNCHANGED <<token, cfgid, key, cert, ledger, gateway, bounds>>

\* Mutant: only a fresh enrollment removes the token, an identity found on disk
\* leaves the configuration alone.
ScrubFresh(p) ==
  /\ At(p, "scrub")
  /\ token' = IF proc[p].got # NoAgent THEN NoToken ELSE token
  /\ proc' = [proc EXCEPT ![p] = IF p = "agentd"
                                 THEN [Idle EXCEPT !.pc = "init", !.me = proc[p].me] ELSE Idle]
  /\ Noted /\ UNCHANGED <<cfgid, key, cert, rt, ledger, gateway, bounds>>

\* scrub_enrollment_token_from_config_file; the command is done, the daemon goes on.
Scrub(p) ==
  /\ At(p, "scrub")
  /\ token' = NoToken
  /\ proc' = [proc EXCEPT ![p] = IF p = "agentd"
                                 THEN [Idle EXCEPT !.pc = "init", !.me = proc[p].me] ELSE Idle]
  /\ Noted /\ UNCHANGED <<cfgid, key, cert, rt, ledger, gateway, bounds>>

\* write_private truncates the file and then writes it: one that fails or is
\* interrupted leaves the file as it was or one that cannot be parsed.
Unfinished(p) ==
  \/ UNCHANGED <<key, cert>>
  \/ /\ proc[p].pc \in {"cert", "newcert"} /\ cert' = [agent |-> NoAgent, age |-> "torn"]
     /\ UNCHANGED key
  \/ proc[p].pc = "key" /\ key = "none" /\ key' = "torn" /\ UNCHANGED cert

\* A write of the key, the certificate, the identity or the configuration
\* fails: the error leaves the program.
WriteFails(p) ==
  /\ proc[p].pc \in {"key", "cert", "rt", "scrub", "init"} /\ faults < MaxFaults
  /\ faults' = faults + 1 /\ Exit(p) /\ Unfinished(p)
  /\ Noted /\ UNCHANGED <<token, cfgid, rt, ledger, gateway, enrolls, events>>

-----------------------------------------------------------------------------
(* renew_credential_if_due: at the start and then every hour.               *)

\* Mutant: a certificate is renewed once it has expired, not before.
DecidedLate ==
  CASE cert.age \in {"valid", "due"} -> "not_due"
    [] cert.age = "none" -> "needs_reinstall"
    [] cert.age = "torn" -> "failed"
    [] OTHER -> "due"

\* renewal_decision without a request: the outcome goes to renewal.json.
Decided ==
  CASE cert.age = "valid" -> "not_due"
    [] cert.age \in {"none", "expired"} -> "needs_reinstall"
    [] cert.age = "torn" -> "failed"
    [] OTHER -> "due"

CheckRenewal(p) ==
  /\ At(p, "check")
  /\ IF Decided = "due" /\ key # "torn"
     THEN /\ key' = "ok" /\ UNCHANGED ledger
          /\ proc' = [proc EXCEPT ![p].pc = "renew", ![p].tries = 0]
     ELSE /\ ledger' = IF Decided = "due" THEN "failed" ELSE Decided
          /\ Back(p) /\ UNCHANGED key
  /\ Noted /\ UNCHANGED <<token, cfgid, cert, rt, gateway, bounds>>

\* renew_credential refused: a terminal code is "revoked", anything else "failed".
RenewRefused(p) ==
  /\ At(p, "renew") /\ Rejection(proc[p].me) # "none"
  /\ ledger' = IF Terminal(Rejection(proc[p].me)) THEN "revoked" ELSE "failed"
  /\ Back(p)
  /\ Noted /\ UNCHANGED <<token, cfgid, key, cert, rt, gateway, bounds>>

\* The request or its answer is lost: another attempt, or none left.
RenewLost(p) ==
  /\ At(p, "renew") /\ faults < MaxFaults /\ faults' = faults + 1
  /\ \/ proc[p].tries + 1 < MaxAttempts /\ Retry(p, FALSE) /\ UNCHANGED ledger
     \/ /\ proc[p].tries + 1 = MaxAttempts /\ ledger' = "failed"
        /\ Back(p)
  /\ Noted
  /\ UNCHANGED <<token, cfgid, key, cert, rt, gateway, enrolls, events>>

RenewAccepted(p) ==
  /\ At(p, "renew") /\ Rejection(proc[p].me) = "none"
  /\ proc' = [proc EXCEPT ![p].pc = "newcert", ![p].got = proc[p].me]
  /\ Noted /\ UNCHANGED <<files, gateway, bounds>>

\* store_issued_client_certificate of the renewed credential
StoreRenewed(p) ==
  /\ At(p, "newcert")
  /\ cert' = [agent |-> proc[p].got, age |-> "valid"]
  /\ Goto(p, "reload")
  /\ Noted /\ UNCHANGED <<token, cfgid, key, rt, ledger, gateway, bounds>>

\* agent_runtime.json is read, given the new credential id and written back.
ReloadRuntime(p) ==
  /\ At(p, "reload")
  /\ proc' = [proc EXCEPT ![p].pc = "restore", ![p].held = LoadOrDefault]
  /\ Noted /\ UNCHANGED <<files, gateway, bounds>>

RestoreRuntime(p) ==
  /\ At(p, "restore")
  /\ rt' = proc[p].held /\ ledger' = "renewed"
  /\ Back(p)
  /\ Noted /\ UNCHANGED <<token, cfgid, key, cert, gateway, bounds>>

\* Writing the renewed certificate, or reading or writing the identity, fails:
\* the outcome is "failed" and the program goes on.
RenewWriteFails(p) ==
  /\ proc[p].pc \in {"newcert", "reload", "restore"} /\ faults < MaxFaults
  /\ faults' = faults + 1 /\ ledger' = "failed" /\ Back(p) /\ Unfinished(p)
  /\ Noted /\ UNCHANGED <<token, cfgid, rt, gateway, enrolls, events>>

-----------------------------------------------------------------------------
(* The daemon.                                                              *)

\* sync_runtime_identity: an enrolled identity is never bound to another id.
Conflict == cfgid # NoAgent /\ Registered(rt) /\ rt # cfgid

\* initialize_runtime_state
InitializeRuntime ==
  /\ At("agentd", "init")
  /\ IF Conflict THEN Exit("agentd") /\ UNCHANGED rt
     ELSE rt' = proc["agentd"].me /\ Goto("agentd", "run")
  /\ Noted /\ UNCHANGED <<token, cfgid, key, cert, ledger, gateway, bounds>>

\* run_once: agent_runtime.json is read and, later, written back with a new
\* updated_at.
TickLoads ==
  /\ At("agentd", "run")
  /\ proc' = [proc EXCEPT !["agentd"].pc = "tick", !["agentd"].held = LoadOrDefault]
  /\ Noted /\ UNCHANGED <<files, gateway, bounds>>

TickStores ==
  /\ At("agentd", "tick")
  /\ rt' = proc["agentd"].held
  /\ proc' = [proc EXCEPT !["agentd"].pc = "run", !["agentd"].held = NoAgent]
  /\ Noted /\ UNCHANGED <<token, cfgid, key, cert, ledger, gateway, bounds>>

HourlyCheck ==
  /\ At("agentd", "run")
  /\ proc' = [proc EXCEPT !["agentd"].pc = "check", !["agentd"].ret = "run"]
  /\ Noted /\ UNCHANGED <<files, gateway, bounds>>

-----------------------------------------------------------------------------
(* The enroll command; --force first throws the local identity away.        *)

RunEnroll ==
  /\ At("cli", "down") /\ enrolls < MaxEnrolls /\ enrolls' = enrolls + 1
  /\ \E t \in Tokens \cup {NoToken}, force \in BOOLEAN :
       /\ force => t # NoToken
       /\ proc' = [proc EXCEPT !["cli"].pc = IF force THEN "discard_rt" ELSE "ensure",
                               !["cli"].tok = t]
  /\ Noted /\ UNCHANGED <<files, gateway, events, faults>>

\* discard_local_identity: three files in this order; the key stays.
Discard ==
  /\ \/ /\ At("cli", "discard_rt") /\ rt' = NoAgent /\ UNCHANGED <<cert, ledger>>
        /\ Goto("cli", "discard_cert")
     \/ /\ At("cli", "discard_cert") /\ cert' = NoCert /\ UNCHANGED <<rt, ledger>>
        /\ Goto("cli", "discard_ledger")
     \/ /\ At("cli", "discard_ledger") /\ ledger' = "none" /\ UNCHANGED <<rt, cert>>
        /\ Goto("cli", "ensure")
  /\ Noted /\ UNCHANGED <<token, cfgid, key, gateway, bounds>>

-----------------------------------------------------------------------------
(* The environment.                                                         *)

\* A process is killed, in the middle of a write too.
Kill(p) ==
  /\ ~At(p, "down") /\ faults < MaxFaults /\ faults' = faults + 1
  /\ Exit(p) /\ Unfinished(p)
  /\ Noted
  /\ UNCHANGED <<token, cfgid, rt, ledger, gateway, enrolls, events>>

\* certificate_status_from_pem: notAfter comes closer, then passes.
Ages ==
  /\ events < MaxEvents /\ events' = events + 1
  /\ cert.age \in {"valid", "due"}
  /\ cert' = [cert EXCEPT !.age = IF @ = "valid" THEN "due" ELSE "expired"]
  /\ UNCHANGED <<token, cfgid, key, rt, ledger, proc, gateway, overlap>>
  /\ UNCHANGED <<enrolls, faults>>

\* An operator puts an agent on the denylist or takes it off.
Denylist(a) ==
  /\ events < MaxEvents /\ events' = events + 1
  /\ refused' = IF a \in refused THEN refused \ {a} ELSE refused \cup {a}
  /\ UNCHANGED <<files, proc, fresh, enrolls, faults, overlap>>

Next ==
  \/ \E p \in Procs :
       \/ Ensure(p) \/ BuildRequest(p) \/ PostLost(p) \/ PostAccepted(p) \/ PostRejected(p)
       \/ StoreCertificate(p) \/ StoreIdentity(p) \/ Scrub(p) \/ WriteFails(p)
       \/ CheckRenewal(p) \/ RenewRefused(p) \/ RenewLost(p) \/ RenewAccepted(p)
       \/ StoreRenewed(p) \/ ReloadRuntime(p) \/ RestoreRuntime(p) \/ RenewWriteFails(p)
       \/ Kill(p)
  \/ InitializeRuntime \/ TickLoads \/ TickStores \/ HourlyCheck
  \/ RunEnroll \/ Discard
  \/ Ages \/ \E a \in Agents : Denylist(a)

\* Both programs run on: the service manager starts the daemon again after every
\* exit (Restart=always), and requests get through in the end.  The hourly check
\* comes however often the loop ticks in between.
Steps(p) ==
  \/ Ensure(p) \/ BuildRequest(p) \/ PostAccepted(p) \/ PostRejected(p)
  \/ StoreCertificate(p) \/ StoreIdentity(p) \/ Scrub(p)
  \/ CheckRenewal(p) \/ RenewRefused(p) \/ RenewAccepted(p)
  \/ StoreRenewed(p) \/ ReloadRuntime(p) \/ RestoreRuntime(p)

Fairness ==
  /\ WF_vars(Steps("agentd") \/ InitializeRuntime \/ TickStores)
  /\ WF_vars(Steps("cli") \/ Discard)
  /\ SF_vars(HourlyCheck)

Spec == Init /\ [][Next]_vars /\ Fairness

-----------------------------------------------------------------------------
AgentOrNone == Agents \cup {NoAgent, LocalAgent}

\* The files, the two programs and the gateway hold the values the code can give them.
TypeOK ==
  /\ token \in Tokens \cup {NoToken} /\ cfgid \in Agents \cup {NoAgent}
  /\ key \in {"none", "ok", "torn"} /\ rt \in AgentOrNone
  /\ cert \in [agent : Agents \cup {NoAgent}, age : {"none", "valid", "due", "expired", "torn"}]
  /\ ledger \in {"none", "not_due", "renewed", "failed", "needs_reinstall", "revoked"}
  /\ proc \in [Procs -> [pc : {"down", "ensure", "key", "post", "cert", "rt", "scrub", "init", "run",
                              "tick", "check", "renew", "newcert", "reload", "restore",
                              "discard_rt", "discard_cert", "discard_ledger"},
                        me : AgentOrNone, got : AgentOrNone, held : AgentOrNone,
                        tok : Tokens \cup {NoToken}, tries : 0 .. (MaxAttempts - 1),
                        ret : {"scrub", "run"}]]
  /\ fresh \subseteq Tokens /\ refused \subseteq Agents
  /\ overlap \in BOOLEAN

\* apply_enrollment_result, discard_local_identity: the identity file is the
\* last to be written and the first to go, so whenever it names a registered
\* agent the certificate on disk is that agent's (or a torn renewal), whatever
\* process was killed in between.  `enroll` under a living daemon is excluded:
\* the daemon's read and write of agent_runtime.json are two steps and would
\* bring the discarded identity back.
IdentityWhole ==
  (cfgid = NoAgent /\ ~overlap /\ Registered(rt))
    => (cert.agent = rt \/ cert.age = "torn")

\* scrub_enrollment_token_from_config_file: a daemon in its loop has left no
\* token in agentd.toml, also when an earlier start was killed between storing
\* the identity and removing the token.
TokenScrubbed ==
  proc["agentd"].pc \in {"run", "tick"} => token = NoToken

\* The identity of the machine is whole and its token used up.
IdentityKept == TypeOK /\ IdentityWhole /\ TokenScrubbed

\* ensure_enrolled: the only reasons for a daemon not to come up for good.
NeedsOperator ==
  \/ cfgid = NoAgent /\ ~Registered(rt) /\ (token = NoToken \/ token \notin fresh)
  \/ key = "torn" /\ ~Registered(rt)
  \/ Conflict

\* run_daemon, restarted by the service manager: the daemon reaches its loop,
\* whatever was lost or killed on the way, or the machine needs a new token, a
\* readable key or a consistent configuration.
DaemonComesUp == At("agentd", "down") ~> (At("agentd", "run") \/ NeedsOperator)

\* renew_credential_if_due: a running daemon whose certificate has come due gets
\* a new one, unless the gateway refuses the agent, the certificate expires
\* first or the daemon goes away.
DueIsRenewed ==
  (At("agentd", "run") /\ cert.age = "due")
    ~> (cert.age # "due" \/ At("agentd", "down")
        \/ Rejection(proc["agentd"].me) # "none" \/ key = "torn")
=============================================================================
