--------------------------- MODULE GatewayProofs ---------------------------
(***************************************************************************)
(* Theorems about what ties the agent to its gateway, and their proofs.    *)
(*                                                                         *)
(* Identity: the identity on disk is whole and the token of the            *)
(* configuration used up, for every set of agents and tokens and every     *)
(* number of enrollments, renewals, lost requests, failed writes and       *)
(* kills.                                                                  *)
(*                                                                         *)
(* Refresh: for every set of works, every work content and every interval, *)
(* PullsSafe (the stored view, the drift an unreadable version leaves      *)
(* visible, the pace of the fact summary) and the action property          *)
(* SnapshotPrompt.                                                         *)
(***************************************************************************)
EXTENDS Identity, Refresh, TLAPS

-----------------------------------------------------------------------------
(* The parts of TypeOK.                                                     *)

Places == {"down", "ensure", "key", "post", "cert", "rt", "scrub", "init", "run",
           "tick", "check", "renew", "newcert", "reload", "restore",
           "discard_rt", "discard_cert", "discard_ledger"}
Shape == [pc : Places, me : AgentOrNone, got : AgentOrNone, held : AgentOrNone,
          tok : Tokens \cup {NoToken}, tries : 0 .. (MaxAttempts - 1), ret : {"scrub", "run"}]
ProcTypes == proc \in [Procs -> Shape]
FileTypes ==
  /\ token \in Tokens \cup {NoToken} /\ cfgid \in Agents \cup {NoAgent}
  /\ key \in {"none", "ok", "torn"} /\ rt \in AgentOrNone
  /\ ledger \in {"none", "not_due", "renewed", "failed", "needs_reinstall", "revoked"}
  /\ fresh \subseteq Tokens /\ refused \subseteq Agents
CertType == cert \in [agent : Agents \cup {NoAgent}, age : {"none", "valid", "due", "expired", "torn"}]

\* What the gateway issued is an agent.
IssuedOK ==
  \A p \in Procs :
    /\ proc[p].pc \in {"cert", "rt"} => proc[p].got \in Agents
    /\ proc[p].pc = "newcert" => proc[p].got \in Agents \cup {NoAgent}

\* A program that is not running.
LEMMA IdleShape == Idle \in Shape
  BY IdentityAssumption DEF Idle, Shape, Places, AgentOrNone

\* A step of one program leaves the other one alone.
LEMMA OneMoves ==
  ASSUME ProcTypes, NEW p \in Procs, NEW q \in Procs, q # p,
         \/ Ensure(p) \/ BuildRequest(p) \/ PostLost(p) \/ PostAccepted(p) \/ PostRejected(p)
         \/ StoreCertificate(p) \/ StoreIdentity(p) \/ Scrub(p) \/ WriteFails(p)
         \/ CheckRenewal(p) \/ RenewRefused(p) \/ RenewLost(p) \/ RenewAccepted(p)
         \/ StoreRenewed(p) \/ ReloadRuntime(p) \/ RestoreRuntime(p) \/ RenewWriteFails(p)
         \/ Kill(p)
  PROVE  proc'[q] = proc[q]
<1> USE DEF ProcTypes, Goto, Back, Exit, Retry
<1>1. CASE Ensure(p)
  BY <1>1 DEF Ensure, Known, Configured, Unknown, NoTokenLeft, EnrollmentToken
<1>2. CASE BuildRequest(p)
  BY <1>2 DEF BuildRequest
<1>3. CASE PostLost(p)
  BY <1>3 DEF PostLost
<1>4. CASE PostAccepted(p)
  BY <1>4 DEF PostAccepted
<1>5. CASE PostRejected(p)
  BY <1>5 DEF PostRejected
<1>6. CASE StoreCertificate(p)
  BY <1>6 DEF StoreCertificate
<1>7. CASE StoreIdentity(p)
  BY <1>7 DEF StoreIdentity
<1>8. CASE Scrub(p)
  BY <1>8 DEF Scrub
<1>9. CASE WriteFails(p)
  BY <1>9 DEF WriteFails, Unfinished
<1>10. CASE CheckRenewal(p)
  BY <1>10 DEF CheckRenewal
<1>11. CASE RenewRefused(p)
  BY <1>11 DEF RenewRefused
<1>12. CASE RenewLost(p)
  BY <1>12 DEF RenewLost
<1>13. CASE RenewAccepted(p)
  BY <1>13 DEF RenewAccepted
<1>14. CASE StoreRenewed(p)
  BY <1>14 DEF StoreRenewed
<1>15. CASE ReloadRuntime(p)
  BY <1>15 DEF ReloadRuntime
<1>16. CASE RestoreRuntime(p)
  BY <1>16 DEF RestoreRuntime
<1>17. CASE RenewWriteFails(p)
  BY <1>17 DEF RenewWriteFails, Unfinished
<1>18. CASE Kill(p)
  BY <1>18 DEF Kill, Unfinished
<1> QED
  BY <1>1, <1>2, <1>3, <1>4, <1>5, <1>6, <1>7, <1>8, <1>9, <1>10, <1>11, <1>12, <1>13, <1>14, <1>15, <1>16, <1>17, <1>18

\* A program that keeps its shape.
LEMMA Becomes ==
  ASSUME ProcTypes, NEW p \in Procs, NEW r \in Shape, proc' = [proc EXCEPT ![p] = r] PROVE ProcTypes'
  BY DEF ProcTypes

LEMMA Fields ==
  ASSUME NEW r \in Shape
  PROVE  /\ \A x \in Places : [r EXCEPT !.pc = x] \in Shape
         /\ \A a \in AgentOrNone : [r EXCEPT !.me = a] \in Shape
         /\ \A a \in AgentOrNone : [r EXCEPT !.got = a] \in Shape
         /\ \A a \in AgentOrNone : [r EXCEPT !.held = a] \in Shape
         /\ \A t \in Tokens \cup {NoToken} : [r EXCEPT !.tok = t] \in Shape
         /\ \A n \in 0 .. (MaxAttempts - 1) : [r EXCEPT !.tries = n] \in Shape
         /\ \A x \in {"scrub", "run"} : [r EXCEPT !.ret = x] \in Shape
<1>1. \A x \in Places : [r EXCEPT !.pc = x] \in Shape
  BY DEF Shape
<1>2. \A a \in AgentOrNone : [r EXCEPT !.me = a] \in Shape
  BY DEF Shape
<1>3. \A a \in AgentOrNone : [r EXCEPT !.got = a] \in Shape
  BY DEF Shape
<1>4. \A a \in AgentOrNone : [r EXCEPT !.held = a] \in Shape
  BY DEF Shape
<1>5. \A t \in Tokens \cup {NoToken} : [r EXCEPT !.tok = t] \in Shape
  BY DEF Shape
<1>6. \A n \in 0 .. (MaxAttempts - 1) : [r EXCEPT !.tries = n] \in Shape
  BY DEF Shape
<1>7. \A x \in {"scrub", "run"} : [r EXCEPT !.ret = x] \in Shape
  BY DEF Shape
<1> QED
  BY <1>1, <1>2, <1>3, <1>4, <1>5, <1>6, <1>7

\* The end of a renewal, back to where it was called from.
LEMMA BackType == ASSUME ProcTypes, NEW p \in Procs, Back(p) PROVE ProcTypes'
<1> DEFINE r1 == [Idle EXCEPT !.pc = proc[p].ret]
           r2 == [r1 EXCEPT !.me = proc[p].me]
<1>1. proc[p].ret \in Places /\ proc[p].me \in AgentOrNone
  BY DEF ProcTypes, Shape, Places
<1>2. r1 \in Shape
  BY <1>1, IdleShape, Fields
<1>3. r2 \in Shape
  BY <1>1, <1>2, Fields
<1>4. proc' = [proc EXCEPT ![p] = r2]
  BY DEF Back
<1> HIDE DEF r1, r2
<1> QED
  BY <1>3, <1>4, Becomes

\* The memory of the two programs.
LEMMA ProcTypesStep == ProcTypes /\ FileTypes /\ [Next]_vars => ProcTypes'
<1> SUFFICES ASSUME ProcTypes, FileTypes, [Next]_vars PROVE ProcTypes'
  OBVIOUS
<1>a. /\ Agents \subseteq AgentOrNone /\ NoAgent \in AgentOrNone /\ LoadOrDefault \in AgentOrNone
      /\ rt \in AgentOrNone /\ cfgid \in AgentOrNone
      /\ token \in Tokens \cup {NoToken} /\ MaxAttempts \in Nat \ {0}
  BY IdentityAssumption DEF AgentOrNone, LoadOrDefault, FileTypes
<1>b. \A p \in Procs : proc[p] \in Shape
  BY DEF ProcTypes
<1>c. /\ "agentd" \in Procs /\ "cli" \in Procs
      /\ \A p \in Procs : /\ proc[p].me \in AgentOrNone /\ proc[p].got \in AgentOrNone
                         /\ proc[p].held \in AgentOrNone /\ proc[p].ret \in {"scrub", "run"}
                         /\ proc[p].tries \in 0 .. (MaxAttempts - 1)
  BY <1>b DEF Procs, Shape
<1> USE DEF At, Goto, Exit, files, gateway, bounds
<1>u. CASE UNCHANGED vars
  BY <1>u DEF vars, ProcTypes
<1>1. ASSUME NEW p \in Procs, Ensure(p) PROVE ProcTypes'
  BY <1>1, IdleShape, <1>a, <1>b, <1>c DEF Ensure, Known, Configured, Unknown, NoTokenLeft, EnrollmentToken, ProcTypes, Shape, Places, Back
<1>2. ASSUME NEW p \in Procs, BuildRequest(p) PROVE ProcTypes'
  BY <1>2, IdleShape, <1>a, <1>b, <1>c DEF BuildRequest, ProcTypes, Shape, Places, Back
<1>3. ASSUME NEW p \in Procs, PostLost(p) PROVE ProcTypes'
  BY <1>3, IdleShape, <1>a, <1>b, <1>c DEF PostLost, Retry, ProcTypes, Shape, Places, Back
<1>4. ASSUME NEW p \in Procs, PostAccepted(p) PROVE ProcTypes'
  BY <1>4, IdleShape, <1>a, <1>b, <1>c DEF PostAccepted, Retry, ProcTypes, Shape, Places, Back
<1>5. ASSUME NEW p \in Procs, PostRejected(p) PROVE ProcTypes'
  BY <1>5, IdleShape, <1>a, <1>b, <1>c DEF PostRejected, ProcTypes, Shape, Places, Back
<1>6. ASSUME NEW p \in Procs, StoreCertificate(p) PROVE ProcTypes'
  BY <1>6, IdleShape, <1>a, <1>b, <1>c DEF StoreCertificate, ProcTypes, Shape, Places, Back
<1>7. ASSUME NEW p \in Procs, StoreIdentity(p) PROVE ProcTypes'
  <2> DEFINE r1 == [proc[p] EXCEPT !.pc = "scrub"]
             r2 == [r1 EXCEPT !.me = proc[p].got]
  <2>1. r1 \in Shape
    BY <1>a, <1>b, <1>c, Fields DEF Places
  <2>2. r2 \in Shape
    BY <1>a, <1>c, <2>1, Fields DEF Places
  <2>3. proc' = [proc EXCEPT ![p] = r2]
    BY <1>7, <1>b, <1>c DEF StoreIdentity, ProcTypes
  <2> HIDE DEF r1, r2
  <2> QED
    BY <1>c, <2>2, <2>3, Becomes
<1>8. ASSUME NEW p \in Procs, Scrub(p) PROVE ProcTypes'
  BY <1>8, IdleShape, <1>a, <1>b, <1>c DEF Scrub, ProcTypes, Shape, Places, Back
<1>9. ASSUME NEW p \in Procs, WriteFails(p) PROVE ProcTypes'
  BY <1>9, IdleShape, <1>a, <1>b, <1>c DEF WriteFails, Unfinished, ProcTypes, Shape, Places, Back
<1>10. ASSUME NEW p \in Procs, CheckRenewal(p) PROVE ProcTypes'
  <2>b. ASSUME Back(p) PROVE ProcTypes'
    BY <2>b, BackType
  <2>c. ASSUME proc' = [proc EXCEPT ![p].pc = "renew", ![p].tries = 0] PROVE ProcTypes'
    <3> DEFINE r1 == [proc[p] EXCEPT !.pc = "renew"]
               r2 == [r1 EXCEPT !.tries = 0]
    <3>1. r1 \in Shape
      BY <1>a, <1>b, <1>c, Fields DEF Places
    <3>n. 0 \in 0 .. (MaxAttempts - 1)
      BY <1>a
    <3>2. r2 \in Shape
      BY <3>1, <3>n, Fields
    <3>3. proc' = [proc EXCEPT ![p] = r2]
      BY <2>c, <1>b, <1>c DEF ProcTypes
    <3> HIDE DEF r1, r2
    <3> QED
      BY <1>c, <3>2, <3>3, Becomes
  <2> QED
    BY <1>10, <2>b, <2>c DEF CheckRenewal
<1>11. ASSUME NEW p \in Procs, RenewRefused(p) PROVE ProcTypes'
  BY <1>11, IdleShape, <1>a, <1>b, <1>c DEF RenewRefused, ProcTypes, Shape, Places, Back
<1>12. ASSUME NEW p \in Procs, RenewLost(p) PROVE ProcTypes'
  <2>b. ASSUME Back(p) PROVE ProcTypes'
    BY <2>b, BackType
  <2>c. ASSUME proc' = [proc EXCEPT ![p].tries = @ + 1], proc[p].tries + 1 < MaxAttempts PROVE ProcTypes'
    BY <1>a, <1>b, <1>c, <2>c DEF ProcTypes, Shape
  <2> QED
    BY <1>12, <2>b, <2>c DEF RenewLost, Retry
<1>13. ASSUME NEW p \in Procs, RenewAccepted(p) PROVE ProcTypes'
  <2> DEFINE r1 == [proc[p] EXCEPT !.pc = "newcert"]
             r2 == [r1 EXCEPT !.got = proc[p].me]
  <2>1. r1 \in Shape
    BY <1>a, <1>b, <1>c, Fields DEF Places
  <2>2. r2 \in Shape
    BY <1>a, <1>c, <2>1, Fields DEF Places
  <2>3. proc' = [proc EXCEPT ![p] = r2]
    BY <1>13, <1>b, <1>c DEF RenewAccepted, ProcTypes
  <2> HIDE DEF r1, r2
  <2> QED
    BY <1>c, <2>2, <2>3, Becomes
<1>14. ASSUME NEW p \in Procs, StoreRenewed(p) PROVE ProcTypes'
  BY <1>14, IdleShape, <1>a, <1>b, <1>c DEF StoreRenewed, ProcTypes, Shape, Places, Back
<1>15. ASSUME NEW p \in Procs, ReloadRuntime(p) PROVE ProcTypes'
  <2> DEFINE r1 == [proc[p] EXCEPT !.pc = "restore"]
             r2 == [r1 EXCEPT !.held = LoadOrDefault]
  <2>1. r1 \in Shape
    BY <1>a, <1>b, <1>c, Fields DEF Places
  <2>2. r2 \in Shape
    BY <1>a, <1>c, <2>1, Fields DEF Places
  <2>3. proc' = [proc EXCEPT ![p] = r2]
    BY <1>15, <1>b, <1>c DEF ReloadRuntime, ProcTypes
  <2> HIDE DEF r1, r2
  <2> QED
    BY <1>c, <2>2, <2>3, Becomes
<1>16. ASSUME NEW p \in Procs, RestoreRuntime(p) PROVE ProcTypes'
  BY <1>16, IdleShape, <1>a, <1>b, <1>c DEF RestoreRuntime, ProcTypes, Shape, Places, Back
<1>17. ASSUME NEW p \in Procs, RenewWriteFails(p) PROVE ProcTypes'
  BY <1>17, IdleShape, <1>a, <1>b, <1>c DEF RenewWriteFails, Unfinished, ProcTypes, Shape, Places, Back
<1>18. ASSUME NEW p \in Procs, Kill(p) PROVE ProcTypes'
  BY <1>18, IdleShape, <1>a, <1>b, <1>c DEF Kill, Unfinished, ProcTypes, Shape, Places, Back
<1>19. CASE InitializeRuntime
  BY <1>19, IdleShape, <1>a, <1>b, <1>c DEF InitializeRuntime, ProcTypes, Shape, Places, Back
<1>20. CASE TickLoads
  <2> DEFINE r1 == [proc["agentd"] EXCEPT !.pc = "tick"]
             r2 == [r1 EXCEPT !.held = LoadOrDefault]
  <2>1. r1 \in Shape
    BY <1>a, <1>b, <1>c, Fields DEF Places
  <2>2. r2 \in Shape
    BY <1>a, <1>c, <2>1, Fields DEF Places
  <2>3. proc' = [proc EXCEPT !["agentd"] = r2]
    BY <1>20, <1>b, <1>c DEF TickLoads, ProcTypes
  <2> HIDE DEF r1, r2
  <2> QED
    BY <1>c, <2>2, <2>3, Becomes
<1>21. CASE TickStores
  <2> DEFINE r1 == [proc["agentd"] EXCEPT !.pc = "run"]
             r2 == [r1 EXCEPT !.held = NoAgent]
  <2>1. r1 \in Shape
    BY <1>a, <1>b, <1>c, Fields DEF Places
  <2>2. r2 \in Shape
    BY <1>a, <1>c, <2>1, Fields DEF Places
  <2>3. proc' = [proc EXCEPT !["agentd"] = r2]
    BY <1>21, <1>b, <1>c DEF TickStores, ProcTypes
  <2> HIDE DEF r1, r2
  <2> QED
    BY <1>c, <2>2, <2>3, Becomes
<1>22. CASE HourlyCheck
  <2> DEFINE r1 == [proc["agentd"] EXCEPT !.pc = "check"]
             r2 == [r1 EXCEPT !.ret = "run"]
  <2>1. r1 \in Shape
    BY <1>a, <1>b, <1>c, Fields DEF Places
  <2>2. r2 \in Shape
    BY <1>a, <1>c, <2>1, Fields DEF Places
  <2>3. proc' = [proc EXCEPT !["agentd"] = r2]
    BY <1>22, <1>b, <1>c DEF HourlyCheck, ProcTypes
  <2> HIDE DEF r1, r2
  <2> QED
    BY <1>c, <2>2, <2>3, Becomes
<1>23. CASE RunEnroll
  <2>1. PICK t \in Tokens \cup {NoToken}, force \in BOOLEAN :
          proc' = [proc EXCEPT !["cli"].pc = IF force THEN "discard_rt" ELSE "ensure", !["cli"].tok = t]
    BY <1>23 DEF RunEnroll
  <2> DEFINE r1 == [proc["cli"] EXCEPT !.pc = IF force THEN "discard_rt" ELSE "ensure"]
             r2 == [r1 EXCEPT !.tok = t]
  <2>2. r1 \in Shape
    BY <1>b, <1>c, Fields DEF Places
  <2>3. r2 \in Shape
    BY <2>2, Fields
  <2>4. proc' = [proc EXCEPT !["cli"] = r2]
    BY <1>b, <1>c, <2>1 DEF ProcTypes
  <2> HIDE DEF r1, r2
  <2> QED
    BY <1>c, <2>3, <2>4, Becomes
<1>24. CASE Discard
  BY <1>24, IdleShape, <1>a, <1>b, <1>c DEF Discard, ProcTypes, Shape, Places, Back
<1>25. CASE Ages
  BY <1>25, IdleShape, <1>a, <1>b, <1>c DEF Ages, ProcTypes, Shape, Places, Back
<1>26. ASSUME NEW a \in Agents, Denylist(a) PROVE ProcTypes'
  BY <1>26, IdleShape, <1>a, <1>b, <1>c DEF Denylist, ProcTypes, Shape, Places, Back
<1> QED
  BY <1>u, <1>1, <1>2, <1>3, <1>4, <1>5, <1>6, <1>7, <1>8, <1>9, <1>10, <1>11, <1>12, <1>13, <1>14, <1>15, <1>16, <1>17, <1>18, <1>19, <1>20, <1>21, <1>22, <1>23, <1>24, <1>25, <1>26 DEF Next

\* The files but the certificate, and the gateway.
LEMMA FileTypesStep == ProcTypes /\ FileTypes /\ [Next]_vars => FileTypes'
<1> SUFFICES ASSUME ProcTypes, FileTypes, [Next]_vars PROVE FileTypes'
  OBVIOUS
<1>a. \A p \in Procs : /\ proc[p].me \in AgentOrNone /\ proc[p].got \in AgentOrNone
                        /\ proc[p].held \in AgentOrNone
  BY DEF ProcTypes, Shape
<1>b. NoAgent \in AgentOrNone /\ "agentd" \in Procs
  BY DEF AgentOrNone, Procs
<1> USE DEF FileTypes, files, gateway, bounds
<1>u. CASE UNCHANGED vars
  BY <1>u, <1>a DEF vars
<1>1. ASSUME NEW p \in Procs, Ensure(p) PROVE FileTypes'
  BY <1>1, <1>a DEF Ensure, Known, Configured, Unknown, NoTokenLeft, EnrollmentToken
<1>2. ASSUME NEW p \in Procs, BuildRequest(p) PROVE FileTypes'
  BY <1>2, <1>a DEF BuildRequest
<1>3. ASSUME NEW p \in Procs, PostLost(p) PROVE FileTypes'
  BY <1>3, <1>a DEF PostLost, Retry
<1>4. ASSUME NEW p \in Procs, PostAccepted(p) PROVE FileTypes'
  BY <1>4, <1>a DEF PostAccepted, Retry
<1>5. ASSUME NEW p \in Procs, PostRejected(p) PROVE FileTypes'
  BY <1>5, <1>a DEF PostRejected
<1>6. ASSUME NEW p \in Procs, StoreCertificate(p) PROVE FileTypes'
  BY <1>6, <1>a DEF StoreCertificate
<1>7. ASSUME NEW p \in Procs, StoreIdentity(p) PROVE FileTypes'
  BY <1>7, <1>a DEF StoreIdentity
<1>8. ASSUME NEW p \in Procs, Scrub(p) PROVE FileTypes'
  BY <1>8, <1>a DEF Scrub
<1>9. ASSUME NEW p \in Procs, WriteFails(p) PROVE FileTypes'
  BY <1>9, <1>a DEF WriteFails, Unfinished
<1>10. ASSUME NEW p \in Procs, CheckRenewal(p) PROVE FileTypes'
  <2>1. Decided \in {"not_due", "needs_reinstall", "failed", "due"}
    BY DEF Decided
  <2> QED
    BY <1>10, <2>1 DEF CheckRenewal
<1>11. ASSUME NEW p \in Procs, RenewRefused(p) PROVE FileTypes'
  BY <1>11, <1>a DEF RenewRefused
<1>12. ASSUME NEW p \in Procs, RenewLost(p) PROVE FileTypes'
  BY <1>12, <1>a DEF RenewLost, Retry
<1>13. ASSUME NEW p \in Procs, RenewAccepted(p) PROVE FileTypes'
  BY <1>13, <1>a DEF RenewAccepted
<1>14. ASSUME NEW p \in Procs, StoreRenewed(p) PROVE FileTypes'
  BY <1>14, <1>a DEF StoreRenewed
<1>15. ASSUME NEW p \in Procs, ReloadRuntime(p) PROVE FileTypes'
  BY <1>15, <1>a DEF ReloadRuntime
<1>16. ASSUME NEW p \in Procs, RestoreRuntime(p) PROVE FileTypes'
  BY <1>16, <1>a DEF RestoreRuntime
<1>17. ASSUME NEW p \in Procs, RenewWriteFails(p) PROVE FileTypes'
  BY <1>17, <1>a DEF RenewWriteFails, Unfinished
<1>18. ASSUME NEW p \in Procs, Kill(p) PROVE FileTypes'
  BY <1>18, <1>a DEF Kill, Unfinished
<1>19. CASE InitializeRuntime
  BY <1>19, <1>a, <1>b DEF InitializeRuntime
<1>20. CASE TickLoads
  BY <1>20, <1>a DEF TickLoads
<1>21. CASE TickStores
  BY <1>21, <1>a, <1>b DEF TickStores
<1>22. CASE HourlyCheck
  BY <1>22, <1>a DEF HourlyCheck
<1>23. CASE RunEnroll
  BY <1>23, <1>a DEF RunEnroll
<1>24. CASE Discard
  BY <1>24, <1>b DEF Discard
<1>25. CASE Ages
  BY <1>25, <1>a DEF Ages
<1>26. ASSUME NEW a \in Agents, Denylist(a) PROVE FileTypes'
  BY <1>26, <1>a DEF Denylist
<1> QED
  BY <1>u, <1>1, <1>2, <1>3, <1>4, <1>5, <1>6, <1>7, <1>8, <1>9, <1>10, <1>11, <1>12, <1>13, <1>14, <1>15, <1>16, <1>17, <1>18, <1>19, <1>20, <1>21, <1>22, <1>23, <1>24, <1>25, <1>26 DEF Next

\* The certificate.
LEMMA CertTypeStep == ProcTypes /\ CertType /\ IssuedOK /\ [Next]_vars => CertType'
<1> SUFFICES ASSUME ProcTypes, CertType, IssuedOK, [Next]_vars PROVE CertType'
  OBVIOUS
<1> USE DEF CertType, files, gateway, bounds
<1>u. CASE UNCHANGED vars
  BY <1>u DEF vars
<1>1. ASSUME NEW p \in Procs, Ensure(p) PROVE CertType'
  BY <1>1 DEF Ensure, Known, Configured, Unknown, NoTokenLeft, EnrollmentToken
<1>2. ASSUME NEW p \in Procs, BuildRequest(p) PROVE CertType'
  BY <1>2 DEF BuildRequest
<1>3. ASSUME NEW p \in Procs, PostLost(p) PROVE CertType'
  BY <1>3 DEF PostLost, Retry
<1>4. ASSUME NEW p \in Procs, PostAccepted(p) PROVE CertType'
  BY <1>4 DEF PostAccepted, Retry
<1>5. ASSUME NEW p \in Procs, PostRejected(p) PROVE CertType'
  BY <1>5 DEF PostRejected
<1>6. ASSUME NEW p \in Procs, StoreCertificate(p) PROVE CertType'
  BY <1>6 DEF StoreCertificate, IssuedOK, At
<1>7. ASSUME NEW p \in Procs, StoreIdentity(p) PROVE CertType'
  BY <1>7 DEF StoreIdentity
<1>8. ASSUME NEW p \in Procs, Scrub(p) PROVE CertType'
  BY <1>8 DEF Scrub
<1>9. ASSUME NEW p \in Procs, WriteFails(p) PROVE CertType'
  BY <1>9 DEF WriteFails, Unfinished
<1>10. ASSUME NEW p \in Procs, CheckRenewal(p) PROVE CertType'
  BY <1>10 DEF CheckRenewal
<1>11. ASSUME NEW p \in Procs, RenewRefused(p) PROVE CertType'
  BY <1>11 DEF RenewRefused
<1>12. ASSUME NEW p \in Procs, RenewLost(p) PROVE CertType'
  BY <1>12 DEF RenewLost, Retry
<1>13. ASSUME NEW p \in Procs, RenewAccepted(p) PROVE CertType'
  BY <1>13 DEF RenewAccepted
<1>14. ASSUME NEW p \in Procs, StoreRenewed(p) PROVE CertType'
  BY <1>14 DEF StoreRenewed, IssuedOK, At
<1>15. ASSUME NEW p \in Procs, ReloadRuntime(p) PROVE CertType'
  BY <1>15 DEF ReloadRuntime
<1>16. ASSUME NEW p \in Procs, RestoreRuntime(p) PROVE CertType'
  BY <1>16 DEF RestoreRuntime
<1>17. ASSUME NEW p \in Procs, RenewWriteFails(p) PROVE CertType'
  BY <1>17 DEF RenewWriteFails, Unfinished
<1>18. ASSUME NEW p \in Procs, Kill(p) PROVE CertType'
  BY <1>18 DEF Kill, Unfinished
<1>19. CASE InitializeRuntime
  BY <1>19 DEF InitializeRuntime
<1>20. CASE TickLoads
  BY <1>20 DEF TickLoads
<1>21. CASE TickStores
  BY <1>21 DEF TickStores
<1>22. CASE HourlyCheck
  BY <1>22 DEF HourlyCheck
<1>23. CASE RunEnroll
  BY <1>23 DEF RunEnroll
<1>24. CASE Discard
  BY <1>24 DEF Discard, NoCert
<1>25. CASE Ages
  BY <1>25 DEF Ages
<1>26. ASSUME NEW a \in Agents, Denylist(a) PROVE CertType'
  BY <1>26 DEF Denylist
<1> QED
  BY <1>u, <1>1, <1>2, <1>3, <1>4, <1>5, <1>6, <1>7, <1>8, <1>9, <1>10, <1>11, <1>12, <1>13, <1>14, <1>15, <1>16, <1>17, <1>18, <1>19, <1>20, <1>21, <1>22, <1>23, <1>24, <1>25, <1>26 DEF Next

\* Only PostAccepted and RenewAccepted get an agent from the gateway.
LEMMA IssuedStep == ProcTypes /\ CertType /\ IssuedOK /\ [Next]_vars => IssuedOK'
<1> SUFFICES ASSUME ProcTypes, CertType, IssuedOK, [Next]_vars PROVE IssuedOK'
  OBVIOUS
<1>a. \A p \in Procs : proc[p] \in Shape /\ proc[p].ret \in {"scrub", "run"}
  BY DEF ProcTypes, Shape
<1> USE DEF At, Goto, Exit, files, gateway, bounds
<1>u. CASE UNCHANGED vars
  BY <1>u DEF vars, IssuedOK
<1>1. ASSUME NEW p \in Procs, Ensure(p) PROVE IssuedOK'
  <2>1. /\ proc'[p].pc \in {"cert", "rt"} => proc'[p].got \in Agents
        /\ proc'[p].pc = "newcert" => proc'[p].got \in Agents \cup {NoAgent}
    BY <1>1, <1>a DEF Ensure, Known, Configured, Unknown, NoTokenLeft, EnrollmentToken, Goto, Back, Exit, At, Idle, ProcTypes, Shape, IssuedOK
  <2>2. \A q \in Procs : q # p => proc'[q] = proc[q]
    BY <1>1, OneMoves
  <2> QED
    BY <2>1, <2>2 DEF IssuedOK
<1>2. ASSUME NEW p \in Procs, BuildRequest(p) PROVE IssuedOK'
  <2>1. /\ proc'[p].pc \in {"cert", "rt"} => proc'[p].got \in Agents
        /\ proc'[p].pc = "newcert" => proc'[p].got \in Agents \cup {NoAgent}
    BY <1>2, <1>a DEF BuildRequest, Goto, Back, Exit, At, Idle, ProcTypes, Shape, IssuedOK
  <2>2. \A q \in Procs : q # p => proc'[q] = proc[q]
    BY <1>2, OneMoves
  <2> QED
    BY <2>1, <2>2 DEF IssuedOK
<1>3. ASSUME NEW p \in Procs, PostLost(p) PROVE IssuedOK'
  <2>1. /\ proc'[p].pc \in {"cert", "rt"} => proc'[p].got \in Agents
        /\ proc'[p].pc = "newcert" => proc'[p].got \in Agents \cup {NoAgent}
    BY <1>3, <1>a DEF PostLost, Retry, Goto, Back, Exit, At, Idle, ProcTypes, Shape, IssuedOK
  <2>2. \A q \in Procs : q # p => proc'[q] = proc[q]
    BY <1>3, OneMoves
  <2> QED
    BY <2>1, <2>2 DEF IssuedOK
<1>4. ASSUME NEW p \in Procs, PostAccepted(p) PROVE IssuedOK'
  <2>1. /\ proc'[p].pc \in {"cert", "rt"} => proc'[p].got \in Agents
        /\ proc'[p].pc = "newcert" => proc'[p].got \in Agents \cup {NoAgent}
    BY <1>4, <1>a DEF PostAccepted, Retry, Goto, Back, Exit, At, Idle, ProcTypes, Shape, IssuedOK
  <2>2. \A q \in Procs : q # p => proc'[q] = proc[q]
    BY <1>4, OneMoves
  <2> QED
    BY <2>1, <2>2 DEF IssuedOK
<1>5. ASSUME NEW p \in Procs, PostRejected(p) PROVE IssuedOK'
  <2>1. /\ proc'[p].pc \in {"cert", "rt"} => proc'[p].got \in Agents
        /\ proc'[p].pc = "newcert" => proc'[p].got \in Agents \cup {NoAgent}
    BY <1>5, <1>a DEF PostRejected, Goto, Back, Exit, At, Idle, ProcTypes
  <2>2. \A q \in Procs : q # p => proc'[q] = proc[q]
    BY <1>5, OneMoves
  <2> QED
    BY <2>1, <2>2 DEF IssuedOK
<1>6. ASSUME NEW p \in Procs, StoreCertificate(p) PROVE IssuedOK'
  <2>1. /\ proc'[p].pc \in {"cert", "rt"} => proc'[p].got \in Agents
        /\ proc'[p].pc = "newcert" => proc'[p].got \in Agents \cup {NoAgent}
    BY <1>6, <1>a DEF StoreCertificate, Goto, Back, Exit, At, Idle, ProcTypes, Shape, IssuedOK
  <2>2. \A q \in Procs : q # p => proc'[q] = proc[q]
    BY <1>6, OneMoves
  <2> QED
    BY <2>1, <2>2 DEF IssuedOK
<1>7. ASSUME NEW p \in Procs, StoreIdentity(p) PROVE IssuedOK'
  <2>1. /\ proc'[p].pc \in {"cert", "rt"} => proc'[p].got \in Agents
        /\ proc'[p].pc = "newcert" => proc'[p].got \in Agents \cup {NoAgent}
    BY <1>7, <1>a DEF StoreIdentity, Goto, Back, Exit, At, Idle, ProcTypes
  <2>2. \A q \in Procs : q # p => proc'[q] = proc[q]
    BY <1>7, OneMoves
  <2> QED
    BY <2>1, <2>2 DEF IssuedOK
<1>8. ASSUME NEW p \in Procs, Scrub(p) PROVE IssuedOK'
  <2>1. /\ proc'[p].pc \in {"cert", "rt"} => proc'[p].got \in Agents
        /\ proc'[p].pc = "newcert" => proc'[p].got \in Agents \cup {NoAgent}
    BY <1>8, <1>a DEF Scrub, Goto, Back, Exit, At, Idle, ProcTypes
  <2>2. \A q \in Procs : q # p => proc'[q] = proc[q]
    BY <1>8, OneMoves
  <2> QED
    BY <2>1, <2>2 DEF IssuedOK
<1>9. ASSUME NEW p \in Procs, WriteFails(p) PROVE IssuedOK'
  <2>1. /\ proc'[p].pc \in {"cert", "rt"} => proc'[p].got \in Agents
        /\ proc'[p].pc = "newcert" => proc'[p].got \in Agents \cup {NoAgent}
    BY <1>9, <1>a DEF WriteFails, Unfinished, Goto, Back, Exit, At, Idle, ProcTypes
  <2>2. \A q \in Procs : q # p => proc'[q] = proc[q]
    BY <1>9, OneMoves
  <2> QED
    BY <2>1, <2>2 DEF IssuedOK
<1>10. ASSUME NEW p \in Procs, CheckRenewal(p) PROVE IssuedOK'
  <2>1. /\ proc'[p].pc \in {"cert", "rt"} => proc'[p].got \in Agents
        /\ proc'[p].pc = "newcert" => proc'[p].got \in Agents \cup {NoAgent}
    <3>1. ASSUME Back(p) PROVE proc'[p].pc \in {"scrub", "run"}
      BY <1>a, <3>1 DEF Back, Idle, ProcTypes
    <3>2. ASSUME proc' = [proc EXCEPT ![p].pc = "renew", ![p].tries = 0] PROVE proc'[p].pc = "renew"
      BY <3>2 DEF ProcTypes, Shape
    <3>3. proc'[p].pc \in {"scrub", "run", "renew"}
      BY <1>10, <3>1, <3>2 DEF CheckRenewal
    <3> QED
      BY <3>3
  <2>2. \A q \in Procs : q # p => proc'[q] = proc[q]
    BY <1>10, OneMoves
  <2> QED
    BY <2>1, <2>2 DEF IssuedOK
<1>11. ASSUME NEW p \in Procs, RenewRefused(p) PROVE IssuedOK'
  <2>1. /\ proc'[p].pc \in {"cert", "rt"} => proc'[p].got \in Agents
        /\ proc'[p].pc = "newcert" => proc'[p].got \in Agents \cup {NoAgent}
    BY <1>11, <1>a DEF RenewRefused, Goto, Back, Exit, At, Idle, ProcTypes
  <2>2. \A q \in Procs : q # p => proc'[q] = proc[q]
    BY <1>11, OneMoves
  <2> QED
    BY <2>1, <2>2 DEF IssuedOK
<1>12. ASSUME NEW p \in Procs, RenewLost(p) PROVE IssuedOK'
  <2>1. /\ proc'[p].pc \in {"cert", "rt"} => proc'[p].got \in Agents
        /\ proc'[p].pc = "newcert" => proc'[p].got \in Agents \cup {NoAgent}
    BY <1>12, <1>a DEF RenewLost, Retry, Goto, Back, Exit, At, Idle, ProcTypes, Shape, IssuedOK
  <2>2. \A q \in Procs : q # p => proc'[q] = proc[q]
    BY <1>12, OneMoves
  <2> QED
    BY <2>1, <2>2 DEF IssuedOK
<1>13. ASSUME NEW p \in Procs, RenewAccepted(p) PROVE IssuedOK'
  <2>1. proc[p].me \in Agents \cup {NoAgent}
    BY <1>13 DEF RenewAccepted, Rejection, CertType
  <2>2. proc'[p].pc = "newcert" /\ proc'[p].got = proc[p].me
    BY <1>13 DEF RenewAccepted, ProcTypes, Shape
  <2>3. \A q \in Procs : q # p => proc'[q] = proc[q]
    BY <1>13, OneMoves
  <2> QED
    BY <2>1, <2>2, <2>3 DEF IssuedOK
<1>14. ASSUME NEW p \in Procs, StoreRenewed(p) PROVE IssuedOK'
  <2>1. /\ proc'[p].pc \in {"cert", "rt"} => proc'[p].got \in Agents
        /\ proc'[p].pc = "newcert" => proc'[p].got \in Agents \cup {NoAgent}
    BY <1>14, <1>a DEF StoreRenewed, Goto, Back, Exit, At, Idle, ProcTypes
  <2>2. \A q \in Procs : q # p => proc'[q] = proc[q]
    BY <1>14, OneMoves
  <2> QED
    BY <2>1, <2>2 DEF IssuedOK
<1>15. ASSUME NEW p \in Procs, ReloadRuntime(p) PROVE IssuedOK'
  <2>1. /\ proc'[p].pc \in {"cert", "rt"} => proc'[p].got \in Agents
        /\ proc'[p].pc = "newcert" => proc'[p].got \in Agents \cup {NoAgent}
    BY <1>15, <1>a DEF ReloadRuntime, Goto, Back, Exit, At, Idle, ProcTypes
  <2>2. \A q \in Procs : q # p => proc'[q] = proc[q]
    BY <1>15, OneMoves
  <2> QED
    BY <2>1, <2>2 DEF IssuedOK
<1>16. ASSUME NEW p \in Procs, RestoreRuntime(p) PROVE IssuedOK'
  <2>1. /\ proc'[p].pc \in {"cert", "rt"} => proc'[p].got \in Agents
        /\ proc'[p].pc = "newcert" => proc'[p].got \in Agents \cup {NoAgent}
    BY <1>16, <1>a DEF RestoreRuntime, Goto, Back, Exit, At, Idle, ProcTypes
  <2>2. \A q \in Procs : q # p => proc'[q] = proc[q]
    BY <1>16, OneMoves
  <2> QED
    BY <2>1, <2>2 DEF IssuedOK
<1>17. ASSUME NEW p \in Procs, RenewWriteFails(p) PROVE IssuedOK'
  <2>1. /\ proc'[p].pc \in {"cert", "rt"} => proc'[p].got \in Agents
        /\ proc'[p].pc = "newcert" => proc'[p].got \in Agents \cup {NoAgent}
    BY <1>17, <1>a DEF RenewWriteFails, Unfinished, Goto, Back, Exit, At, Idle, ProcTypes
  <2>2. \A q \in Procs : q # p => proc'[q] = proc[q]
    BY <1>17, OneMoves
  <2> QED
    BY <2>1, <2>2 DEF IssuedOK
<1>18. ASSUME NEW p \in Procs, Kill(p) PROVE IssuedOK'
  <2>1. /\ proc'[p].pc \in {"cert", "rt"} => proc'[p].got \in Agents
        /\ proc'[p].pc = "newcert" => proc'[p].got \in Agents \cup {NoAgent}
    BY <1>18, <1>a DEF Kill, Unfinished, Goto, Back, Exit, At, Idle, ProcTypes
  <2>2. \A q \in Procs : q # p => proc'[q] = proc[q]
    BY <1>18, OneMoves
  <2> QED
    BY <2>1, <2>2 DEF IssuedOK
<1>19. CASE InitializeRuntime
  BY <1>19, <1>a DEF InitializeRuntime, IssuedOK, ProcTypes, Shape, Idle, Procs
<1>20. CASE TickLoads
  BY <1>20, <1>a DEF TickLoads, IssuedOK, ProcTypes, Shape, Idle, Procs
<1>21. CASE TickStores
  BY <1>21, <1>a DEF TickStores, IssuedOK, ProcTypes, Shape, Idle, Procs
<1>22. CASE HourlyCheck
  BY <1>22, <1>a DEF HourlyCheck, IssuedOK, ProcTypes, Shape, Idle, Procs
<1>23. CASE RunEnroll
  BY <1>23, <1>a DEF RunEnroll, IssuedOK, ProcTypes, Shape, Idle, Procs
<1>24. CASE Discard
  BY <1>24, <1>a DEF Discard, IssuedOK, ProcTypes, Shape, Idle, Procs
<1>25. CASE Ages
  BY <1>25, <1>a DEF Ages, IssuedOK, ProcTypes, Shape, Idle, Procs
<1>26. ASSUME NEW a \in Agents, Denylist(a) PROVE IssuedOK'
  BY <1>26, <1>a DEF Denylist, IssuedOK, ProcTypes, Shape, Idle, Procs
<1> QED
  BY <1>u, <1>1, <1>2, <1>3, <1>4, <1>5, <1>6, <1>7, <1>8, <1>9, <1>10, <1>11, <1>12, <1>13, <1>14, <1>15, <1>16, <1>17, <1>18, <1>19, <1>20, <1>21, <1>22, <1>23, <1>24, <1>25, <1>26 DEF Next
-----------------------------------------------------------------------------
(* Why the identity on disk is whole.                                       *)

\* Where a program has an identity and goes on with it.
Settled == {"check", "renew", "newcert", "reload", "restore", "scrub", "init", "run", "tick"}

\* What a program in the middle of its work relies on: an enrollment goes on only while
\* there is no identity, a settled program holds the identity of the file, and what is
\* about to be written is what belongs there.
HoldsOK(p) ==
  /\ Enrolling(p) => ~Registered(rt)
  /\ proc[p].pc \in Settled => Registered(rt) /\ proc[p].me = rt
  /\ proc[p].pc \in {"tick", "restore"} => proc[p].held = rt
  /\ proc[p].pc = "rt" => cert.agent = proc[p].got
  /\ proc[p].pc = "newcert" => proc[p].got = proc[p].me
Whole ==
  /\ Registered(rt) => cert.agent = rt \/ cert.age = "torn"
  /\ proc["cli"].pc \in {"discard_cert", "discard_ledger"} => ~Registered(rt)
  /\ \A p \in Procs : HoldsOK(p)

\* The identity comes from enrollments, none of which met the daemon.
Quiet == cfgid = NoAgent /\ ~overlap
WholeOK == Quiet => ~Meet /\ Whole

\* A meeting is noted by the very step that brings it about.
LEMMA QuietStep == WholeOK /\ Quiet' /\ [Next]_vars => Quiet /\ ~Meet'
<1> SUFFICES ASSUME WholeOK, Quiet', [Next]_vars PROVE Quiet /\ ~Meet'
  OBVIOUS
<1> USE DEF Quiet, Noted, files, gateway, bounds
<1>u. CASE UNCHANGED vars
  BY <1>u DEF vars, WholeOK, Meet, Discarding, Enrolling, At
<1>1. ASSUME NEW p \in Procs, Ensure(p) PROVE Quiet /\ ~Meet'
  BY <1>1 DEF Ensure, Known, Configured, Unknown, NoTokenLeft, EnrollmentToken
<1>2. ASSUME NEW p \in Procs, BuildRequest(p) PROVE Quiet /\ ~Meet'
  BY <1>2 DEF BuildRequest
<1>3. ASSUME NEW p \in Procs, PostLost(p) PROVE Quiet /\ ~Meet'
  BY <1>3 DEF PostLost, Retry
<1>4. ASSUME NEW p \in Procs, PostAccepted(p) PROVE Quiet /\ ~Meet'
  BY <1>4 DEF PostAccepted, Retry
<1>5. ASSUME NEW p \in Procs, PostRejected(p) PROVE Quiet /\ ~Meet'
  BY <1>5 DEF PostRejected
<1>6. ASSUME NEW p \in Procs, StoreCertificate(p) PROVE Quiet /\ ~Meet'
  BY <1>6 DEF StoreCertificate
<1>7. ASSUME NEW p \in Procs, StoreIdentity(p) PROVE Quiet /\ ~Meet'
  BY <1>7 DEF StoreIdentity
<1>8. ASSUME NEW p \in Procs, Scrub(p) PROVE Quiet /\ ~Meet'
  BY <1>8 DEF Scrub
<1>9. ASSUME NEW p \in Procs, WriteFails(p) PROVE Quiet /\ ~Meet'
  BY <1>9 DEF WriteFails, Unfinished
<1>10. ASSUME NEW p \in Procs, CheckRenewal(p) PROVE Quiet /\ ~Meet'
  BY <1>10 DEF CheckRenewal
<1>11. ASSUME NEW p \in Procs, RenewRefused(p) PROVE Quiet /\ ~Meet'
  BY <1>11 DEF RenewRefused
<1>12. ASSUME NEW p \in Procs, RenewLost(p) PROVE Quiet /\ ~Meet'
  BY <1>12 DEF RenewLost, Retry
<1>13. ASSUME NEW p \in Procs, RenewAccepted(p) PROVE Quiet /\ ~Meet'
  BY <1>13 DEF RenewAccepted
<1>14. ASSUME NEW p \in Procs, StoreRenewed(p) PROVE Quiet /\ ~Meet'
  BY <1>14 DEF StoreRenewed
<1>15. ASSUME NEW p \in Procs, ReloadRuntime(p) PROVE Quiet /\ ~Meet'
  BY <1>15 DEF ReloadRuntime
<1>16. ASSUME NEW p \in Procs, RestoreRuntime(p) PROVE Quiet /\ ~Meet'
  BY <1>16 DEF RestoreRuntime
<1>17. ASSUME NEW p \in Procs, RenewWriteFails(p) PROVE Quiet /\ ~Meet'
  BY <1>17 DEF RenewWriteFails, Unfinished
<1>18. ASSUME NEW p \in Procs, Kill(p) PROVE Quiet /\ ~Meet'
  BY <1>18 DEF Kill, Unfinished
<1>19. CASE InitializeRuntime
  BY <1>19 DEF InitializeRuntime
<1>20. CASE TickLoads
  BY <1>20 DEF TickLoads
<1>21. CASE TickStores
  BY <1>21 DEF TickStores
<1>22. CASE HourlyCheck
  BY <1>22 DEF HourlyCheck
<1>23. CASE RunEnroll
  BY <1>23 DEF RunEnroll
<1>24. CASE Discard
  BY <1>24 DEF Discard
<1>25. CASE Ages
  BY <1>25 DEF Ages, WholeOK, Meet, Discarding, Enrolling, At
<1>26. ASSUME NEW a \in Agents, Denylist(a) PROVE Quiet /\ ~Meet'
  BY <1>26 DEF Denylist, WholeOK, Meet, Discarding, Enrolling, At
<1> QED
  BY <1>u, <1>1, <1>2, <1>3, <1>4, <1>5, <1>6, <1>7, <1>8, <1>9, <1>10, <1>11, <1>12, <1>13, <1>14, <1>15, <1>16, <1>17, <1>18, <1>19, <1>20, <1>21, <1>22, <1>23, <1>24, <1>25, <1>26 DEF Next

\* The identity file is written last and goes first, and nobody else is at it.
LEMMA WholeStep == WholeOK /\ ProcTypes /\ FileTypes /\ IssuedOK /\ Quiet' /\ [Next]_vars => Whole'
<1> SUFFICES ASSUME WholeOK, ProcTypes, FileTypes, IssuedOK, Quiet', [Next]_vars PROVE Whole'
  OBVIOUS
<1>q. Quiet /\ ~Meet'
  BY QuietStep
<1>m. ~Meet
  BY <1>q DEF WholeOK
<1>w. Whole
  BY <1>q DEF WholeOK
<1>c. /\ cfgid = NoAgent /\ NoAgent \notin Agents /\ LocalAgent \notin Agents
      /\ \A p \in Procs : HoldsOK(p)
  BY <1>q, <1>w, IdentityAssumption DEF Quiet, Whole
<1>p. "agentd" \in Procs /\ "cli" \in Procs /\ \A p \in Procs : proc[p] \in Shape /\ proc[p].ret \in {"scrub", "run"}
  BY DEF ProcTypes, Shape, Procs
<1> USE DEF At, Goto, Exit, files, gateway, bounds
<1>u. CASE UNCHANGED vars
  BY <1>u, <1>w DEF vars, Whole, HoldsOK, Enrolling, Registered
<1>1. ASSUME NEW p \in Procs, Ensure(p) PROVE Whole'
  <2>1. HoldsOK(p)'
    BY <1>1, <1>c, <1>p DEF Ensure, Known, Configured, Unknown, NoTokenLeft, EnrollmentToken, HoldsOK, Enrolling, Settled, Registered, At, Goto, Back, Exit, Idle, ProcTypes, Shape
  <2>2. UNCHANGED <<rt, cert>>
    BY <1>1 DEF Ensure
  <2>3. \A q \in Procs : q # p => proc'[q] = proc[q]
    BY <1>1, OneMoves
  <2>4. proc'["cli"].pc \in {"discard_cert", "discard_ledger"} => proc["cli"].pc \in {"discard_cert", "discard_ledger"}
    BY <1>1, <1>p, <2>3 DEF Ensure, Known, Configured, Unknown, NoTokenLeft, EnrollmentToken, At, Goto, Back, Exit, Idle, ProcTypes, Shape
  <2> QED
    BY <1>w, <2>1, <2>2, <2>3, <2>4 DEF Whole, HoldsOK, Enrolling, Registered
<1>2. ASSUME NEW p \in Procs, BuildRequest(p) PROVE Whole'
  <2>1. HoldsOK(p)'
    BY <1>2, <1>c, <1>p DEF BuildRequest, HoldsOK, Enrolling, Settled, Registered, At, Goto, Back, Exit, Idle, ProcTypes, Shape
  <2>2. UNCHANGED <<rt, cert>>
    BY <1>2 DEF BuildRequest
  <2>3. \A q \in Procs : q # p => proc'[q] = proc[q]
    BY <1>2, OneMoves
  <2>4. proc'["cli"].pc \in {"discard_cert", "discard_ledger"} => proc["cli"].pc \in {"discard_cert", "discard_ledger"}
    BY <1>2, <1>p, <2>3 DEF BuildRequest, At, Goto, Back, Exit, Idle, ProcTypes, Shape
  <2> QED
    BY <1>w, <2>1, <2>2, <2>3, <2>4 DEF Whole, HoldsOK, Enrolling, Registered
<1>3. ASSUME NEW p \in Procs, PostLost(p) PROVE Whole'
  <2>1. HoldsOK(p)'
    BY <1>3, <1>c, <1>p DEF PostLost, Retry, HoldsOK, Enrolling, Settled, Registered, At, Goto, Back, Exit, Idle, ProcTypes, Shape
  <2>2. UNCHANGED <<rt, cert>>
    BY <1>3 DEF PostLost
  <2>3. \A q \in Procs : q # p => proc'[q] = proc[q]
    BY <1>3, OneMoves
  <2>4. proc'["cli"].pc \in {"discard_cert", "discard_ledger"} => proc["cli"].pc \in {"discard_cert", "discard_ledger"}
    BY <1>3, <1>p, <2>3 DEF PostLost, Retry, At, Goto, Back, Exit, Idle, ProcTypes, Shape
  <2> QED
    BY <1>w, <2>1, <2>2, <2>3, <2>4 DEF Whole, HoldsOK, Enrolling, Registered
<1>4. ASSUME NEW p \in Procs, PostAccepted(p) PROVE Whole'
  <2>1. HoldsOK(p)'
    BY <1>4, <1>c, <1>p DEF PostAccepted, Retry, HoldsOK, Enrolling, Settled, Registered, At, Goto, Back, Exit, Idle, ProcTypes, Shape
  <2>2. UNCHANGED <<rt, cert>>
    BY <1>4 DEF PostAccepted
  <2>3. \A q \in Procs : q # p => proc'[q] = proc[q]
    BY <1>4, OneMoves
  <2>4. proc'["cli"].pc \in {"discard_cert", "discard_ledger"} => proc["cli"].pc \in {"discard_cert", "discard_ledger"}
    BY <1>4, <1>p, <2>3 DEF PostAccepted, Retry, At, Goto, Back, Exit, Idle, ProcTypes, Shape
  <2> QED
    BY <1>w, <2>1, <2>2, <2>3, <2>4 DEF Whole, HoldsOK, Enrolling, Registered
<1>5. ASSUME NEW p \in Procs, PostRejected(p) PROVE Whole'
  <2>1. HoldsOK(p)'
    BY <1>5, <1>c, <1>p DEF PostRejected, HoldsOK, Enrolling, Settled, Registered, At, Goto, Back, Exit, Idle, ProcTypes, Shape
  <2>2. UNCHANGED <<rt, cert>>
    BY <1>5 DEF PostRejected
  <2>3. \A q \in Procs : q # p => proc'[q] = proc[q]
    BY <1>5, OneMoves
  <2>4. proc'["cli"].pc \in {"discard_cert", "discard_ledger"} => proc["cli"].pc \in {"discard_cert", "discard_ledger"}
    BY <1>5, <1>p, <2>3 DEF PostRejected, At, Goto, Back, Exit, Idle, ProcTypes, Shape
  <2> QED
    BY <1>w, <2>1, <2>2, <2>3, <2>4 DEF Whole, HoldsOK, Enrolling, Registered
<1>6. ASSUME NEW p \in Procs, StoreCertificate(p) PROVE Whole'
  <2>1. HoldsOK(p)'
    BY <1>6, <1>c, <1>m, <1>p, <1>q DEF StoreCertificate, Whole, Meet, Discarding, Quiet, Conflict, LoadOrDefault, HoldsOK, Enrolling, Settled, Registered, At, Goto, Back, Exit, Idle, ProcTypes, Shape, NoCert
  <2>2. \A q \in Procs : q # p => proc'[q] = proc[q]
    BY <1>6, OneMoves
  <2>3. \A q \in Procs : q # p => HoldsOK(q)'
    BY <1>6, <1>c, <1>m, <1>w, <1>p, <1>q, <2>2 DEF StoreCertificate, Whole, Meet, Discarding, Quiet, Conflict, HoldsOK, Enrolling, Settled, Registered, At, Goto, Back, Exit, Idle, ProcTypes, Shape, Procs, NoCert
  <2>4. Registered(rt') => cert'.agent = rt' \/ cert'.age = "torn"
    BY <1>6, <1>c, <1>m, <1>w, <1>p, <1>q DEF StoreCertificate, Whole, Quiet, Conflict, HoldsOK, Enrolling, Settled, Registered, At, NoCert
  <2>5. proc'["cli"].pc \in {"discard_cert", "discard_ledger"} => ~Registered(rt')
    BY <1>6, <1>c, <1>m, <1>w, <1>p, <1>q, <2>2 DEF StoreCertificate, Whole, Meet, Discarding, Quiet, Conflict, HoldsOK, Enrolling, Settled, Registered, At, Goto, Back, Exit, Idle, ProcTypes, Shape, Procs, NoCert
  <2> QED
    BY <2>1, <2>3, <2>4, <2>5 DEF Whole, Registered
<1>7. ASSUME NEW p \in Procs, StoreIdentity(p) PROVE Whole'
  <2>1. HoldsOK(p)'
    <3>1. proc'[p].pc = "scrub" /\ proc'[p].me = proc[p].got /\ rt' = proc[p].got
      BY <1>7, <1>p DEF StoreIdentity, ProcTypes, Shape
    <3>2. proc[p].got \in Agents
      BY <1>7 DEF StoreIdentity, IssuedOK, At
    <3> QED
      BY <3>1, <3>2 DEF HoldsOK, Enrolling, Registered, Settled
  <2>2. \A q \in Procs : q # p => proc'[q] = proc[q]
    BY <1>7, OneMoves
  <2>3. \A q \in Procs : q # p => HoldsOK(q)'
    BY <1>7, <1>c, <1>m, <1>w, <1>p, <1>q, <2>2 DEF StoreIdentity, Whole, Meet, Discarding, Quiet, Conflict, HoldsOK, Enrolling, Settled, Registered, At, Goto, Back, Exit, Idle, ProcTypes, Shape, Procs, NoCert
  <2>4. Registered(rt') => cert'.agent = rt' \/ cert'.age = "torn"
    BY <1>7, <1>c, <1>m, <1>w, <1>p, <1>q DEF StoreIdentity, Whole, Quiet, Conflict, HoldsOK, Enrolling, Settled, Registered, At, NoCert
  <2>5. proc'["cli"].pc \in {"discard_cert", "discard_ledger"} => ~Registered(rt')
    BY <1>7, <1>c, <1>m, <1>w, <1>p, <1>q, <2>2 DEF StoreIdentity, Whole, Meet, Discarding, Quiet, Conflict, HoldsOK, Enrolling, Settled, Registered, At, Goto, Back, Exit, Idle, ProcTypes, Shape, Procs, NoCert
  <2> QED
    BY <2>1, <2>3, <2>4, <2>5 DEF Whole, Registered
<1>8. ASSUME NEW p \in Procs, Scrub(p) PROVE Whole'
  <2>1. HoldsOK(p)'
    BY <1>8, <1>c, <1>p DEF Scrub, HoldsOK, Enrolling, Settled, Registered, At, Goto, Back, Exit, Idle, ProcTypes, Shape
  <2>2. UNCHANGED <<rt, cert>>
    BY <1>8 DEF Scrub
  <2>3. \A q \in Procs : q # p => proc'[q] = proc[q]
    BY <1>8, OneMoves
  <2>4. proc'["cli"].pc \in {"discard_cert", "discard_ledger"} => proc["cli"].pc \in {"discard_cert", "discard_ledger"}
    BY <1>8, <1>p, <2>3 DEF Scrub, At, Goto, Back, Exit, Idle, ProcTypes, Shape
  <2> QED
    BY <1>w, <2>1, <2>2, <2>3, <2>4 DEF Whole, HoldsOK, Enrolling, Registered
<1>9. ASSUME NEW p \in Procs, WriteFails(p) PROVE Whole'
  <2>1. HoldsOK(p)'
    BY <1>9, <1>c, <1>m, <1>p, <1>q DEF WriteFails, Unfinished, Whole, Meet, Discarding, Quiet, Conflict, LoadOrDefault, HoldsOK, Enrolling, Settled, Registered, At, Goto, Back, Exit, Idle, ProcTypes, Shape, NoCert
  <2>2. \A q \in Procs : q # p => proc'[q] = proc[q]
    BY <1>9, OneMoves
  <2>3. \A q \in Procs : q # p => HoldsOK(q)'
    BY <1>9, <1>c, <1>m, <1>w, <1>p, <1>q, <2>2 DEF WriteFails, Unfinished, Whole, Meet, Discarding, Quiet, Conflict, HoldsOK, Enrolling, Settled, Registered, At, Goto, Back, Exit, Idle, ProcTypes, Shape, Procs, NoCert
  <2>4. Registered(rt') => cert'.agent = rt' \/ cert'.age = "torn"
    BY <1>9, <1>c, <1>m, <1>w, <1>p, <1>q DEF WriteFails, Unfinished, Whole, Quiet, Conflict, HoldsOK, Enrolling, Settled, Registered, At, NoCert
  <2>5. proc'["cli"].pc \in {"discard_cert", "discard_ledger"} => ~Registered(rt')
    BY <1>9, <1>c, <1>m, <1>w, <1>p, <1>q, <2>2 DEF WriteFails, Unfinished, Whole, Meet, Discarding, Quiet, Conflict, HoldsOK, Enrolling, Settled, Registered, At, Goto, Back, Exit, Idle, ProcTypes, Shape, Procs, NoCert
  <2> QED
    BY <2>1, <2>3, <2>4, <2>5 DEF Whole, Registered
<1>10. ASSUME NEW p \in Procs, CheckRenewal(p) PROVE Whole'
  <2>1. HoldsOK(p)'
    <3>r. ASSUME Back(p) PROVE proc'[p].pc \in {"scrub", "run"} /\ proc'[p].me = proc[p].me
      BY <1>p, <3>r DEF Back, Idle, ProcTypes
    <3>1. ASSUME proc' = [proc EXCEPT ![p].pc = "renew", ![p].tries = 0]
          PROVE  proc'[p].pc = "renew" /\ proc'[p].me = proc[p].me
      BY <1>p, <3>1 DEF ProcTypes, Shape
    <3>2. proc'[p].pc \in {"scrub", "run", "renew"} /\ proc'[p].me = proc[p].me
      BY <1>10, <3>r, <3>1 DEF CheckRenewal
    <3>3. proc[p].pc = "check" /\ UNCHANGED <<rt, cert>>
      BY <1>10 DEF CheckRenewal
    <3> QED
      BY <1>c, <3>2, <3>3 DEF HoldsOK, Enrolling, Registered, Settled
  <2>2. UNCHANGED <<rt, cert>>
    BY <1>10 DEF CheckRenewal
  <2>3. \A q \in Procs : q # p => proc'[q] = proc[q]
    BY <1>10, OneMoves
  <2>4. proc'["cli"].pc \in {"discard_cert", "discard_ledger"} => proc["cli"].pc \in {"discard_cert", "discard_ledger"}
    <3>r. ASSUME Back(p) PROVE proc'[p].pc \in {"scrub", "run"}
      BY <1>p, <3>r DEF Back, Idle, ProcTypes
    <3>1. ASSUME proc' = [proc EXCEPT ![p].pc = "renew", ![p].tries = 0] PROVE proc'[p].pc = "renew"
      BY <1>p, <3>1 DEF ProcTypes, Shape
    <3>2. proc'[p].pc \in {"scrub", "run", "renew"}
      BY <1>10, <3>r, <3>1 DEF CheckRenewal
    <3> QED
      BY <1>p, <2>3, <3>2
  <2> QED
    BY <1>w, <2>1, <2>2, <2>3, <2>4 DEF Whole, HoldsOK, Enrolling, Registered
<1>11. ASSUME NEW p \in Procs, RenewRefused(p) PROVE Whole'
  <2>1. HoldsOK(p)'
    BY <1>11, <1>c, <1>p DEF RenewRefused, HoldsOK, Enrolling, Settled, Registered, At, Goto, Back, Exit, Idle, ProcTypes, Shape
  <2>2. UNCHANGED <<rt, cert>>
    BY <1>11 DEF RenewRefused
  <2>3. \A q \in Procs : q # p => proc'[q] = proc[q]
    BY <1>11, OneMoves
  <2>4. proc'["cli"].pc \in {"discard_cert", "discard_ledger"} => proc["cli"].pc \in {"discard_cert", "discard_ledger"}
    BY <1>11, <1>p, <2>3 DEF RenewRefused, At, Goto, Back, Exit, Idle, ProcTypes, Shape
  <2> QED
    BY <1>w, <2>1, <2>2, <2>3, <2>4 DEF Whole, HoldsOK, Enrolling, Registered
<1>12. ASSUME NEW p \in Procs, RenewLost(p) PROVE Whole'
  <2>1. HoldsOK(p)'
    <3>r. ASSUME Back(p) PROVE proc'[p].pc \in {"scrub", "run"} /\ proc'[p].me = proc[p].me
      BY <1>p, <3>r DEF Back, Idle, ProcTypes
    <3>1. ASSUME proc' = [proc EXCEPT ![p].tries = @ + 1]
          PROVE  proc'[p].pc = proc[p].pc /\ proc'[p].me = proc[p].me
      BY <1>p, <3>1 DEF ProcTypes, Shape
    <3>2. proc'[p].pc \in {"scrub", "run", "renew"} /\ proc'[p].me = proc[p].me
      BY <1>12, <3>r, <3>1 DEF RenewLost, Retry
    <3>3. proc[p].pc = "renew" /\ UNCHANGED <<rt, cert>>
      BY <1>12 DEF RenewLost
    <3> QED
      BY <1>c, <3>2, <3>3 DEF HoldsOK, Enrolling, Registered, Settled
  <2>2. UNCHANGED <<rt, cert>>
    BY <1>12 DEF RenewLost
  <2>3. \A q \in Procs : q # p => proc'[q] = proc[q]
    BY <1>12, OneMoves
  <2>4. proc'["cli"].pc \in {"discard_cert", "discard_ledger"} => proc["cli"].pc \in {"discard_cert", "discard_ledger"}
    <3>r. ASSUME Back(p) PROVE proc'[p].pc \in {"scrub", "run"}
      BY <1>p, <3>r DEF Back, Idle, ProcTypes
    <3>1. ASSUME proc' = [proc EXCEPT ![p].tries = @ + 1] PROVE proc'[p].pc = proc[p].pc
      BY <1>p, <3>1 DEF ProcTypes, Shape
    <3>2. proc'[p].pc \in {"scrub", "run", "renew"}
      BY <1>12, <3>r, <3>1 DEF RenewLost, Retry
    <3> QED
      BY <1>p, <2>3, <3>2
  <2> QED
    BY <1>w, <2>1, <2>2, <2>3, <2>4 DEF Whole, HoldsOK, Enrolling, Registered
<1>13. ASSUME NEW p \in Procs, RenewAccepted(p) PROVE Whole'
  <2>1. HoldsOK(p)'
    BY <1>13, <1>c, <1>p DEF RenewAccepted, HoldsOK, Enrolling, Settled, Registered, At, Goto, Back, Exit, Idle, ProcTypes, Shape
  <2>2. UNCHANGED <<rt, cert>>
    BY <1>13 DEF RenewAccepted
  <2>3. \A q \in Procs : q # p => proc'[q] = proc[q]
    BY <1>13, OneMoves
  <2>4. proc'["cli"].pc \in {"discard_cert", "discard_ledger"} => proc["cli"].pc \in {"discard_cert", "discard_ledger"}
    BY <1>13, <1>p, <2>3 DEF RenewAccepted, At, Goto, Back, Exit, Idle, ProcTypes, Shape
  <2> QED
    BY <1>w, <2>1, <2>2, <2>3, <2>4 DEF Whole, HoldsOK, Enrolling, Registered
<1>14. ASSUME NEW p \in Procs, StoreRenewed(p) PROVE Whole'
  <2>1. HoldsOK(p)'
    BY <1>14, <1>c, <1>m, <1>p, <1>q DEF StoreRenewed, Whole, Meet, Discarding, Quiet, Conflict, LoadOrDefault, HoldsOK, Enrolling, Settled, Registered, At, Goto, Back, Exit, Idle, ProcTypes, Shape, NoCert
  <2>2. \A q \in Procs : q # p => proc'[q] = proc[q]
    BY <1>14, OneMoves
  <2>3. \A q \in Procs : q # p => HoldsOK(q)'
    BY <1>14, <1>c, <1>m, <1>w, <1>p, <1>q, <2>2 DEF StoreRenewed, Whole, Meet, Discarding, Quiet, Conflict, HoldsOK, Enrolling, Settled, Registered, At, Goto, Back, Exit, Idle, ProcTypes, Shape, Procs, NoCert
  <2>4. Registered(rt') => cert'.agent = rt' \/ cert'.age = "torn"
    BY <1>14, <1>c, <1>m, <1>w, <1>p, <1>q DEF StoreRenewed, Whole, Quiet, Conflict, HoldsOK, Enrolling, Settled, Registered, At, NoCert
  <2>5. proc'["cli"].pc \in {"discard_cert", "discard_ledger"} => ~Registered(rt')
    BY <1>14, <1>c, <1>m, <1>w, <1>p, <1>q, <2>2 DEF StoreRenewed, Whole, Meet, Discarding, Quiet, Conflict, HoldsOK, Enrolling, Settled, Registered, At, Goto, Back, Exit, Idle, ProcTypes, Shape, Procs, NoCert
  <2> QED
    BY <2>1, <2>3, <2>4, <2>5 DEF Whole, Registered
<1>15. ASSUME NEW p \in Procs, ReloadRuntime(p) PROVE Whole'
  <2>1. HoldsOK(p)'
    <3>1. proc'[p].pc = "restore" /\ proc'[p].me = proc[p].me /\ proc'[p].held = LoadOrDefault
      BY <1>15, <1>p DEF ReloadRuntime, ProcTypes, Shape
    <3>2. proc[p].pc = "reload" /\ UNCHANGED <<rt, cert>>
      BY <1>15 DEF ReloadRuntime
    <3> QED
      BY <1>c, <3>1, <3>2 DEF HoldsOK, Enrolling, Registered, Settled, LoadOrDefault
  <2>2. UNCHANGED <<rt, cert>>
    BY <1>15 DEF ReloadRuntime
  <2>3. \A q \in Procs : q # p => proc'[q] = proc[q]
    BY <1>15, OneMoves
  <2>4. proc'["cli"].pc \in {"discard_cert", "discard_ledger"} => proc["cli"].pc \in {"discard_cert", "discard_ledger"}
    BY <1>15, <1>p, <2>3 DEF ReloadRuntime, At, Goto, Back, Exit, Idle, ProcTypes, Shape
  <2> QED
    BY <1>w, <2>1, <2>2, <2>3, <2>4 DEF Whole, HoldsOK, Enrolling, Registered
<1>16. ASSUME NEW p \in Procs, RestoreRuntime(p) PROVE Whole'
  <2>1. HoldsOK(p)'
    BY <1>16, <1>c, <1>m, <1>p, <1>q DEF RestoreRuntime, Whole, Meet, Discarding, Quiet, Conflict, LoadOrDefault, HoldsOK, Enrolling, Settled, Registered, At, Goto, Back, Exit, Idle, ProcTypes, Shape, NoCert
  <2>2. \A q \in Procs : q # p => proc'[q] = proc[q]
    BY <1>16, OneMoves
  <2>3. \A q \in Procs : q # p => HoldsOK(q)'
    BY <1>16, <1>c, <1>m, <1>w, <1>p, <1>q, <2>2 DEF RestoreRuntime, Whole, Meet, Discarding, Quiet, Conflict, HoldsOK, Enrolling, Settled, Registered, At, Goto, Back, Exit, Idle, ProcTypes, Shape, Procs, NoCert
  <2>4. Registered(rt') => cert'.agent = rt' \/ cert'.age = "torn"
    BY <1>16, <1>c, <1>m, <1>w, <1>p, <1>q DEF RestoreRuntime, Whole, Quiet, Conflict, HoldsOK, Enrolling, Settled, Registered, At, NoCert
  <2>5. proc'["cli"].pc \in {"discard_cert", "discard_ledger"} => ~Registered(rt')
    BY <1>16, <1>c, <1>m, <1>w, <1>p, <1>q, <2>2 DEF RestoreRuntime, Whole, Meet, Discarding, Quiet, Conflict, HoldsOK, Enrolling, Settled, Registered, At, Goto, Back, Exit, Idle, ProcTypes, Shape, Procs, NoCert
  <2> QED
    BY <2>1, <2>3, <2>4, <2>5 DEF Whole, Registered
<1>17. ASSUME NEW p \in Procs, RenewWriteFails(p) PROVE Whole'
  <2>1. HoldsOK(p)'
    BY <1>17, <1>c, <1>m, <1>p, <1>q DEF RenewWriteFails, Unfinished, Whole, Meet, Discarding, Quiet, Conflict, LoadOrDefault, HoldsOK, Enrolling, Settled, Registered, At, Goto, Back, Exit, Idle, ProcTypes, Shape, NoCert
  <2>2. \A q \in Procs : q # p => proc'[q] = proc[q]
    BY <1>17, OneMoves
  <2>3. \A q \in Procs : q # p => HoldsOK(q)'
    BY <1>17, <1>c, <1>m, <1>w, <1>p, <1>q, <2>2 DEF RenewWriteFails, Unfinished, Whole, Meet, Discarding, Quiet, Conflict, HoldsOK, Enrolling, Settled, Registered, At, Goto, Back, Exit, Idle, ProcTypes, Shape, Procs, NoCert
  <2>4. Registered(rt') => cert'.agent = rt' \/ cert'.age = "torn"
    BY <1>17, <1>c, <1>m, <1>w, <1>p, <1>q DEF RenewWriteFails, Unfinished, Whole, Quiet, Conflict, HoldsOK, Enrolling, Settled, Registered, At, NoCert
  <2>5. proc'["cli"].pc \in {"discard_cert", "discard_ledger"} => ~Registered(rt')
    BY <1>17, <1>c, <1>m, <1>w, <1>p, <1>q, <2>2 DEF RenewWriteFails, Unfinished, Whole, Meet, Discarding, Quiet, Conflict, HoldsOK, Enrolling, Settled, Registered, At, Goto, Back, Exit, Idle, ProcTypes, Shape, Procs, NoCert
  <2> QED
    BY <2>1, <2>3, <2>4, <2>5 DEF Whole, Registered
<1>18. ASSUME NEW p \in Procs, Kill(p) PROVE Whole'
  <2>1. HoldsOK(p)'
    BY <1>18, <1>c, <1>m, <1>p, <1>q DEF Kill, Unfinished, Whole, Meet, Discarding, Quiet, Conflict, LoadOrDefault, HoldsOK, Enrolling, Settled, Registered, At, Goto, Back, Exit, Idle, ProcTypes, Shape, NoCert
  <2>2. \A q \in Procs : q # p => proc'[q] = proc[q]
    BY <1>18, OneMoves
  <2>3. \A q \in Procs : q # p => HoldsOK(q)'
    BY <1>18, <1>c, <1>m, <1>w, <1>p, <1>q, <2>2 DEF Kill, Unfinished, Whole, Meet, Discarding, Quiet, Conflict, HoldsOK, Enrolling, Settled, Registered, At, Goto, Back, Exit, Idle, ProcTypes, Shape, Procs, NoCert
  <2>4. Registered(rt') => cert'.agent = rt' \/ cert'.age = "torn"
    BY <1>18, <1>c, <1>m, <1>w, <1>p, <1>q DEF Kill, Unfinished, Whole, Quiet, Conflict, HoldsOK, Enrolling, Settled, Registered, At, NoCert
  <2>5. proc'["cli"].pc \in {"discard_cert", "discard_ledger"} => ~Registered(rt')
    BY <1>18, <1>c, <1>m, <1>w, <1>p, <1>q, <2>2 DEF Kill, Unfinished, Whole, Meet, Discarding, Quiet, Conflict, HoldsOK, Enrolling, Settled, Registered, At, Goto, Back, Exit, Idle, ProcTypes, Shape, Procs, NoCert
  <2> QED
    BY <2>1, <2>3, <2>4, <2>5 DEF Whole, Registered
<1>19. CASE InitializeRuntime
  <2>1. HoldsOK("agentd")'
    BY <1>19, <1>c, <1>m, <1>p, <1>q DEF InitializeRuntime, Whole, Meet, Discarding, Quiet, Conflict, LoadOrDefault, HoldsOK, Enrolling, Settled, Registered, At, Goto, Back, Exit, Idle, ProcTypes, Shape, NoCert
  <2>2. \A q \in Procs : q # "agentd" => proc'[q] = proc[q]
    BY <1>19, <1>p DEF InitializeRuntime, Goto, Exit, ProcTypes
  <2>3. \A q \in Procs : q # "agentd" => HoldsOK(q)'
    BY <1>19, <1>c, <1>m, <1>w, <1>p, <1>q, <2>2 DEF InitializeRuntime, Whole, Meet, Discarding, Quiet, Conflict, HoldsOK, Enrolling, Settled, Registered, At, Goto, Back, Exit, Idle, ProcTypes, Shape, Procs, NoCert
  <2>4. Registered(rt') => cert'.agent = rt' \/ cert'.age = "torn"
    BY <1>19, <1>c, <1>m, <1>w, <1>p, <1>q DEF InitializeRuntime, Whole, Quiet, Conflict, HoldsOK, Enrolling, Settled, Registered, At, NoCert
  <2>5. proc'["cli"].pc \in {"discard_cert", "discard_ledger"} => ~Registered(rt')
    BY <1>19, <1>c, <1>m, <1>w, <1>p, <1>q, <2>2 DEF InitializeRuntime, Whole, Meet, Discarding, Quiet, Conflict, HoldsOK, Enrolling, Settled, Registered, At, Goto, Back, Exit, Idle, ProcTypes, Shape, Procs, NoCert
  <2> QED
    BY <2>1, <2>3, <2>4, <2>5 DEF Whole, Registered
<1>20. CASE TickLoads
  <2>1. HoldsOK("agentd")'
    BY <1>20, <1>c, <1>m, <1>p, <1>q DEF TickLoads, Whole, Meet, Discarding, Quiet, Conflict, LoadOrDefault, HoldsOK, Enrolling, Settled, Registered, At, Goto, Back, Exit, Idle, ProcTypes, Shape, NoCert
  <2>2. \A q \in Procs : q # "agentd" => proc'[q] = proc[q]
    BY <1>20, <1>p DEF TickLoads, Goto, Exit, ProcTypes
  <2>3. \A q \in Procs : q # "agentd" => HoldsOK(q)'
    BY <1>20, <1>c, <1>m, <1>w, <1>p, <1>q, <2>2 DEF TickLoads, Whole, Meet, Discarding, Quiet, Conflict, HoldsOK, Enrolling, Settled, Registered, At, Goto, Back, Exit, Idle, ProcTypes, Shape, Procs, NoCert
  <2>4. Registered(rt') => cert'.agent = rt' \/ cert'.age = "torn"
    BY <1>20, <1>c, <1>m, <1>w, <1>p, <1>q DEF TickLoads, Whole, Quiet, Conflict, HoldsOK, Enrolling, Settled, Registered, At, NoCert
  <2>5. proc'["cli"].pc \in {"discard_cert", "discard_ledger"} => ~Registered(rt')
    BY <1>20, <1>c, <1>m, <1>w, <1>p, <1>q, <2>2 DEF TickLoads, Whole, Meet, Discarding, Quiet, Conflict, HoldsOK, Enrolling, Settled, Registered, At, Goto, Back, Exit, Idle, ProcTypes, Shape, Procs, NoCert
  <2> QED
    BY <2>1, <2>3, <2>4, <2>5 DEF Whole, Registered
<1>21. CASE TickStores
  <2>1. HoldsOK("agentd")'
    BY <1>21, <1>c, <1>m, <1>p, <1>q DEF TickStores, Whole, Meet, Discarding, Quiet, Conflict, LoadOrDefault, HoldsOK, Enrolling, Settled, Registered, At, Goto, Back, Exit, Idle, ProcTypes, Shape, NoCert
  <2>2. \A q \in Procs : q # "agentd" => proc'[q] = proc[q]
    BY <1>21, <1>p DEF TickStores, Goto, Exit, ProcTypes
  <2>3. \A q \in Procs : q # "agentd" => HoldsOK(q)'
    BY <1>21, <1>c, <1>m, <1>w, <1>p, <1>q, <2>2 DEF TickStores, Whole, Meet, Discarding, Quiet, Conflict, HoldsOK, Enrolling, Settled, Registered, At, Goto, Back, Exit, Idle, ProcTypes, Shape, Procs, NoCert
  <2>4. Registered(rt') => cert'.agent = rt' \/ cert'.age = "torn"
    BY <1>21, <1>c, <1>m, <1>w, <1>p, <1>q DEF TickStores, Whole, Quiet, Conflict, HoldsOK, Enrolling, Settled, Registered, At, NoCert
  <2>5. proc'["cli"].pc \in {"discard_cert", "discard_ledger"} => ~Registered(rt')
    BY <1>21, <1>c, <1>m, <1>w, <1>p, <1>q, <2>2 DEF TickStores, Whole, Meet, Discarding, Quiet, Conflict, HoldsOK, Enrolling, Settled, Registered, At, Goto, Back, Exit, Idle, ProcTypes, Shape, Procs, NoCert
  <2> QED
    BY <2>1, <2>3, <2>4, <2>5 DEF Whole, Registered
<1>22. CASE HourlyCheck
  <2>1. HoldsOK("agentd")'
    BY <1>22, <1>c, <1>m, <1>p, <1>q DEF HourlyCheck, Whole, Meet, Discarding, Quiet, Conflict, LoadOrDefault, HoldsOK, Enrolling, Settled, Registered, At, Goto, Back, Exit, Idle, ProcTypes, Shape, NoCert
  <2>2. \A q \in Procs : q # "agentd" => proc'[q] = proc[q]
    BY <1>22, <1>p DEF HourlyCheck, Goto, Exit, ProcTypes
  <2>3. \A q \in Procs : q # "agentd" => HoldsOK(q)'
    BY <1>22, <1>c, <1>m, <1>w, <1>p, <1>q, <2>2 DEF HourlyCheck, Whole, Meet, Discarding, Quiet, Conflict, HoldsOK, Enrolling, Settled, Registered, At, Goto, Back, Exit, Idle, ProcTypes, Shape, Procs, NoCert
  <2>4. Registered(rt') => cert'.agent = rt' \/ cert'.age = "torn"
    BY <1>22, <1>c, <1>m, <1>w, <1>p, <1>q DEF HourlyCheck, Whole, Quiet, Conflict, HoldsOK, Enrolling, Settled, Registered, At, NoCert
  <2>5. proc'["cli"].pc \in {"discard_cert", "discard_ledger"} => ~Registered(rt')
    BY <1>22, <1>c, <1>m, <1>w, <1>p, <1>q, <2>2 DEF HourlyCheck, Whole, Meet, Discarding, Quiet, Conflict, HoldsOK, Enrolling, Settled, Registered, At, Goto, Back, Exit, Idle, ProcTypes, Shape, Procs, NoCert
  <2> QED
    BY <2>1, <2>3, <2>4, <2>5 DEF Whole, Registered
<1>23. CASE RunEnroll
  <2>1. HoldsOK("cli")'
    BY <1>23, <1>c, <1>m, <1>p, <1>q DEF RunEnroll, Whole, Meet, Discarding, Quiet, Conflict, LoadOrDefault, HoldsOK, Enrolling, Settled, Registered, At, Goto, Back, Exit, Idle, ProcTypes, Shape, NoCert
  <2>2. \A q \in Procs : q # "cli" => proc'[q] = proc[q]
    BY <1>23, <1>p DEF RunEnroll, Goto, Exit, ProcTypes
  <2>3. \A q \in Procs : q # "cli" => HoldsOK(q)'
    BY <1>23, <1>c, <1>m, <1>w, <1>p, <1>q, <2>2 DEF RunEnroll, Whole, Meet, Discarding, Quiet, Conflict, HoldsOK, Enrolling, Settled, Registered, At, Goto, Back, Exit, Idle, ProcTypes, Shape, Procs, NoCert
  <2>4. Registered(rt') => cert'.agent = rt' \/ cert'.age = "torn"
    BY <1>23, <1>c, <1>m, <1>w, <1>p, <1>q DEF RunEnroll, Whole, Quiet, Conflict, HoldsOK, Enrolling, Settled, Registered, At, NoCert
  <2>5. proc'["cli"].pc \in {"discard_cert", "discard_ledger"} => ~Registered(rt')
    BY <1>23, <1>c, <1>m, <1>w, <1>p, <1>q, <2>2 DEF RunEnroll, Whole, Meet, Discarding, Quiet, Conflict, HoldsOK, Enrolling, Settled, Registered, At, Goto, Back, Exit, Idle, ProcTypes, Shape, Procs, NoCert
  <2> QED
    BY <2>1, <2>3, <2>4, <2>5 DEF Whole, Registered
<1>24. CASE Discard
  <2>1. HoldsOK("cli")'
    BY <1>24, <1>c, <1>m, <1>p, <1>q DEF Discard, Whole, Meet, Discarding, Quiet, Conflict, LoadOrDefault, HoldsOK, Enrolling, Settled, Registered, At, Goto, Back, Exit, Idle, ProcTypes, Shape, NoCert
  <2>2. \A q \in Procs : q # "cli" => proc'[q] = proc[q]
    BY <1>24, <1>p DEF Discard, Goto, Exit, ProcTypes
  <2>3. \A q \in Procs : q # "cli" => HoldsOK(q)'
    BY <1>24, <1>c, <1>m, <1>w, <1>p, <1>q, <2>2 DEF Discard, Whole, Meet, Discarding, Quiet, Conflict, HoldsOK, Enrolling, Settled, Registered, At, Goto, Back, Exit, Idle, ProcTypes, Shape, Procs, NoCert
  <2>4. Registered(rt') => cert'.agent = rt' \/ cert'.age = "torn"
    BY <1>24, <1>c, <1>m, <1>w, <1>p, <1>q DEF Discard, Whole, Quiet, Conflict, HoldsOK, Enrolling, Settled, Registered, At, NoCert
  <2>5. proc'["cli"].pc \in {"discard_cert", "discard_ledger"} => ~Registered(rt')
    BY <1>24, <1>c, <1>m, <1>w, <1>p, <1>q, <2>2 DEF Discard, Whole, Meet, Discarding, Quiet, Conflict, HoldsOK, Enrolling, Settled, Registered, At, Goto, Back, Exit, Idle, ProcTypes, Shape, Procs, NoCert
  <2> QED
    BY <2>1, <2>3, <2>4, <2>5 DEF Whole, Registered
<1>25. CASE Ages
  BY <1>25, <1>w DEF Ages, Whole, HoldsOK, Enrolling, Registered
<1>26. ASSUME NEW a \in Agents, Denylist(a) PROVE Whole'
  BY <1>26, <1>w DEF Denylist, Whole, HoldsOK, Enrolling, Registered
<1> QED
  BY <1>u, <1>1, <1>2, <1>3, <1>4, <1>5, <1>6, <1>7, <1>8, <1>9, <1>10, <1>11, <1>12, <1>13, <1>14, <1>15, <1>16, <1>17, <1>18, <1>19, <1>20, <1>21, <1>22, <1>23, <1>24, <1>25, <1>26 DEF Next

-----------------------------------------------------------------------------
(* Why the token is used up.                                                *)

\* The daemon gets into its loop only past the removal of the token, and a renewal out of
\* the loop leads back into it.
Renewing == {"check", "renew", "newcert", "reload", "restore"}
ScrubOK ==
  \/ token = NoToken
  \/ /\ proc["agentd"].pc \notin {"init", "run", "tick"}
     /\ proc["agentd"].pc \in Renewing => proc["agentd"].ret = "scrub"

\* Scrub is the only way into the loop.
LEMMA ScrubStep == ScrubOK /\ ProcTypes /\ [Next]_vars => ScrubOK'
<1> SUFFICES ASSUME ScrubOK, ProcTypes, [Next]_vars PROVE ScrubOK'
  OBVIOUS
<1>a. "agentd" \in Procs /\ "cli" \in Procs /\ \A p \in Procs : proc[p] \in Shape /\ proc[p].ret \in {"scrub", "run"}
  BY DEF ProcTypes, Shape, Procs
<1> USE DEF At, Goto, Exit, files, gateway, bounds
<1>u. CASE UNCHANGED vars
  BY <1>u DEF vars, ScrubOK
<1>1. ASSUME NEW p \in Procs, Ensure(p) PROVE ScrubOK'
  <2>1. CASE p = "agentd"
    BY <1>1, <1>a, <2>1 DEF Ensure, Known, Configured, Unknown, NoTokenLeft, EnrollmentToken, At, Goto, Back, Exit, Idle, ProcTypes, Shape, Renewing, ScrubOK
  <2>2. CASE p # "agentd"
    BY <1>1, <1>a, <2>2, OneMoves DEF Ensure, ScrubOK
  <2> QED
    BY <2>1, <2>2
<1>2. ASSUME NEW p \in Procs, BuildRequest(p) PROVE ScrubOK'
  <2>1. CASE p = "agentd"
    BY <1>2, <1>a, <2>1 DEF BuildRequest, At, Goto, Back, Exit, Idle, ProcTypes, Shape, Renewing, ScrubOK
  <2>2. CASE p # "agentd"
    BY <1>2, <1>a, <2>2, OneMoves DEF BuildRequest, ScrubOK
  <2> QED
    BY <2>1, <2>2
<1>3. ASSUME NEW p \in Procs, PostLost(p) PROVE ScrubOK'
  <2>1. CASE p = "agentd"
    BY <1>3, <1>a, <2>1 DEF PostLost, Retry, At, Goto, Back, Exit, Idle, ProcTypes, Shape, Renewing, ScrubOK
  <2>2. CASE p # "agentd"
    BY <1>3, <1>a, <2>2, OneMoves DEF PostLost, ScrubOK
  <2> QED
    BY <2>1, <2>2
<1>4. ASSUME NEW p \in Procs, PostAccepted(p) PROVE ScrubOK'
  <2>1. CASE p = "agentd"
    BY <1>4, <1>a, <2>1 DEF PostAccepted, Retry, At, Goto, Back, Exit, Idle, ProcTypes, Shape, Renewing, ScrubOK
  <2>2. CASE p # "agentd"
    BY <1>4, <1>a, <2>2, OneMoves DEF PostAccepted, ScrubOK
  <2> QED
    BY <2>1, <2>2
<1>5. ASSUME NEW p \in Procs, PostRejected(p) PROVE ScrubOK'
  <2>1. CASE p = "agentd"
    BY <1>5, <1>a, <2>1 DEF PostRejected, At, Goto, Back, Exit, Idle, ProcTypes, Shape, Renewing, ScrubOK
  <2>2. CASE p # "agentd"
    BY <1>5, <1>a, <2>2, OneMoves DEF PostRejected, ScrubOK
  <2> QED
    BY <2>1, <2>2
<1>6. ASSUME NEW p \in Procs, StoreCertificate(p) PROVE ScrubOK'
  <2>1. CASE p = "agentd"
    BY <1>6, <1>a, <2>1 DEF StoreCertificate, At, Goto, Back, Exit, Idle, ProcTypes, Shape, Renewing, ScrubOK
  <2>2. CASE p # "agentd"
    BY <1>6, <1>a, <2>2, OneMoves DEF StoreCertificate, ScrubOK
  <2> QED
    BY <2>1, <2>2
<1>7. ASSUME NEW p \in Procs, StoreIdentity(p) PROVE ScrubOK'
  <2>1. CASE p = "agentd"
    BY <1>7, <1>a, <2>1 DEF StoreIdentity, At, Goto, Back, Exit, Idle, ProcTypes, Shape, Renewing, ScrubOK
  <2>2. CASE p # "agentd"
    BY <1>7, <1>a, <2>2, OneMoves DEF StoreIdentity, ScrubOK
  <2> QED
    BY <2>1, <2>2
<1>8. ASSUME NEW p \in Procs, Scrub(p) PROVE ScrubOK'
  BY <1>8, <1>a DEF Scrub, ScrubOK, Renewing, ProcTypes, Shape, Idle
<1>9. ASSUME NEW p \in Procs, WriteFails(p) PROVE ScrubOK'
  <2>1. CASE p = "agentd"
    BY <1>9, <1>a, <2>1 DEF WriteFails, Unfinished, At, Goto, Back, Exit, Idle, ProcTypes, Shape, Renewing, ScrubOK
  <2>2. CASE p # "agentd"
    BY <1>9, <1>a, <2>2, OneMoves DEF WriteFails, Unfinished, ScrubOK
  <2> QED
    BY <2>1, <2>2
<1>10. ASSUME NEW p \in Procs, CheckRenewal(p) PROVE ScrubOK'
  <2>1. CASE p = "agentd"
    <3>r. ASSUME Back(p) PROVE proc'[p].pc = proc[p].ret
      BY <1>a, <3>r DEF Back, Idle, ProcTypes
    <3>1. ASSUME proc' = [proc EXCEPT ![p].pc = "renew", ![p].tries = 0]
          PROVE  proc'[p].pc = "renew" /\ proc'[p].ret = proc[p].ret
      BY <1>a, <3>1 DEF ProcTypes, Shape
    <3>2. proc'[p].pc = proc[p].ret \/ (proc'[p].pc = "renew" /\ proc'[p].ret = proc[p].ret)
      BY <1>10, <3>r, <3>1 DEF CheckRenewal
    <3>3. proc[p].pc = "check" /\ UNCHANGED token
      BY <1>10 DEF CheckRenewal
    <3> QED
      BY <1>a, <2>1, <3>2, <3>3 DEF ScrubOK, Renewing
  <2>2. CASE p # "agentd"
    BY <1>10, <1>a, <2>2, OneMoves DEF CheckRenewal, ScrubOK
  <2> QED
    BY <2>1, <2>2
<1>11. ASSUME NEW p \in Procs, RenewRefused(p) PROVE ScrubOK'
  <2>1. CASE p = "agentd"
    BY <1>11, <1>a, <2>1 DEF RenewRefused, At, Goto, Back, Exit, Idle, ProcTypes, Shape, Renewing, ScrubOK
  <2>2. CASE p # "agentd"
    BY <1>11, <1>a, <2>2, OneMoves DEF RenewRefused, ScrubOK
  <2> QED
    BY <2>1, <2>2
<1>12. ASSUME NEW p \in Procs, RenewLost(p) PROVE ScrubOK'
  <2>1. CASE p = "agentd"
    <3>r. ASSUME Back(p) PROVE proc'[p].pc = proc[p].ret
      BY <1>a, <3>r DEF Back, Idle, ProcTypes
    <3>1. ASSUME proc' = [proc EXCEPT ![p].tries = @ + 1]
          PROVE  proc'[p].pc = proc[p].pc /\ proc'[p].ret = proc[p].ret
      BY <1>a, <3>1 DEF ProcTypes, Shape
    <3>2. proc[p].pc = "renew" /\ UNCHANGED token
      BY <1>12 DEF RenewLost
    <3>3. proc'[p].pc = proc[p].ret \/ (proc'[p].pc = "renew" /\ proc'[p].ret = proc[p].ret)
      BY <1>12, <3>r, <3>1, <3>2 DEF RenewLost, Retry
    <3> QED
      BY <1>a, <2>1, <3>2, <3>3 DEF ScrubOK, Renewing
  <2>2. CASE p # "agentd"
    BY <1>12, <1>a, <2>2, OneMoves DEF RenewLost, ScrubOK
  <2> QED
    BY <2>1, <2>2
<1>13. ASSUME NEW p \in Procs, RenewAccepted(p) PROVE ScrubOK'
  <2>1. CASE p = "agentd"
    BY <1>13, <1>a, <2>1 DEF RenewAccepted, At, Goto, Back, Exit, Idle, ProcTypes, Shape, Renewing, ScrubOK
  <2>2. CASE p # "agentd"
    BY <1>13, <1>a, <2>2, OneMoves DEF RenewAccepted, ScrubOK
  <2> QED
    BY <2>1, <2>2
<1>14. ASSUME NEW p \in Procs, StoreRenewed(p) PROVE ScrubOK'
  <2>1. CASE p = "agentd"
    BY <1>14, <1>a, <2>1 DEF StoreRenewed, At, Goto, Back, Exit, Idle, ProcTypes, Shape, Renewing, ScrubOK
  <2>2. CASE p # "agentd"
    BY <1>14, <1>a, <2>2, OneMoves DEF StoreRenewed, ScrubOK
  <2> QED
    BY <2>1, <2>2
<1>15. ASSUME NEW p \in Procs, ReloadRuntime(p) PROVE ScrubOK'
  <2>1. CASE p = "agentd"
    BY <1>15, <1>a, <2>1 DEF ReloadRuntime, At, Goto, Back, Exit, Idle, ProcTypes, Shape, Renewing, ScrubOK
  <2>2. CASE p # "agentd"
    BY <1>15, <1>a, <2>2, OneMoves DEF ReloadRuntime, ScrubOK
  <2> QED
    BY <2>1, <2>2
<1>16. ASSUME NEW p \in Procs, RestoreRuntime(p) PROVE ScrubOK'
  <2>1. CASE p = "agentd"
    BY <1>16, <1>a, <2>1 DEF RestoreRuntime, At, Goto, Back, Exit, Idle, ProcTypes, Shape, Renewing, ScrubOK
  <2>2. CASE p # "agentd"
    BY <1>16, <1>a, <2>2, OneMoves DEF RestoreRuntime, ScrubOK
  <2> QED
    BY <2>1, <2>2
<1>17. ASSUME NEW p \in Procs, RenewWriteFails(p) PROVE ScrubOK'
  <2>1. CASE p = "agentd"
    BY <1>17, <1>a, <2>1 DEF RenewWriteFails, Unfinished, At, Goto, Back, Exit, Idle, ProcTypes, Shape, Renewing, ScrubOK
  <2>2. CASE p # "agentd"
    BY <1>17, <1>a, <2>2, OneMoves DEF RenewWriteFails, Unfinished, ScrubOK
  <2> QED
    BY <2>1, <2>2
<1>18. ASSUME NEW p \in Procs, Kill(p) PROVE ScrubOK'
  <2>1. CASE p = "agentd"
    BY <1>18, <1>a, <2>1 DEF Kill, Unfinished, At, Goto, Back, Exit, Idle, ProcTypes, Shape, Renewing, ScrubOK
  <2>2. CASE p # "agentd"
    BY <1>18, <1>a, <2>2, OneMoves DEF Kill, Unfinished, ScrubOK
  <2> QED
    BY <2>1, <2>2
<1>19. CASE InitializeRuntime
  BY <1>19, <1>a DEF InitializeRuntime, ScrubOK, Renewing, ProcTypes, Shape, Idle
<1>20. CASE TickLoads
  BY <1>20, <1>a DEF TickLoads, ScrubOK, Renewing, ProcTypes, Shape, Idle
<1>21. CASE TickStores
  BY <1>21, <1>a DEF TickStores, ScrubOK, Renewing, ProcTypes, Shape, Idle
<1>22. CASE HourlyCheck
  BY <1>22, <1>a DEF HourlyCheck, ScrubOK, Renewing, ProcTypes, Shape, Idle
<1>23. CASE RunEnroll
  BY <1>23, <1>a DEF RunEnroll, ScrubOK, Renewing, ProcTypes, Shape, Idle
<1>24. CASE Discard
  BY <1>24, <1>a DEF Discard, ScrubOK, Renewing, ProcTypes, Shape, Idle
<1>25. CASE Ages
  BY <1>25, <1>a DEF Ages, ScrubOK, Renewing, ProcTypes, Shape, Idle
<1>26. ASSUME NEW a \in Agents, Denylist(a) PROVE ScrubOK'
  BY <1>26, <1>a DEF Denylist, ScrubOK, Renewing, ProcTypes, Shape, Idle
<1> QED
  BY <1>u, <1>1, <1>2, <1>3, <1>4, <1>5, <1>6, <1>7, <1>8, <1>9, <1>10, <1>11, <1>12, <1>13, <1>14, <1>15, <1>16, <1>17, <1>18, <1>19, <1>20, <1>21, <1>22, <1>23, <1>24, <1>25, <1>26 DEF Next

-----------------------------------------------------------------------------
IdentityInv ==
  /\ ProcTypes /\ FileTypes /\ CertType /\ overlap \in BOOLEAN
  /\ IssuedOK /\ WholeOK /\ ScrubOK

LEMMA InitInv == Init => IdentityInv
<1> SUFFICES ASSUME Init PROVE IdentityInv
  OBVIOUS
<1>1. ProcTypes
  BY IdleShape DEF Init, ProcTypes
<1>2. FileTypes /\ CertType /\ overlap \in BOOLEAN
  BY IdentityAssumption DEF Init, FileTypes, CertType, NoCert, AgentOrNone
<1>3. \A p \in Procs : proc[p].pc = "down"
  BY DEF Init, Idle
<1>4. IssuedOK
  BY <1>3 DEF IssuedOK
<1>5. WholeOK
  <2>1. rt = NoAgent /\ NoAgent \notin Agents
    BY IdentityAssumption DEF Init
  <2>2. "agentd" \in Procs /\ "cli" \in Procs
    BY DEF Procs
  <2> QED
    BY <1>3, <2>1, <2>2 DEF WholeOK, Whole, HoldsOK, Enrolling, Registered, Meet, Discarding, At, Settled
<1>6. ScrubOK
  BY <1>3 DEF ScrubOK, Renewing, Procs
<1> QED
  BY <1>1, <1>2, <1>4, <1>5, <1>6 DEF IdentityInv

\* The note of a meeting is a flag.
LEMMA OverlapStep == overlap \in BOOLEAN /\ [Next]_vars => overlap' \in BOOLEAN
<1> SUFFICES ASSUME overlap \in BOOLEAN, [Next]_vars PROVE overlap' \in BOOLEAN
  OBVIOUS
<1> USE DEF Noted, files, gateway, bounds
<1>u. CASE UNCHANGED vars
  BY <1>u DEF vars
<1>1. ASSUME NEW p \in Procs, Ensure(p) PROVE overlap' \in BOOLEAN
  BY <1>1 DEF Ensure, Known, Configured, Unknown, NoTokenLeft, EnrollmentToken
<1>2. ASSUME NEW p \in Procs, BuildRequest(p) PROVE overlap' \in BOOLEAN
  BY <1>2 DEF BuildRequest
<1>3. ASSUME NEW p \in Procs, PostLost(p) PROVE overlap' \in BOOLEAN
  BY <1>3 DEF PostLost, Retry
<1>4. ASSUME NEW p \in Procs, PostAccepted(p) PROVE overlap' \in BOOLEAN
  BY <1>4 DEF PostAccepted, Retry
<1>5. ASSUME NEW p \in Procs, PostRejected(p) PROVE overlap' \in BOOLEAN
  BY <1>5 DEF PostRejected
<1>6. ASSUME NEW p \in Procs, StoreCertificate(p) PROVE overlap' \in BOOLEAN
  BY <1>6 DEF StoreCertificate
<1>7. ASSUME NEW p \in Procs, StoreIdentity(p) PROVE overlap' \in BOOLEAN
  BY <1>7 DEF StoreIdentity
<1>8. ASSUME NEW p \in Procs, Scrub(p) PROVE overlap' \in BOOLEAN
  BY <1>8 DEF Scrub
<1>9. ASSUME NEW p \in Procs, WriteFails(p) PROVE overlap' \in BOOLEAN
  BY <1>9 DEF WriteFails, Unfinished
<1>10. ASSUME NEW p \in Procs, CheckRenewal(p) PROVE overlap' \in BOOLEAN
  BY <1>10 DEF CheckRenewal
<1>11. ASSUME NEW p \in Procs, RenewRefused(p) PROVE overlap' \in BOOLEAN
  BY <1>11 DEF RenewRefused
<1>12. ASSUME NEW p \in Procs, RenewLost(p) PROVE overlap' \in BOOLEAN
  BY <1>12 DEF RenewLost, Retry
<1>13. ASSUME NEW p \in Procs, RenewAccepted(p) PROVE overlap' \in BOOLEAN
  BY <1>13 DEF RenewAccepted
<1>14. ASSUME NEW p \in Procs, StoreRenewed(p) PROVE overlap' \in BOOLEAN
  BY <1>14 DEF StoreRenewed
<1>15. ASSUME NEW p \in Procs, ReloadRuntime(p) PROVE overlap' \in BOOLEAN
  BY <1>15 DEF ReloadRuntime
<1>16. ASSUME NEW p \in Procs, RestoreRuntime(p) PROVE overlap' \in BOOLEAN
  BY <1>16 DEF RestoreRuntime
<1>17. ASSUME NEW p \in Procs, RenewWriteFails(p) PROVE overlap' \in BOOLEAN
  BY <1>17 DEF RenewWriteFails, Unfinished
<1>18. ASSUME NEW p \in Procs, Kill(p) PROVE overlap' \in BOOLEAN
  BY <1>18 DEF Kill, Unfinished
<1>19. CASE InitializeRuntime
  BY <1>19 DEF InitializeRuntime
<1>20. CASE TickLoads
  BY <1>20 DEF TickLoads
<1>21. CASE TickStores
  BY <1>21 DEF TickStores
<1>22. CASE HourlyCheck
  BY <1>22 DEF HourlyCheck
<1>23. CASE RunEnroll
  BY <1>23 DEF RunEnroll
<1>24. CASE Discard
  BY <1>24 DEF Discard
<1>25. CASE Ages
  BY <1>25 DEF Ages
<1>26. ASSUME NEW a \in Agents, Denylist(a) PROVE overlap' \in BOOLEAN
  BY <1>26 DEF Denylist
<1> QED
  BY <1>u, <1>1, <1>2, <1>3, <1>4, <1>5, <1>6, <1>7, <1>8, <1>9, <1>10, <1>11, <1>12, <1>13, <1>14, <1>15, <1>16, <1>17, <1>18, <1>19, <1>20, <1>21, <1>22, <1>23, <1>24, <1>25, <1>26 DEF Next

LEMMA NextInv == IdentityInv /\ [Next]_vars => IdentityInv'
<1> SUFFICES ASSUME IdentityInv, [Next]_vars PROVE IdentityInv'
  OBVIOUS
<1> USE DEF IdentityInv
<1>1. overlap' \in BOOLEAN
  BY OverlapStep
<1>2. WholeOK'
  BY QuietStep, WholeStep DEF WholeOK
<1> QED
  BY <1>1, <1>2, ProcTypesStep, FileTypesStep, CertTypeStep, IssuedStep, ScrubStep

\* apply_enrollment_result, discard_local_identity, scrub_enrollment_token_from_config_file:
\* for every set of agents and tokens and every number of enrollments, events and faults,
\* an identity that names a registered agent has that agent's certificate (or a torn one)
\* unless an enrollment met the living daemon, and a daemon in its loop has left no token
\* in agentd.toml; all state keeps its shape.
THEOREM IdentityKeptHolds == Spec => []IdentityKept
<1>1. IdentityInv => IdentityKept
  <2> SUFFICES ASSUME IdentityInv PROVE IdentityKept
    OBVIOUS
  <2>1. TypeOK
    BY DEF IdentityInv, ProcTypes, FileTypes, CertType, Shape, Places, TypeOK
  <2>2. IdentityWhole
    BY DEF IdentityInv, WholeOK, Whole, Quiet, IdentityWhole
  <2>3. TokenScrubbed
    BY DEF IdentityInv, ScrubOK, TokenScrubbed
  <2> QED
    BY <2>1, <2>2, <2>3 DEF IdentityKept
<1> QED
  BY <1>1, InitInv, NextInv, PTL DEF Spec

-----------------------------------------------------------------------------
(* Standing works: the inductive invariant.                                *)

Versions == 0..MaxSeq
WorkRecords ==
    [ver : Versions, status : {"absent", "active", "paused"},
     spec : Contents \cup {Broken, Empty, "none"}, acked : Versions]
Grants == [Works -> WorkRecords]

GrantTypes ==
    /\ want \in Grants /\ held \in Grants /\ gwAck \in [Works -> Versions]
    /\ workDisk \in [seq : Versions, works : Grants]

CounterTypes ==
    /\ gwSeq \in Versions /\ seqMem \in Versions
    /\ toAck \subseteq Works /\ dirty \in BOOLEAN /\ stored \in BOOLEAN
    /\ workPc \in {"down", "idle", "ack"} /\ lost \in 0..MaxLost /\ workCrashes \in 0..MaxWorkCrash

\* No version and no sequence number is ahead of the gateway's.
NoneAhead ==
    /\ seqMem <= gwSeq /\ workDisk.seq <= gwSeq
    /\ \A w \in Works : want[w].ver <= gwSeq /\ held[w].ver <= gwSeq /\ gwAck[w] <= gwSeq /\ workDisk.works[w].ver <= gwSeq

\* Only an absent work has no version, and no agent acknowledged it.
WantedOK == \A w \in Works : want[w].ver = 0 => want[w] = Absent
BlankOK ==
    \A w \in Works : /\ held[w].ver = 0 => held[w].acked = 0
                     /\ workDisk.works[w].ver = 0 => workDisk.works[w].acked = 0

\* The same work, but for the acknowledgement and for parameters that could
\* not be read and were lost with a restart.
Same(mine, theirs) ==
    /\ mine.ver = theirs.ver /\ mine.status = theirs.status
    /\ mine.spec = theirs.spec \/ (theirs.spec = Broken /\ mine.spec = Empty)

\* A grant with the gateway's sequence number is the gateway's grant: what lets
\* refresh_work_grant skip the write when the number did not change.
GrantOK ==
    /\ seqMem = gwSeq => \A w \in Works : Same(held[w], want[w])
    /\ workDisk.seq = gwSeq => \A w \in Works : Same(workDisk.works[w], want[w])

\* During a round the agent knows the parameters of every version it holds, and
\* what it is about to acknowledge it could read.
RoundOK ==
    workPc = "ack" =>
        /\ \A w \in Works : held[w].ver = want[w].ver /\ want[w].ver # 0 => held[w].spec = want[w].spec
        /\ \A w \in toAck : held[w].spec # Broken /\ held[w].ver # 0

\* The stored view is a fixed point of storing, and it is current whenever
\* nothing is due.
ViewOK ==
    /\ workDisk = DeviceView(workDisk.works, workDisk.seq)
    /\ (workPc = "idle" \/ (workPc = "ack" /\ ~dirty)) /\ stored => workDisk = DeviceView(held, seqMem)

WorkInv ==
    /\ GrantTypes /\ CounterTypes /\ NoneAhead /\ WantedOK /\ BlankOK /\ GrantOK /\ RoundOK
    /\ ViewOK /\ DriftVisible

-----------------------------------------------------------------------------
(* Pulled settings: the inductive invariant.                               *)

Settings == [enabled : BOOLEAN, interval : Intervals] \cup {None}
Applied == {None, "off", "target", "enabled"}
Uplinks == Applied \cup {"rejected"}
Pcs == {"policy", "search", "uplink", "snap", "send"}

SettingTypes ==
    /\ gw \in [policy : Nat, roots : RootLists \cup {None}, uplink : Uplinks, snap : Settings \cup {Unset}]
    /\ policy \in Nat /\ searchFile \subseteq Roots /\ snap \in Settings
    /\ local \in [kind : {"tcp", "file"}, enabled : BOOLEAN] /\ grant \in Applied

TimerTypes ==
    /\ age \in [Timers -> 0..Cap \cup {Never}] /\ idleSnap = age["sent"]
    /\ factAge \in Int /\ (factAge <= Cap \/ factAge = Never)
    /\ quiet \in Nat /\ steps \in Nat /\ edits \in 0..MaxEdits /\ pullPc \in Pcs
    /\ steps <= edits /\ gw.policy <= edits /\ policy <= edits

\* The part of the running interval the recorded attempt accounts for.
Clip(n) == IF n = Never \/ n < 0 THEN 0 ELSE IF n < FactEvery THEN n ELSE FactEvery

\* Every step of the clock costs one interval, and the rest is younger than one.
QuietOK == quiet <= FactEvery * steps + Clip(factAge)

PullInv == SettingTypes /\ TimerTypes /\ QuietOK
-----------------------------------------------------------------------------
(* Records and views of works.                                             *)

LEMMA AbsentRecord ==
    /\ Absent \in WorkRecords /\ Absent.ver = 0 /\ Absent.acked = 0
    /\ Absent.status = "absent" /\ Absent.spec = "none"
  BY WorkBounds DEF Absent, WorkRecords, Versions

LEMMA SetAcked ==
  ASSUME NEW r \in WorkRecords, NEW v \in Versions, NEW q, q = [r EXCEPT !.acked = v]
  PROVE  q \in WorkRecords /\ q.acked = v /\ q.ver = r.ver /\ q.status = r.status /\ q.spec = r.spec
  BY DEF WorkRecords

LEMMA SetStatus ==
  ASSUME NEW r \in WorkRecords, NEW s \in {"absent", "active", "paused"}, NEW q, q = [r EXCEPT !.status = s]
  PROVE  q \in WorkRecords /\ q.ver = r.ver /\ q.spec = r.spec /\ q.status = s
  BY DEF WorkRecords

LEMMA SetEmpty ==
  ASSUME NEW r \in WorkRecords, NEW q, q = [r EXCEPT !.spec = Empty]
  PROVE  q \in WorkRecords /\ q.ver = r.ver /\ q.status = r.status /\ q.acked = r.acked /\ q.spec = Empty
  BY DEF WorkRecords

LEMMA SameRecord ==
  ASSUME NEW r \in WorkRecords, NEW q \in WorkRecords,
         r.ver = q.ver, r.status = q.status, r.spec = q.spec, r.acked = q.acked
  PROVE  r = q
  BY DEF WorkRecords

\* How the stored view shows one work.
Shown(r) == IF r.spec = Broken THEN [r EXCEPT !.spec = Empty] ELSE r

LEMMA ShownFields ==
  ASSUME NEW r \in WorkRecords
  PROVE  /\ Shown(r) \in WorkRecords /\ Shown(r).ver = r.ver /\ Shown(r).status = r.status
         /\ Shown(r).acked = r.acked /\ Shown(r).spec # Broken
         /\ r.spec # Broken => Shown(r) = r
         /\ r.spec = Broken => Shown(r).spec = Empty
  <1>1. Empty # Broken
    BY DEF Empty, Broken
  <1> QED
    BY <1>1, SetEmpty DEF Shown

\* A view is a stored grant with its sequence number; a view of number 0 is the
\* missing file.
LEMMA ViewFields ==
  ASSUME NEW ws \in Grants, NEW seq \in Versions
  PROVE  /\ DeviceView(ws, seq) \in [seq : Versions, works : Grants]
         /\ DeviceView(ws, seq).seq = seq
         /\ \A w \in Works : DeviceView(ws, seq).works[w] = IF seq = 0 THEN Absent ELSE Shown(ws[w])
<1>1. CASE seq = 0
  <2>1. [w \in Works |-> Absent] \in Grants /\ 0 \in Versions
    BY AbsentRecord, WorkBounds DEF Grants, Versions
  <2> QED
    BY <1>1, <2>1 DEF DeviceView, NoFile
<1>2. CASE seq # 0
  <2>1. [w \in Works |-> Shown(ws[w])] \in Grants
    BY ShownFields DEF Grants
  <2>2. DeviceView(ws, seq) = [seq |-> seq, works |-> [w \in Works |-> Shown(ws[w])]]
    BY <1>2 DEF DeviceView, Shown
  <2> QED
    BY <1>2, <2>1, <2>2
<1> QED
  BY <1>1, <1>2

\* Storing what a view shows gives the same view.
LEMMA ViewFixed ==
  ASSUME NEW ws \in Grants, NEW seq \in Versions, NEW v, v = DeviceView(ws, seq)
  PROVE  v = DeviceView(v.works, v.seq)
<1>1. CASE seq = 0
  BY <1>1 DEF DeviceView, NoFile
<1>2. CASE seq # 0
  <2>1. v.seq = seq /\ v.works \in Grants
    BY ViewFields
  <2>2. \A w \in Works : Shown(v.works[w]) = v.works[w]
    BY <1>2, ViewFields, ShownFields DEF Grants
  <2>3. v = [seq |-> seq, works |-> v.works]
    BY <1>2 DEF DeviceView
  <2>4. v.works = [w \in Works |-> Shown(v.works[w])]
    BY <2>1, <2>2 DEF Grants
  <2>5. DeviceView(v.works, v.seq) = [seq |-> seq, works |-> [w \in Works |-> Shown(v.works[w])]]
    BY <1>2, <2>1 DEF DeviceView, Shown
  <2> QED
    BY <2>3, <2>4, <2>5
<1> QED
  BY <1>1, <1>2

\* Grants that show the same works have the same view.
LEMMA ViewSame ==
  ASSUME NEW ws \in Grants, NEW vs \in Grants, NEW seq \in Versions,
         \A w \in Works : Shown(ws[w]) = Shown(vs[w])
  PROVE  DeviceView(ws, seq) = DeviceView(vs, seq)
<1>1. [w \in Works |-> Shown(ws[w])] = [w \in Works |-> Shown(vs[w])]
  OBVIOUS
<1> QED
  BY <1>1 DEF DeviceView, Shown

-----------------------------------------------------------------------------
(* What the actions do.                                                    *)

agentVars == <<held, seqMem, toAck, dirty, workDisk, stored, workPc, lost, workCrashes>>

\* The gateway's entry for w moved on.
Moved(w) ==
    \/ want'[w].ver = gwSeq + 1
    \/ want'[w].ver # 0 /\ want'[w].ver = want[w].ver /\ want'[w].spec = want[w].spec
    \/ want'[w] = Absent

LEMMA GatewayEffect ==
  ASSUME GrantTypes, CounterTypes, WantedOK, GatewayStep
  PROVE  /\ gwSeq' = gwSeq + 1 /\ gwSeq' \in Versions /\ want' \in Grants
         /\ \E w \in Works : Moved(w) /\ \A x \in Works \ {w} : want'[x] = want[x]
         /\ UNCHANGED <<gwAck, agentVars>>
<1> DEFINE Done(w, next) == /\ gwSeq' = gwSeq + 1 /\ gwSeq' \in Versions /\ want' = [want EXCEPT ![w] = next]
                            /\ UNCHANGED <<gwAck, agentVars>>
<1>1. ASSUME NEW w \in Works, NEW next, GatewayChanges(w, next) PROVE Done(w, next)
  BY <1>1, WorkBounds DEF GatewayChanges, agentVars, CounterTypes, Versions
<1>2. ASSUME NEW w \in Works, NEW next \in WorkRecords, Done(w, next),
             \/ next.ver = gwSeq + 1
             \/ next.ver # 0 /\ next.ver = want[w].ver /\ next.spec = want[w].spec
             \/ next = Absent
      PROVE  /\ gwSeq' = gwSeq + 1 /\ gwSeq' \in Versions /\ want' \in Grants
             /\ \E x \in Works : Moved(x) /\ \A y \in Works \ {x} : want'[y] = want[y]
             /\ UNCHANGED <<gwAck, agentVars>>
  <2>1. want' \in Grants /\ want'[w] = next /\ \A y \in Works \ {w} : want'[y] = want[y]
    BY <1>2 DEF GrantTypes, Grants
  <2>2. Moved(w)
    BY <1>2, <2>1 DEF Moved
  <2> QED
    BY <1>2, <2>1, <2>2
<1> HIDE DEF Done
<1>3. ASSUME NEW w \in Works, NEW s \in Contents \cup {Broken}, Publish(w, s)
      PROVE \E next \in WorkRecords : Done(w, next) /\ next.ver = gwSeq + 1
  <2> DEFINE next == [ver |-> gwSeq + 1, status |-> "active", spec |-> s, acked |-> 0]
  <2>1. Done(w, next)
    BY <1>1, <1>3 DEF Publish
  <2>2. gwSeq + 1 \in Versions /\ 0 \in Versions
    BY <1>3, WorkBounds DEF Publish, GatewayChanges, CounterTypes, Versions
  <2>3. next \in WorkRecords /\ next.ver = gwSeq + 1
    BY <2>2 DEF WorkRecords
  <2> QED
    BY <2>1, <2>3
<1>4. ASSUME NEW w \in Works, Pause(w) \/ Unpause(w)
      PROVE \E next \in WorkRecords : Done(w, next) /\ next.ver # 0 /\ next.ver = want[w].ver /\ next.spec = want[w].spec
  <2>1. want[w] \in WorkRecords /\ want[w].ver # 0
    BY <1>4, AbsentRecord DEF Pause, Unpause, WantedOK, GrantTypes, Grants
  <2>2. PICK s \in {"absent", "active", "paused"} : Done(w, [want[w] EXCEPT !.status = s])
    BY <1>1, <1>4 DEF Pause, Unpause
  <2> QED
    BY <2>1, <2>2, SetStatus
<1>5. ASSUME NEW w \in Works, Withdraw(w) PROVE Done(w, Absent)
  BY <1>1, <1>5 DEF Withdraw
<1> QED
  BY <1>2, <1>3, <1>4, <1>5, AbsentRecord DEF GatewayStep

LEMMA ApplyEffect ==
  ASSUME GrantTypes
  PROVE  /\ Apply(want) \in Grants
         /\ \A w \in Works : /\ Apply(want)[w].ver = want[w].ver /\ Apply(want)[w].status = want[w].status
                             /\ Apply(want)[w].spec = want[w].spec
                             /\ Apply(want)[w].acked = PreviousAck(w, want[w].ver)
<1>1. ASSUME NEW w \in Works PROVE PreviousAck(w, want[w].ver) \in Versions
  BY WorkBounds DEF PreviousAck, GrantTypes, Grants, WorkRecords, Versions
<1>2. \A w \in Works : want[w] \in WorkRecords
  BY DEF GrantTypes, Grants
<1>3. \A w \in Works : LET q == [want[w] EXCEPT !.acked = PreviousAck(w, want[w].ver)]
                       IN  /\ q \in WorkRecords /\ q.ver = want[w].ver /\ q.status = want[w].status
                           /\ q.spec = want[w].spec /\ q.acked = PreviousAck(w, want[w].ver)
  BY <1>1, <1>2, SetAcked
<1> QED
  BY <1>3 DEF Apply, Grants

\* mark_acked changes the acknowledgement of one work.
LEMMA MarkEffect ==
  ASSUME GrantTypes, NEW w \in Works, held' = [held EXCEPT ![w].acked = held[w].ver]
  PROVE  /\ held' \in Grants
         /\ \A x \in Works : held'[x].ver = held[x].ver /\ held'[x].status = held[x].status /\ held'[x].spec = held[x].spec
         /\ \A x \in Works \ {w} : held'[x] = held[x]
<1>1. held[w] \in WorkRecords /\ held[w].ver \in Versions
  BY DEF GrantTypes, Grants, WorkRecords
<1>2. held' = [held EXCEPT ![w] = [held[w] EXCEPT !.acked = held[w].ver]]
  BY DEF GrantTypes, Grants
<1>3. LET q == [held[w] EXCEPT !.acked = held[w].ver]
      IN  q \in WorkRecords /\ q.ver = held[w].ver /\ q.status = held[w].status /\ q.spec = held[w].spec
  BY <1>1, SetAcked
<1> QED
  BY <1>2, <1>3 DEF GrantTypes, Grants
-----------------------------------------------------------------------------
(* Every step of the works keeps the invariant, conjunct by conjunct.      *)

LEMMA WorkInvInit == WorkInit => WorkInv
<1> SUFFICES ASSUME WorkInit PROVE WorkInv
  OBVIOUS
<1>1. \A w \in Works : want[w] = Absent /\ held[w] = Absent /\ workDisk.works[w] = Absent /\ gwAck[w] = 0
  BY DEF WorkInit, NoFile
<1>2. workDisk.seq = 0 /\ gwSeq = 0 /\ seqMem = 0 /\ toAck = {} /\ workPc = "idle"
  BY DEF WorkInit, NoFile
<1>3. GrantTypes
  BY WorkBounds, AbsentRecord DEF WorkInit, NoFile, GrantTypes, Grants, Versions
<1>4. CounterTypes
  <2>1. 0 \in Versions /\ 0 \in 0..MaxLost /\ 0 \in 0..MaxWorkCrash
    BY WorkBounds DEF Versions
  <2> QED
    BY <2>1 DEF WorkInit, CounterTypes
<1>5. NoneAhead /\ WantedOK /\ BlankOK /\ GrantOK /\ RoundOK
  BY <1>1, <1>2, AbsentRecord DEF NoneAhead, WantedOK, BlankOK, GrantOK, RoundOK, Same
<1>6. ViewOK
  BY <1>2 DEF ViewOK, DeviceView, WorkInit
<1>7. DriftVisible
  BY <1>1, AbsentRecord DEF DriftVisible, Broken
<1> QED
  BY <1>3, <1>4, <1>5, <1>6, <1>7 DEF WorkInv

\* The gateway moves ahead of everything the agent has.
LEMMA GatewayStepKeeps == WorkInv /\ GatewayStep => WorkInv'
<1> SUFFICES ASSUME WorkInv, GatewayStep PROVE WorkInv'
  OBVIOUS
<1> USE DEF WorkInv
<1>1. /\ gwSeq' = gwSeq + 1 /\ gwSeq' \in Versions /\ want' \in Grants
      /\ UNCHANGED <<gwAck, agentVars>>
  BY GatewayEffect
<1>2. PICK w \in Works : Moved(w) /\ \A x \in Works \ {w} : want'[x] = want[x]
  BY GatewayEffect
<1>3. /\ gwSeq \in Nat /\ \A x \in Works : want[x].ver \in Nat /\ held[x].ver \in Nat /\ gwAck[x] \in Nat
      /\ workDisk.seq \in Nat /\ seqMem \in Nat /\ \A x \in Works : workDisk.works[x].ver \in Nat
  BY WorkBounds DEF GrantTypes, CounterTypes, Grants, WorkRecords, Versions
<1>4. GrantTypes' /\ CounterTypes'
  BY <1>1 DEF GrantTypes, CounterTypes, agentVars
<1>5. NoneAhead'
  BY <1>1, <1>2, <1>3, AbsentRecord DEF NoneAhead, Moved, agentVars
<1>6. WantedOK' /\ BlankOK'
  BY <1>1, <1>2, <1>3 DEF WantedOK, BlankOK, Moved, agentVars
<1>7. GrantOK'
  BY <1>1, <1>3 DEF GrantOK, NoneAhead, agentVars
<1>8. RoundOK'
  <2>1. ASSUME NEW x \in Works, workPc = "ack", held[x].ver = want'[x].ver, want'[x].ver # 0
        PROVE  held[x].spec = want'[x].spec
    <3>1. want'[x].ver # gwSeq + 1
      BY <1>3, <2>1 DEF NoneAhead
    <3>2. want'[x].ver = want[x].ver /\ want'[x].spec = want[x].spec
      BY <1>2, <2>1, <3>1, AbsentRecord DEF Moved
    <3> QED
      BY <2>1, <3>2 DEF RoundOK
  <2> QED
    BY <1>1, <2>1 DEF RoundOK, agentVars
<1>9. ViewOK'
  BY <1>1 DEF ViewOK, agentVars
<1>10. DriftVisible'
  <2>1. ASSUME NEW x \in Works, want'[x].spec = Broken PROVE gwAck[x] # want'[x].ver
    <3>1. want'[x] # Absent
      BY <2>1, AbsentRecord DEF Broken
    <3>2. CASE want'[x].ver = gwSeq + 1
      BY <1>3, <3>2 DEF NoneAhead
    <3>3. CASE want'[x].ver = want[x].ver /\ want'[x].spec = want[x].spec
      BY <2>1, <3>3 DEF DriftVisible
    <3> QED
      BY <1>2, <3>1, <3>2, <3>3 DEF Moved
  <2> QED
    BY <1>1, <2>1 DEF DriftVisible
<1> QED
  BY <1>4, <1>5, <1>6, <1>7, <1>8, <1>9, <1>10

\* apply: the grant replaces what is held; with an unchanged sequence number it
\* shows the same works.
LEMMA FetchKeeps == WorkInv /\ FetchWork => WorkInv'
<1> SUFFICES ASSUME WorkInv, FetchWork PROVE WorkInv'
  OBVIOUS
<1> USE DEF WorkInv
<1>1. /\ held' \in Grants
      /\ \A w \in Works : /\ held'[w].ver = want[w].ver /\ held'[w].status = want[w].status
                          /\ held'[w].spec = want[w].spec
                          /\ held'[w].acked = PreviousAck(w, want[w].ver)
  BY ApplyEffect DEF FetchWork
<1>2. /\ seqMem' = gwSeq /\ dirty' = (gwSeq # seqMem) /\ workPc = "idle" /\ workPc' = "ack"
      /\ UNCHANGED <<gatewayVars, workDisk, stored, lost, workCrashes>>
  BY DEF FetchWork
<1>3. toAck' = {w \in Works : held'[w].status # "absent" /\ held'[w].spec # Broken /\ held'[w].acked # held'[w].ver}
  BY DEF FetchWork, ToAck
<1>4. GrantTypes' /\ CounterTypes'
  BY <1>1, <1>2, <1>3 DEF GrantTypes, CounterTypes, gatewayVars
<1>5. NoneAhead' /\ WantedOK'
  BY <1>1, <1>2, WorkBounds DEF NoneAhead, WantedOK, gatewayVars, CounterTypes, Versions
<1>10. BlankOK'
  BY <1>1, <1>2 DEF BlankOK, PreviousAck
<1>6. GrantOK'
  <2>1. ASSUME NEW w \in Works PROVE Same(held'[w], want[w])
    BY <1>1 DEF Same
  <2> QED
    BY <1>2, <2>1 DEF GrantOK, gatewayVars
<1>7. RoundOK'
  BY <1>1, <1>2, <1>3, AbsentRecord DEF RoundOK, WantedOK, gatewayVars
<1>8. ViewOK'
  <2>1. ASSUME seqMem = gwSeq PROVE DeviceView(held', gwSeq) = DeviceView(held, gwSeq)
    <3>1. ASSUME NEW w \in Works PROVE Shown(held'[w]) = Shown(held[w])
      <4>1. held[w] \in WorkRecords /\ held'[w] \in WorkRecords
        BY <1>1 DEF GrantTypes, Grants
      <4>2. Same(held[w], want[w])
        BY <2>1 DEF GrantOK
      <4>3. /\ held'[w].ver = held[w].ver /\ held'[w].status = held[w].status /\ held'[w].acked = held[w].acked
            /\ held'[w].spec = held[w].spec \/ (held'[w].spec = Broken /\ held[w].spec = Empty)
        BY <1>1, <4>2 DEF Same, PreviousAck
      <4>4. CASE held'[w].spec = held[w].spec
        BY <4>1, <4>3, <4>4, SameRecord
      <4>5. CASE held'[w].spec = Broken /\ held[w].spec = Empty
        <5>1. Empty # Broken
          BY DEF Empty, Broken
        <5> QED
          BY <4>1, <4>3, <4>5, <5>1, ShownFields, SameRecord
      <4> QED
        BY <4>3, <4>4, <4>5
    <3>2. held \in Grants /\ gwSeq \in Versions
      BY DEF GrantTypes, CounterTypes
    <3> QED
      BY <1>1, <3>1, <3>2, ViewSame
  <2> QED
    BY <1>2, <2>1 DEF ViewOK, gatewayVars
<1>9. DriftVisible'
  BY <1>2 DEF DriftVisible, gatewayVars
<1> QED
  BY <1>4, <1>5, <1>6, <1>7, <1>8, <1>9, <1>10
\* An acknowledgement the gateway takes is of parameters the agent could read.
LEMMA TakenIsReadable ==
  ASSUME WorkInv, workPc = "ack", NEW w \in toAck, GatewayTakes(w)
  PROVE  w \in Works /\ want[w].spec # Broken
<1>1. w \in Works
  BY DEF WorkInv, CounterTypes
<1>2. held[w].ver = want[w].ver /\ held[w].spec # Broken /\ held[w].ver # 0
  BY DEF WorkInv, RoundOK, GatewayTakes
<1> QED
  BY <1>1, <1>2 DEF WorkInv, RoundOK

\* What the gateway records for an acknowledgement.
LEMMA GatewayRecords ==
  ASSUME WorkInv, workPc = "ack", NEW w \in toAck,
         UNCHANGED <<want, gwSeq>>,
         \/ gwAck' = gwAck
         \/ GatewayTakes(w) /\ gwAck' = [gwAck EXCEPT ![w] = held[w].ver]
  PROVE  /\ gwAck' \in [Works -> Versions] /\ \A x \in Works : gwAck'[x] <= gwSeq
         /\ DriftVisible'
<1>1. w \in Works
  BY DEF WorkInv, CounterTypes
<1>2. gwAck \in [Works -> Versions] /\ held[w].ver \in Versions
  BY <1>1 DEF WorkInv, GrantTypes, Grants, WorkRecords
<1>3. (\A x \in Works : gwAck[x] <= gwSeq) /\ held[w].ver <= gwSeq
  BY <1>1 DEF WorkInv, NoneAhead
<1>4. DriftVisible
  BY DEF WorkInv
<1>5. CASE gwAck' = gwAck
  BY <1>2, <1>3, <1>4, <1>5 DEF DriftVisible
<1>6. CASE GatewayTakes(w) /\ gwAck' = [gwAck EXCEPT ![w] = held[w].ver]
  <2>1. gwAck'[w] = held[w].ver /\ \A x \in Works \ {w} : gwAck'[x] = gwAck[x]
    BY <1>1, <1>2, <1>6
  <2>2. want[w].spec # Broken
    BY <1>6, TakenIsReadable
  <2>3. gwAck' \in [Works -> Versions]
    BY <1>2, <1>6
  <2> QED
    BY <1>3, <1>4, <2>1, <2>2, <2>3 DEF DriftVisible
<1> QED
  BY <1>5, <1>6

LEMMA AckAcceptedKeeps == ASSUME WorkInv, NEW w \in Works, AckAccepted(w) PROVE WorkInv'
<1> USE DEF WorkInv
<1>1. /\ workPc = "ack" /\ w \in toAck /\ GatewayTakes(w) /\ toAck' = toAck \ {w} /\ dirty' = TRUE
      /\ gwAck' = [gwAck EXCEPT ![w] = held[w].ver]
      /\ UNCHANGED <<want, gwSeq, seqMem, workDisk, stored, workPc, lost, workCrashes>>
  BY DEF AckAccepted
<1>2. /\ held' \in Grants
      /\ \A x \in Works : held'[x].ver = held[x].ver /\ held'[x].status = held[x].status /\ held'[x].spec = held[x].spec
      /\ \A x \in Works \ {w} : held'[x] = held[x]
  BY MarkEffect DEF AckAccepted
<1>3. gwAck' \in [Works -> Versions] /\ (\A x \in Works : gwAck'[x] <= gwSeq) /\ DriftVisible'
  BY <1>1, GatewayRecords
<1>4. GrantTypes' /\ CounterTypes'
  BY <1>1, <1>2, <1>3 DEF GrantTypes, CounterTypes
<1>5. NoneAhead' /\ WantedOK'
  BY <1>1, <1>2, <1>3 DEF NoneAhead, WantedOK
<1>6. BlankOK'
  BY <1>1, <1>2 DEF BlankOK, RoundOK
<1>7. GrantOK' /\ RoundOK'
  BY <1>1, <1>2 DEF GrantOK, Same, RoundOK, CounterTypes
<1>8. ViewOK'
  BY <1>1 DEF ViewOK
<1> QED
  BY <1>3, <1>4, <1>5, <1>6, <1>7, <1>8

LEMMA AckRefusedKeeps == ASSUME WorkInv, NEW w \in Works, AckRefused(w) PROVE WorkInv'
<1> USE DEF WorkInv
<1>1. /\ toAck' \subseteq toAck
      /\ UNCHANGED <<want, gwSeq, gwAck, held, seqMem, dirty, workDisk, stored, workPc, lost, workCrashes>>
  BY DEF AckRefused, gatewayVars
<1> QED
  BY <1>1 DEF GrantTypes, CounterTypes, NoneAhead, WantedOK, BlankOK, GrantOK, RoundOK, ViewOK, DriftVisible

LEMMA AckLostKeeps == ASSUME WorkInv, NEW w \in Works, AckLost(w) PROVE WorkInv'
<1> USE DEF WorkInv
<1>1. /\ workPc = "ack" /\ w \in toAck /\ toAck' \subseteq toAck
      /\ UNCHANGED <<want, gwSeq, held, seqMem, dirty, workDisk, stored, workPc, workCrashes>>
  BY DEF AckLost
<1>2. lost' \in 0..MaxLost
  BY WorkBounds DEF AckLost, CounterTypes
<1>3. gwAck' \in [Works -> Versions] /\ (\A x \in Works : gwAck'[x] <= gwSeq) /\ DriftVisible'
  <2>1. \/ gwAck' = gwAck
        \/ GatewayTakes(w) /\ gwAck' = [gwAck EXCEPT ![w] = held[w].ver]
    BY DEF AckLost
  <2> QED
    BY <1>1, <2>1, GatewayRecords
<1>4. GrantTypes' /\ CounterTypes' /\ NoneAhead'
  BY <1>1, <1>2, <1>3 DEF GrantTypes, CounterTypes, NoneAhead
<1> QED
  BY <1>1, <1>3, <1>4 DEF WantedOK, BlankOK, GrantOK, RoundOK, ViewOK

\* The write of work.json: the view of what is held, or the old one.
LEMMA EndRoundKeeps == WorkInv /\ EndRound => WorkInv'
<1> SUFFICES ASSUME WorkInv, EndRound PROVE WorkInv'
  OBVIOUS
<1> USE DEF WorkInv
<1>1. /\ workPc = "ack" /\ workPc' = "idle" /\ dirty' = FALSE
      /\ UNCHANGED <<want, gwSeq, gwAck, held, seqMem, toAck, workCrashes>>
  BY DEF EndRound, gatewayVars
<1>2. \/ dirty /\ workDisk' = DeviceView(held, seqMem)
      \/ workDisk' = workDisk /\ (stored' => stored /\ ~dirty)
  BY DEF EndRound, CounterTypes
<1>3. lost' \in 0..MaxLost /\ stored' \in BOOLEAN
  <2>1. lost' \in 0..MaxLost
    BY WorkBounds DEF EndRound, CounterTypes
  <2>2. stored' \in BOOLEAN
    BY DEF EndRound, CounterTypes
  <2> QED
    BY <2>1, <2>2
<1>4. held \in Grants /\ seqMem \in Versions /\ \A w \in Works : held[w] \in WorkRecords
  BY DEF GrantTypes, CounterTypes, Grants
<1>5. /\ workDisk' \in [seq : Versions, works : Grants]
      /\ workDisk' = DeviceView(workDisk'.works, workDisk'.seq)
      /\ stored' => workDisk' = DeviceView(held, seqMem)
  <2>1. CASE workDisk' = DeviceView(held, seqMem)
    BY <1>4, <2>1, ViewFields, ViewFixed
  <2>2. CASE workDisk' = workDisk /\ (stored' => stored /\ ~dirty)
    BY <1>1, <2>2 DEF ViewOK, GrantTypes
  <2> QED
    BY <1>2, <2>1, <2>2
<1>6. GrantTypes' /\ CounterTypes'
  BY <1>1, <1>3, <1>5 DEF GrantTypes, CounterTypes
<1>7. ViewOK'
  BY <1>1, <1>5 DEF ViewOK
<1>8. RoundOK' /\ WantedOK' /\ DriftVisible'
  BY <1>1 DEF RoundOK, WantedOK, DriftVisible
<1>9. NoneAhead' /\ BlankOK' /\ GrantOK'
  <2>1. CASE workDisk' = workDisk
    BY <1>1, <2>1 DEF NoneAhead, BlankOK, GrantOK
  <2>2. CASE workDisk' = DeviceView(held, seqMem)
    <3>1. /\ workDisk'.seq = seqMem
          /\ \A w \in Works : workDisk'.works[w] = IF seqMem = 0 THEN Absent ELSE Shown(held[w])
      BY <1>4, <2>2, ViewFields
    <3>2. ASSUME NEW w \in Works
          PROVE  /\ workDisk'.works[w].ver <= gwSeq
                 /\ workDisk'.works[w].ver = 0 => workDisk'.works[w].acked = 0
                 /\ seqMem = gwSeq => Same(workDisk'.works[w], want[w])
      <4>1. CASE seqMem = 0
        <5>1. workDisk'.works[w] = Absent
          BY <3>1, <4>1
        <5>2. gwSeq = 0 => want[w] = Absent
          BY WorkBounds DEF NoneAhead, WantedOK, CounterTypes, GrantTypes, Grants, WorkRecords, Versions
        <5>3. gwSeq \in Nat
          BY WorkBounds DEF CounterTypes, Versions
        <5> QED
          BY <4>1, <5>1, <5>2, <5>3, AbsentRecord DEF Same
      <4>2. CASE seqMem # 0
        <5>1. workDisk'.works[w] = Shown(held[w])
          BY <3>1, <4>2
        <5>2. held[w].ver <= gwSeq /\ (held[w].ver = 0 => held[w].acked = 0)
          BY DEF NoneAhead, BlankOK
        <5>3. seqMem = gwSeq => Same(held[w], want[w])
          BY DEF GrantOK
        <5>4. Empty # Broken
          BY DEF Empty, Broken
        <5> QED
          BY <1>4, <5>1, <5>2, <5>3, <5>4, ShownFields DEF Same
      <4> QED
        BY <4>1, <4>2
    <3> QED
      BY <1>1, <3>1, <3>2 DEF NoneAhead, BlankOK, GrantOK
  <2> QED
    BY <1>2, <2>1, <2>2
<1> QED
  BY <1>6, <1>7, <1>8, <1>9

\* A crash forgets the grant, a restart takes it up from the stored view.
LEMMA WorkCrashKeeps == WorkInv /\ WorkCrash => WorkInv'
<1> SUFFICES ASSUME WorkInv, WorkCrash PROVE WorkInv'
  OBVIOUS
<1> USE DEF WorkInv
<1>1. /\ held' = [w \in Works |-> Absent] /\ seqMem' = 0 /\ toAck' = {} /\ dirty' = FALSE /\ workPc' = "down"
      /\ UNCHANGED <<want, gwSeq, gwAck, workDisk, stored, lost>>
  BY DEF WorkCrash, gatewayVars
<1>2. workCrashes' \in 0..MaxWorkCrash /\ 0 \in Versions
  BY WorkBounds DEF WorkCrash, CounterTypes, Versions
<1>3. GrantTypes' /\ CounterTypes'
  BY <1>1, <1>2, AbsentRecord DEF GrantTypes, CounterTypes, Grants
<1>4. gwSeq \in Nat /\ \A w \in Works : want[w].ver \in Nat
  BY WorkBounds DEF GrantTypes, CounterTypes, Grants, WorkRecords, Versions
<1>5. NoneAhead' /\ BlankOK' /\ WantedOK'
  BY <1>1, <1>4, AbsentRecord DEF NoneAhead, BlankOK, WantedOK
<1>6. GrantOK'
  <2>1. ASSUME gwSeq = 0, NEW w \in Works PROVE Same(held'[w], want[w])
    <3>1. want[w] = Absent
      BY <1>4, <2>1 DEF NoneAhead, WantedOK
    <3> QED
      BY <1>1, <3>1 DEF Same
  <2> QED
    BY <1>1, <2>1 DEF GrantOK
<1>7. RoundOK' /\ ViewOK' /\ DriftVisible'
  BY <1>1 DEF RoundOK, ViewOK, DriftVisible
<1> QED
  BY <1>3, <1>5, <1>6, <1>7

LEMMA RestoreKeeps == WorkInv /\ RestoreWork => WorkInv'
<1> SUFFICES ASSUME WorkInv, RestoreWork PROVE WorkInv'
  OBVIOUS
<1> USE DEF WorkInv
<1>1. /\ workPc' = "idle" /\ UNCHANGED <<want, gwSeq, gwAck, toAck, dirty, workDisk, workCrashes>>
      /\ lost' \in 0..MaxLost
  BY WorkBounds DEF RestoreWork, gatewayVars, CounterTypes
<1>2. CASE held' = workDisk.works /\ seqMem' = workDisk.seq /\ stored' = TRUE
  <2>1. GrantTypes' /\ CounterTypes'
    BY <1>1, <1>2 DEF GrantTypes, CounterTypes
  <2> QED
    BY <1>1, <1>2, <2>1 DEF NoneAhead, WantedOK, BlankOK, GrantOK, RoundOK, ViewOK, DriftVisible
<1>3. CASE held' = NoFile.works /\ seqMem' = 0 /\ stored' = FALSE
  <2>1. held' = [w \in Works |-> Absent] /\ 0 \in Versions
    BY <1>3, WorkBounds DEF NoFile, Versions
  <2>2. GrantTypes' /\ CounterTypes'
    BY <1>1, <1>3, <2>1, AbsentRecord DEF GrantTypes, CounterTypes, Grants
  <2>3. gwSeq \in Nat /\ \A w \in Works : want[w].ver \in Nat
    BY WorkBounds DEF GrantTypes, CounterTypes, Grants, WorkRecords, Versions
  <2>4. NoneAhead' /\ BlankOK' /\ WantedOK'
    BY <1>1, <1>3, <2>1, <2>3, AbsentRecord DEF NoneAhead, BlankOK, WantedOK
  <2>5. ASSUME gwSeq = 0, NEW w \in Works PROVE Same(held'[w], want[w])
    <3>1. want[w] = Absent
      BY <2>3, <2>5 DEF NoneAhead, WantedOK
    <3> QED
      BY <2>1, <3>1 DEF Same
  <2>6. GrantOK'
    BY <1>1, <1>3, <2>5 DEF GrantOK
  <2>7. RoundOK' /\ ViewOK' /\ DriftVisible'
    BY <1>1, <1>3 DEF RoundOK, ViewOK, DriftVisible
  <2> QED
    BY <2>2, <2>4, <2>6, <2>7
<1> QED
  BY <1>2, <1>3 DEF RestoreWork

LEMMA WorkInvStep == WorkInv /\ [WorkNext]_workVars => WorkInv'
<1> SUFFICES ASSUME WorkInv, [WorkNext]_workVars PROVE WorkInv'
  OBVIOUS
<1>1. CASE UNCHANGED workVars
  BY <1>1 DEF workVars, WorkInv, GrantTypes, CounterTypes, NoneAhead, WantedOK, BlankOK, GrantOK, RoundOK, ViewOK, DriftVisible
<1>2. CASE FetchWorkFails
  <2>1. lost' \in 0..MaxLost /\ UNCHANGED <<want, gwSeq, gwAck, held, seqMem, toAck, dirty, workDisk, stored, workPc, workCrashes>>
    BY <1>2, WorkBounds DEF FetchWorkFails, gatewayVars, WorkInv, CounterTypes
  <2> QED
    BY <2>1 DEF WorkInv, GrantTypes, CounterTypes, NoneAhead, WantedOK, BlankOK, GrantOK, RoundOK, ViewOK, DriftVisible
<1> QED
  BY <1>1, <1>2, GatewayStepKeeps, FetchKeeps, AckAcceptedKeeps, AckRefusedKeeps, AckLostKeeps,
     EndRoundKeeps, WorkCrashKeeps, RestoreKeeps DEF WorkNext, AckStep
-----------------------------------------------------------------------------
(* The pulls and reports of a tick.                                        *)

LEMMA PullNumbers ==
    /\ Cap \in Nat /\ Never \in Nat /\ Never = Cap + 1 /\ 1 <= Cap
    /\ FactEvery \in Nat /\ FactEvery >= 1 /\ FactEvery <= Cap
    /\ MinInterval \in Nat /\ MinInterval >= 1 /\ MaxEdits \in Nat
    /\ \A n \in Intervals : n \in Nat
  BY PullBounds DEF Never

LEMMA CappedTimer ==
  ASSUME NEW n \in 0..Cap \cup {Never}
  PROVE  /\ CappedInc(n) \in 0..Cap \cup {Never}
         /\ CappedInc(n) <= n + 1
  BY PullNumbers DEF CappedInc

\* sanitize only leaves roots out.
LEMMA SanitizeRoots == ASSUME NEW rs \in SUBSET Roots, NEW r \in Sanitize(rs) PROVE r \subseteq Roots
  BY DEF Sanitize

LEMMA PullInvInit == PullInit => PullInv
<1> SUFFICES ASSUME PullInit PROVE PullInv
  OBVIOUS
<1>1. SettingTypes
  <2>1. PICK s \in {None, Unset} : gw = [policy |-> 0, roots |-> None, uplink |-> None, snap |-> s]
    BY DEF PullInit
  <2>2. None \in Settings /\ None \in Uplinks /\ None \in Applied /\ None \in RootLists \cup {None} /\ 0 \in Nat
    BY DEF Settings, Uplinks, Applied
  <2>3. gw \in [policy : Nat, roots : RootLists \cup {None}, uplink : Uplinks, snap : Settings \cup {Unset}]
    BY <2>1, <2>2
  <2> QED
    BY <2>2, <2>3 DEF SettingTypes, PullInit
<1>2. TimerTypes
  <2>1. gw.policy = 0
    BY DEF PullInit
  <2>2. age \in [Timers -> 0..Cap \cup {Never}] /\ idleSnap = age["sent"]
    BY DEF PullInit, Timers
  <2> QED
    BY <2>1, <2>2, PullNumbers DEF TimerTypes, PullInit, Pcs
<1>3. QuietOK
  BY PullNumbers DEF PullInit, QuietOK, Clip
<1> QED
  BY <1>1, <1>2, <1>3 DEF PullInv

\* A pull: its timer starts again, and the setting it brings is of its kind.
otherVars == <<gw, local, factAge, quiet, steps, idleSnap, edits, pullCrashes>>

\* Pulls and skipped pulls touch the timers of pulls and the applied settings.
LEMMA PullKeeps ==
  ASSUME PullInv, UNCHANGED otherVars, pullPc' \in Pcs,
         age' = age \/ \E t \in Timers \ {"sent"} : age' = [age EXCEPT ![t] = 0],
         policy' \in {policy, gw.policy}, searchFile' \subseteq Roots,
         snap' \in Settings, grant' \in Applied
  PROVE  PullInv'
<1>1. SettingTypes'
  <2>1. policy' \in Nat
    BY DEF PullInv, SettingTypes
  <2> QED
    BY <2>1 DEF PullInv, SettingTypes, otherVars
<1>2. age' \in [Timers -> 0..Cap \cup {Never}] /\ age'["sent"] = age["sent"]
  <2>1. age \in [Timers -> 0..Cap \cup {Never}] /\ "sent" \in Timers
    BY DEF PullInv, TimerTypes, Timers
  <2>2. 0 \in 0..Cap
    BY PullNumbers
  <2> QED
    BY <2>1, <2>2
<1>3. policy' <= edits'
  BY DEF PullInv, TimerTypes, otherVars
<1>4. TimerTypes'
  BY <1>2, <1>3 DEF PullInv, TimerTypes, otherVars
<1>5. QuietOK'
  BY DEF PullInv, QuietOK, otherVars
<1> QED
  BY <1>1, <1>4, <1>5 DEF PullInv

LEMMA SkipKeeps ==
  ASSUME PullInv, NEW timer, NEW every, NEW at, NEW next \in Pcs, Skip(timer, every, at, next)
  PROVE  PullInv'
<1>1. UNCHANGED otherVars /\ UNCHANGED <<age, policy, searchFile, snap, grant>> /\ pullPc' \in Pcs
  BY DEF Skip, otherVars
<1>2. policy' \in {policy, gw.policy} /\ searchFile' \subseteq Roots /\ snap' \in Settings /\ grant' \in Applied
  BY <1>1 DEF PullInv, SettingTypes
<1> QED
  BY <1>1, <1>2, PullKeeps

LEMMA RefreshKeeps ==
  ASSUME PullInv, RefreshPolicy \/ RefreshSearch \/ RefreshUplink \/ RefreshSnap
  PROVE  PullInv'
<1>0. /\ policy \in {policy, gw.policy} /\ searchFile \subseteq Roots /\ snap \in Settings /\ grant \in Applied
      /\ gw.roots \in RootLists \cup {None} /\ gw.uplink \in Uplinks /\ gw.snap \in Settings \cup {Unset}
  BY DEF PullInv, SettingTypes
<1>a. ASSUME NEW timer \in Timers \ {"sent"}, NEW every, NEW at, NEW next \in Pcs, NEW answer,
             Attempt(timer, every, at, next, answer)
      PROVE  /\ UNCHANGED otherVars /\ pullPc' \in Pcs
             /\ \E t \in Timers \ {"sent"} : age' = [age EXCEPT ![t] = 0]
  BY <1>a DEF Attempt, otherVars
<1>t. /\ {"search", "uplink", "snap", "send"} \subseteq Pcs
      /\ {"policy", "search", "uplink", "snap"} \subseteq Timers \ {"sent"}
  BY DEF Pcs, Timers
<1>1. CASE RefreshPolicy
  <2>1. CASE Skip("policy", PolicyEvery, "policy", "search")
    BY <1>t, <2>1, SkipKeeps
  <2>2. ASSUME NEW answer \in {gw.policy, Lost}, Attempt("policy", PolicyEvery, "policy", "search", answer),
               policy' = PolicyAfter(answer), UNCHANGED <<searchFile, grant, snap>>
        PROVE  PullInv'
    <3>1. policy' \in {policy, gw.policy}
      BY <2>2 DEF PolicyAfter
    <3>2. /\ UNCHANGED otherVars /\ pullPc' \in Pcs
          /\ \E t \in Timers \ {"sent"} : age' = [age EXCEPT ![t] = 0]
      BY <1>a, <1>t, <2>2
    <3> QED
      BY <1>0, <2>2, <3>1, <3>2, PullKeeps
  <2> QED
    BY <1>1, <2>1, <2>2 DEF RefreshPolicy
<1>2. CASE RefreshSearch
  <2>1. CASE Skip("search", PolicyEvery, "search", "uplink")
    BY <1>t, <2>1, SkipKeeps
  <2>2. ASSUME NEW answer \in {gw.roots, Lost}, Attempt("search", PolicyEvery, "search", "uplink", answer),
               searchFile' \in SearchAfter(answer), UNCHANGED <<policy, grant, snap>>
        PROVE  PullInv'
    <3>1. searchFile' \subseteq Roots
      <4>1. CASE answer \in {Lost, None}
        BY <1>0, <2>2, <4>1 DEF SearchAfter
      <4>2. CASE answer \notin {Lost, None}
        <5>1. answer \in SUBSET Roots
          BY <1>0, <4>2, PullBounds
        <5> QED
          BY <2>2, <4>2, <5>1, SanitizeRoots DEF SearchAfter
      <4> QED
        BY <4>1, <4>2
    <3>2. /\ UNCHANGED otherVars /\ pullPc' \in Pcs
          /\ \E t \in Timers \ {"sent"} : age' = [age EXCEPT ![t] = 0]
      BY <1>a, <1>t, <2>2
    <3> QED
      BY <1>0, <2>2, <3>1, <3>2, PullKeeps
  <2> QED
    BY <1>2, <2>1, <2>2 DEF RefreshSearch
<1>3. CASE RefreshUplink
  <2>1. CASE Skip("uplink", FetchEvery, "uplink", "snap")
    BY <1>t, <2>1, SkipKeeps
  <2>2. ASSUME NEW answer \in {gw.uplink, Lost}, Attempt("uplink", FetchEvery, "uplink", "snap", answer),
               grant' = ObserveUplink(answer), UNCHANGED <<policy, searchFile, snap>>
        PROVE  PullInv'
    <3>1. grant' \in Applied
      <4>1. CASE answer \in {Lost, None}
        BY <1>0, <2>2, <4>1, PullNames DEF ObserveUplink
      <4>2. CASE answer \notin {Lost, None}
        BY <1>0, <2>2, <4>2 DEF ObserveUplink, Applied, Uplinks
      <4> QED
        BY <4>1, <4>2
    <3>2. /\ UNCHANGED otherVars /\ pullPc' \in Pcs
          /\ \E t \in Timers \ {"sent"} : age' = [age EXCEPT ![t] = 0]
      BY <1>a, <1>t, <2>2
    <3> QED
      BY <1>0, <2>2, <3>1, <3>2, PullKeeps
  <2> QED
    BY <1>3, <2>1, <2>2 DEF RefreshUplink
<1>4. CASE RefreshSnap
  <2>1. CASE Skip("snap", FetchEvery, "snap", "send")
    BY <1>t, <2>1, SkipKeeps
  <2>2. ASSUME NEW answer \in {gw.snap, Lost}, Attempt("snap", FetchEvery, "snap", "send", answer),
               snap' = ObserveSnap(answer), UNCHANGED <<policy, searchFile, grant>>
        PROVE  PullInv'
    <3>1. snap' \in Settings
      BY <1>0, <2>2 DEF ObserveSnap
    <3>2. /\ UNCHANGED otherVars /\ pullPc' \in Pcs
          /\ \E t \in Timers \ {"sent"} : age' = [age EXCEPT ![t] = 0]
      BY <1>a, <1>t, <2>2
    <3> QED
      BY <1>0, <2>2, <3>1, <3>2, PullKeeps
  <2> QED
    BY <1>4, <2>1, <2>2 DEF RefreshSnap
<1> QED
  BY <1>1, <1>2, <1>3, <1>4
\* The attempt a report records pays for the time it was quiet.
LEMMA SendKeeps == PullInv /\ Send => PullInv'
<1> SUFFICES ASSUME PullInv, Send PROVE PullInv'
  OBVIOUS
<1>1. UNCHANGED <<gw, policy, searchFile, snap, local, grant, edits>> /\ pullPc' \in Pcs
  BY DEF Send, Pcs
<1>2. SettingTypes'
  BY <1>1 DEF PullInv, SettingTypes
<1>3. age' \in [Timers -> 0..Cap \cup {Never}] /\ idleSnap' = age'["sent"]
  <2>1. age \in [Timers -> 0..Cap \cup {Never}] /\ idleSnap = age["sent"] /\ "sent" \in Timers
    BY DEF PullInv, TimerTypes, Timers
  <2>2. 1 \in 0..Cap /\ \A t \in Timers : CappedInc(age[t]) \in 0..Cap \cup {Never}
    BY <2>1, PullNumbers, CappedTimer
  <2>3. age' = [t \in Timers |-> IF t = "sent" /\ SnapshotDue THEN 1 ELSE CappedInc(age[t])]
    BY DEF Send, RecordsSnapshot
  <2>4. age' \in [Timers -> 0..Cap \cup {Never}]
    BY <2>2, <2>3
  <2>5. idleSnap' = IF SnapshotDue THEN 1 ELSE CappedInc(idleSnap)
    BY DEF Send
  <2> QED
    BY <2>1, <2>3, <2>4, <2>5
<1>4. /\ factAge \in Int /\ (factAge <= Cap \/ factAge = Never) /\ quiet \in Nat /\ steps \in Nat
      /\ edits \in Nat /\ steps <= edits
      /\ quiet <= FactEvery * steps + Clip(factAge)
  BY PullNumbers DEF PullInv, TimerTypes, QuietOK
<1>5. CASE FactDue
  <2>1. factAge' = 1 /\ steps' = 0 /\ quiet' = 0
    BY <1>5 DEF Send
  <2>2. TimerTypes'
    BY <1>1, <1>3, <1>4, <2>1, PullNumbers DEF PullInv, TimerTypes
  <2>3. QuietOK'
    <3>1. Clip(1) \in Nat /\ FactEvery * 0 = 0
      BY PullNumbers DEF Clip
    <3> QED
      BY <2>1, <3>1 DEF QuietOK
  <2> QED
    BY <1>2, <2>2, <2>3 DEF PullInv
<1>6. CASE ~FactDue
  <2>1. /\ factAge' = CappedInc(factAge) /\ steps' = steps
        /\ quiet' = IF CarriesFacts THEN quiet + 1 ELSE quiet
    BY <1>6 DEF Send
  <2>2. factAge' \in Int /\ (factAge' <= Cap \/ factAge' = Never)
    BY <1>4, <2>1, PullNumbers DEF CappedInc
  <2>3. TimerTypes'
    BY <1>1, <1>3, <1>4, <2>1, <2>2, PullNumbers DEF PullInv, TimerTypes
  <2>4. FactEvery * steps \in Nat
    BY <1>4, PullNumbers
  <2>5. /\ Clip(factAge') >= Clip(factAge) /\ Clip(factAge) \in Nat /\ Clip(factAge') \in Nat
    BY <1>4, <2>1, PullNumbers DEF Clip, CappedInc
  <2>6. CASE CarriesFacts
    <3>1. factAge # Never /\ factAge >= 0 /\ factAge < FactEvery
      BY <1>6, <2>6 DEF FactDue, WithinFactInterval
    <3>2. Clip(factAge') = Clip(factAge) + 1
      BY <1>4, <2>1, <3>1, PullNumbers DEF Clip, CappedInc
    <3> QED
      BY <1>2, <1>4, <2>1, <2>3, <2>4, <2>5, <2>6, <3>2, PullNumbers DEF PullInv, QuietOK
  <2>7. CASE ~CarriesFacts
    BY <1>2, <1>4, <2>1, <2>3, <2>4, <2>5, <2>7, PullNumbers DEF PullInv, QuietOK
  <2> QED
    BY <2>6, <2>7
<1> QED
  BY <1>5, <1>6

\* The operator's changes.
LEMMA EditKeeps ==
  ASSUME PullInv, NEW change, Edit(change),
         change \in [policy : Nat, roots : RootLists \cup {None}, uplink : Uplinks, snap : Settings \cup {Unset}],
         change.policy <= edits + 1
  PROVE  PullInv'
<1>1. gw' = change /\ edits' = edits + 1 /\ edits < MaxEdits
  BY DEF Edit
<1>2. UNCHANGED <<policy, searchFile, snap, local, grant, age, factAge, quiet, steps, idleSnap, pullPc>>
  BY DEF Edit
<1>3. SettingTypes'
  BY <1>1, <1>2 DEF PullInv, SettingTypes
<1>4. TimerTypes'
  BY <1>1, <1>2, PullNumbers DEF PullInv, TimerTypes, SettingTypes
<1> QED
  BY <1>2, <1>3, <1>4 DEF PullInv, QuietOK

LEMMA EditsKeep == ASSUME PullInv, EditPolicy \/ EditRoots \/ EditUplink \/ EditSnap PROVE PullInv'
<1> DEFINE Gateways == [policy : Nat, roots : RootLists \cup {None}, uplink : Uplinks, snap : Settings \cup {Unset}]
<1>1. gw \in Gateways /\ gw.policy <= edits /\ edits \in Nat /\ gw.policy \in Nat
  BY PullNumbers DEF PullInv, SettingTypes, TimerTypes
<1>2. CASE EditPolicy
  <2> DEFINE q == [gw EXCEPT !.policy = @ + 1]
  <2>1. q \in Gateways /\ q.policy <= edits + 1
    BY <1>1
  <2> QED
    BY <1>2, <2>1, EditKeeps DEF EditPolicy
<1>3. CASE EditRoots
  <2>1. PICK r \in RootLists \cup {None} : Edit([gw EXCEPT !.roots = r])
    BY <1>3 DEF EditRoots
  <2>2. LET q == [gw EXCEPT !.roots = r] IN q \in Gateways /\ q.policy <= edits + 1
    BY <1>1
  <2> QED
    BY <2>1, <2>2, EditKeeps
<1>4. CASE EditUplink
  <2>1. PICK u \in Uplinks : Edit([gw EXCEPT !.uplink = u])
    BY <1>4 DEF EditUplink, Uplinks, Applied
  <2>2. LET q == [gw EXCEPT !.uplink = u] IN q \in Gateways /\ q.policy <= edits + 1
    BY <1>1
  <2> QED
    BY <2>1, <2>2, EditKeeps
<1>5. CASE EditSnap
  <2>1. PICK s \in Settings \cup {Unset} : Edit([gw EXCEPT !.snap = s])
    BY <1>5 DEF EditSnap, Settings
  <2>2. LET q == [gw EXCEPT !.snap = s] IN q \in Gateways /\ q.policy <= edits + 1
    BY <1>1
  <2> QED
    BY <2>1, <2>2, EditKeeps
<1> QED
  BY <1>2, <1>3, <1>4, <1>5

\* A step of the clock costs one interval.
LEMMA StepClockKeeps == PullInv /\ StepClock => PullInv'
<1> SUFFICES ASSUME PullInv, StepClock PROVE PullInv'
  OBVIOUS
<1>1. PICK back \in ClockSteps : factAge' = factAge - back
  BY DEF StepClock
<1>2. /\ factAge # Never /\ edits < MaxEdits /\ steps' = steps + 1 /\ edits' = edits + 1
      /\ UNCHANGED <<gw, policy, searchFile, snap, local, grant, age, quiet, idleSnap, pullPc>>
  BY DEF StepClock
<1>3. /\ factAge \in Int /\ factAge <= Cap /\ quiet \in Nat /\ steps \in Nat /\ edits \in Nat
      /\ gw.policy <= edits /\ policy <= edits /\ steps <= edits
      /\ quiet <= FactEvery * steps + Clip(factAge)
  BY <1>2, PullNumbers DEF PullInv, TimerTypes, QuietOK
<1>4. back \in Nat
  BY PullBounds
<1>5. factAge' \in Int /\ factAge' <= Cap
  BY <1>1, <1>3, <1>4, PullNumbers
<1>6. SettingTypes'
  BY <1>2 DEF PullInv, SettingTypes
<1>7. gw.policy \in Nat /\ policy \in Nat
  BY DEF PullInv, SettingTypes
<1>8. TimerTypes'
  BY <1>2, <1>3, <1>5, <1>7, PullNumbers DEF PullInv, TimerTypes
<1>9. QuietOK'
  <2>1. Clip(factAge) \in Nat /\ Clip(factAge) <= FactEvery /\ Clip(factAge') \in Nat
    BY <1>3, <1>5, PullNumbers DEF Clip
  <2>2. FactEvery * (steps + 1) = FactEvery * steps + FactEvery /\ FactEvery * steps \in Nat
    BY <1>3, PullNumbers
  <2> QED
    BY <1>2, <1>3, <2>1, <2>2, PullNumbers DEF QuietOK
<1> QED
  BY <1>6, <1>8, <1>9 DEF PullInv

LEMMA PullRestartKeeps == PullInv /\ PullRestart => PullInv'
<1> SUFFICES ASSUME PullInv, PullRestart PROVE PullInv'
  OBVIOUS
<1>1. /\ policy' = 0 /\ grant' = None /\ snap' = None /\ age' = [t \in Timers |-> Never]
      /\ idleSnap' = Never /\ pullPc' \in Pcs
      /\ UNCHANGED <<gw, searchFile, local, factAge, quiet, steps, edits>>
  BY DEF PullRestart, Pcs
<1>2. SettingTypes'
  BY <1>1 DEF PullInv, SettingTypes, Settings, Applied
<1>3. TimerTypes'
  BY <1>1, PullNumbers DEF PullInv, TimerTypes, Timers
<1> QED
  BY <1>1, <1>2, <1>3 DEF PullInv, QuietOK

LEMMA PullInvStep == PullInv /\ [PullNext]_pullVars => PullInv'
<1> SUFFICES ASSUME PullInv, [PullNext]_pullVars PROVE PullInv'
  OBVIOUS
<1>1. CASE UNCHANGED pullVars
  BY <1>1 DEF pullVars, PullInv, SettingTypes, TimerTypes, QuietOK
<1> QED
  BY <1>1, RefreshKeeps, SendKeeps, EditsKeep, StepClockKeeps, PullRestartKeeps DEF PullNext, PullTick

-----------------------------------------------------------------------------
(* The theorems.                                                           *)

RefreshInv == WorkInv /\ PullInv

LEMMA RefreshInvInit == RefreshInit => RefreshInv
  BY WorkInvInit, PullInvInit DEF RefreshInit, RefreshInv

LEMMA RefreshInvStep == RefreshInv /\ [RefreshNext]_refreshVars => RefreshInv'
<1> SUFFICES ASSUME RefreshInv, [RefreshNext]_refreshVars PROVE RefreshInv'
  OBVIOUS
<1>1. [WorkNext]_workVars /\ [PullNext]_pullVars
  BY DEF RefreshNext, refreshVars
<1> QED
  BY <1>1, WorkInvStep, PullInvStep DEF RefreshInv

LEMMA RefreshInvSafe == RefreshInv => PullsSafe
<1> SUFFICES ASSUME RefreshInv PROVE PullsSafe
  OBVIOUS
<1>1. WorkTypeOK
  BY DEF RefreshInv, WorkInv, CounterTypes, GrantTypes, Grants, WorkRecords, Versions, WorkTypeOK
<1>2. ViewCurrent /\ DriftVisible
  BY DEF RefreshInv, WorkInv, ViewOK, ViewCurrent
<1>3. PullTypeOK
  <2>1. policy \in 0..MaxEdits /\ steps \in 0..MaxEdits
    BY PullNumbers DEF RefreshInv, PullInv, TimerTypes, SettingTypes
  <2> QED
    BY <2>1 DEF RefreshInv, PullInv, TimerTypes, SettingTypes, Applied, PullTypeOK
<1>4. FactsNotSilent
  <2>1. /\ quiet \in Nat /\ steps \in Nat /\ factAge \in Int /\ quiet <= FactEvery * steps + Clip(factAge)
    BY DEF RefreshInv, PullInv, TimerTypes, QuietOK
  <2>2. Clip(factAge) \in Nat /\ Clip(factAge) <= FactEvery
    BY <2>1, PullNumbers DEF Clip
  <2>3. FactEvery * (1 + steps) = FactEvery * steps + FactEvery /\ FactEvery * steps \in Nat
    BY <2>1, PullNumbers
  <2> QED
    BY <2>1, <2>2, <2>3, PullNumbers DEF FactsNotSilent
<1> QED
  BY <1>1, <1>2, <1>3, <1>4 DEF PullsSafe

\* For every set of works and contents, every interval and any number of changes,
\* losses, crashes and clock steps: between two rounds work.json is what the daemon
\* holds, a version it cannot read is never acknowledged, and the fact summary is
\* never silent for longer than one interval per clock step (refresh_work_grant,
\* AppliedWorkGrant::restore, within_fact_report_min_interval).
THEOREM PullsSafeHolds == RefreshSpec => []PullsSafe
  BY RefreshInvInit, RefreshInvStep, RefreshInvSafe, PTL DEF RefreshSpec

\* A tick with an active output leaves a snapshot younger than the interval in force,
\* whatever the gateway set it to and however often the daemon was restarted
\* (discovery_snapshot_due).
THEOREM SnapshotPromptHolds == RefreshSpec => SnapshotPrompt
<1>1. RefreshInv /\ [RefreshNext]_refreshVars => [Send /\ SnapshotActive => idleSnap' <= EffectiveSnap(snap).interval]_pullVars
  <2> SUFFICES ASSUME RefreshInv, Send, SnapshotActive PROVE idleSnap' <= EffectiveSnap(snap).interval
    OBVIOUS
  <2>1. idleSnap \in 0..Cap \cup {Never} /\ idleSnap = age["sent"] /\ snap \in Settings
    BY DEF RefreshInv, PullInv, TimerTypes, SettingTypes, Timers
  <2>2. EffectiveSnap(snap).interval \in Nat /\ EffectiveSnap(snap).interval >= 1
    <3>1. CASE snap = None
      BY <3>1, PullNumbers DEF EffectiveSnap, LocalSnap, AtLeastMin
    <3>2. CASE snap # None
      <4>1. snap.interval \in Nat
        BY <2>1, <3>2, PullNumbers DEF Settings
      <4> QED
        BY <3>2, <4>1, PullNumbers DEF EffectiveSnap, AtLeastMin
    <3> QED
      BY <3>1, <3>2
  <2>3. CASE SnapshotDue
    <3>1. idleSnap' = 1
      BY <2>3 DEF Send
    <3> QED
      BY <2>2, <3>1
  <2>4. CASE ~SnapshotDue
    <3>1. idleSnap' = CappedInc(idleSnap) /\ idleSnap # Never /\ ~(idleSnap >= EffectiveSnap(snap).interval)
      BY <2>1, <2>4 DEF Send, SnapshotDue
    <3>2. idleSnap \in Nat /\ idleSnap' \in Int /\ idleSnap' <= idleSnap + 1
      BY <2>1, <3>1, PullNumbers DEF CappedInc
    <3> QED
      BY <2>2, <3>1, <3>2
  <2> QED
    BY <2>3, <2>4
<1> QED
  BY <1>1, RefreshInvInit, RefreshInvStep, PTL DEF RefreshSpec, SnapshotPrompt

=============================================================================
