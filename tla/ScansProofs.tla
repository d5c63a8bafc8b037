---------------------------- MODULE ScansProofs ----------------------------
(***************************************************************************)
(* Theorems about the investigations and the diagnosis (Scans.tla), and    *)
(* their proofs.                                                           *)
(*                                                                         *)
(* AnswerTrue rests on an invariant of each scan it speaks of: what the    *)
(* findings made so far are, for the accounts and the two host scans; and, *)
(* for the diagnosis, that a trouble that was there from the start has     *)
(* left a failed check once the group that looks for it is done.           *)
(*                                                                         *)
(* LoadChargedRight rests on what sums over finite sets are, and on an     *)
(* invariant that relates every meter to what the processes of its group   *)
(* used since the first reading.                                           *)
(*                                                                         *)
(* DiskReportTrue rests on an invariant of the walk: which directories     *)
(* were opened and which entries looked at, what of it the report has, and *)
(* how much of the budget is left for the directories that had no slice.   *)
(***************************************************************************)
EXTENDS Scans, SequenceLemmas, SequenceTheorems, TLAPS

-----------------------------------------------------------------------------
(* Counting findings.                                                      *)

\* Some finding has this status.
Has(fs, status) == \E k \in DOMAIN fs : fs[k].status = status

\* What is counted is there.
LEMMA CountsHas ==
  ASSUME NEW fs, NEW n \in Nat, DOMAIN fs = 1..n, NEW status
  PROVE  Count(fs, status) \in Nat /\ ((Count(fs, status) > 0) <=> Has(fs, status))
<1> DEFINE S == {k \in DOMAIN fs : fs[k].status = status}
<1>1. IsFiniteSet(1..n)
  BY FS_Interval
<1>2. S \subseteq 1..n
  OBVIOUS
<1>3. IsFiniteSet(S)
  BY <1>1, <1>2, FS_Subset
<1>4. Cardinality(S) \in Nat /\ (Cardinality(S) = 0 <=> S = {})
  BY <1>3, FS_CardinalityType, FS_EmptySet
<1>5. S # {} <=> Has(fs, status)
  BY DEF Has
<1> HIDE DEF S
<1>6. (Cardinality(S) > 0) <=> S # {}
  BY <1>4
<1> QED
  BY <1>4, <1>5, <1>6 DEF Count, S

\* What a report says of its findings: exit code and verdict.
LEMMA ReportSays ==
  ASSUME NEW fs, NEW n \in Nat, DOMAIN fs = 1..n, NEW t
  PROVE  /\ (ExitCode(fs) = 1) <=> Has(fs, "fail")
         /\ Judged(t) /\ Has(fs, "fail") => Verdict(t, fs) = "counts"
         /\ Judged(t) /\ (Has(fs, "fail") \/ Has(fs, "warn") \/ Has(fs, "unknown")) => Verdict(t, fs) # "all_ok"
<1>1. /\ Count(fs, "fail") \in Nat /\ Count(fs, "warn") \in Nat /\ Count(fs, "unknown") \in Nat
      /\ (Count(fs, "fail") > 0) <=> Has(fs, "fail")
      /\ (Count(fs, "warn") > 0) <=> Has(fs, "warn")
      /\ (Count(fs, "unknown") > 0) <=> Has(fs, "unknown")
  BY CountsHas
<1>2. (ExitCode(fs) = 1) <=> Has(fs, "fail")
  BY <1>1 DEF ExitCode
<1>3. Has(fs, "fail") => Overall(fs) = "fail"
  BY <1>1 DEF Overall
<1>4. Has(fs, "fail") \/ Has(fs, "warn") \/ Has(fs, "unknown") => Overall(fs) # "ok"
  BY <1>1 DEF Overall
<1> QED
  BY <1>2, <1>3, <1>4 DEF Verdict

-----------------------------------------------------------------------------
(* Lists of findings.                                                      *)

\* Some sequence; the members of a finding are not looked at.
IsList(fs) == \E S : fs \in Seq(S)

LEMMA ListDomain == ASSUME NEW fs, IsList(fs) PROVE Len(fs) \in Nat /\ DOMAIN fs = 1..Len(fs)
  BY DEF IsList

LEMMA NoneHas == IsList(<<>>) /\ \A status : ~Has(<<>>, status)
<1>1. <<>> \in Seq({})
  OBVIOUS
<1> QED
  BY <1>1 DEF IsList, Has

LEMMA OneHas ==
  ASSUME NEW x
  PROVE  IsList(<<x>>) /\ \A status : Has(<<x>>, status) <=> x.status = status
<1>1. <<x>> \in Seq({x})
  OBVIOUS
<1>2. DOMAIN <<x>> = {1} /\ <<x>>[1] = x
  OBVIOUS
<1>3. \A status : Has(<<x>>, status) <=> x.status = status
  BY <1>2 DEF Has
<1> QED
  BY <1>1, <1>3 DEF IsList

\* A status is in two lists together if it is in one of them.
LEMMA ConcatHas ==
  ASSUME NEW fs, IsList(fs), NEW gs, IsList(gs)
  PROVE  IsList(fs \o gs) /\ \A status : Has(fs \o gs, status) <=> Has(fs, status) \/ Has(gs, status)
<1>1. PICK S : fs \in Seq(S)
  BY DEF IsList
<1>2. PICK T : gs \in Seq(T)
  BY DEF IsList
<1> DEFINE R == S \cup T
           m == Len(fs)
           n == Len(gs)
           hs == fs \o gs
<1>3. fs \in Seq(R) /\ gs \in Seq(R)
  BY <1>1, <1>2
<1> HIDE DEF R
<1>4. hs \in Seq(R) /\ m \in Nat /\ n \in Nat /\ Len(hs) = m + n
  BY <1>3
<1>5. \A k \in 1..m : hs[k] = fs[k] /\ k \in 1..(m + n)
  BY <1>3
<1>6. \A k \in 1..n : hs[m + k] = gs[k] /\ m + k \in 1..(m + n)
  BY <1>3
<1>7. DOMAIN hs = 1..(m + n) /\ DOMAIN fs = 1..m /\ DOMAIN gs = 1..n
  BY <1>3, <1>4
<1>8. \A k \in 1..(m + n) : k \in 1..m \/ (k - m \in 1..n /\ k = m + (k - m))
  BY <1>4
<1> HIDE DEF m, n, hs
<1>9. ASSUME NEW status PROVE Has(hs, status) <=> Has(fs, status) \/ Has(gs, status)
  <2>1. Has(fs, status) => Has(hs, status)
    BY <1>5, <1>7 DEF Has
  <2>2. Has(gs, status) => Has(hs, status)
    BY <1>6, <1>7 DEF Has
  <2>3. ASSUME Has(hs, status) PROVE Has(fs, status) \/ Has(gs, status)
    <3>1. PICK k \in 1..(m + n) : hs[k].status = status
      BY <1>7, <2>3 DEF Has
    <3>2. CASE k \in 1..m
      BY <1>5, <1>7, <3>1, <3>2 DEF Has
    <3>3. CASE k - m \in 1..n /\ k = m + (k - m)
      <4>1. PICK j \in 1..n : k = m + j
        BY <3>3
      <4>2. gs[j].status = status
        BY <1>6, <3>1, <4>1
      <4> QED
        BY <1>7, <4>2 DEF Has
    <3> QED
      BY <1>8, <3>2, <3>3
  <2> QED
    BY <2>1, <2>2, <2>3
<1> QED
  BY <1>4, <1>9 DEF IsList, hs

LEMMA AppendHas ==
  ASSUME NEW fs, IsList(fs), NEW x
  PROVE  IsList(Append(fs, x)) /\ \A status : Has(Append(fs, x), status) <=> Has(fs, status) \/ x.status = status
<1>1. PICK S : fs \in Seq(S)
  BY DEF IsList
<1> DEFINE R == S \cup {x}
<1>2. fs \in Seq(R) /\ x \in R
  BY <1>1
<1> HIDE DEF R
<1>3. Append(fs, x) = fs \o <<x>>
  BY <1>2
<1> QED
  BY <1>3, OneHas, ConcatHas

LEMMA TwoHas ==
  ASSUME NEW x, NEW y
  PROVE  IsList(<<x, y>>) /\ \A status : Has(<<x, y>>, status) <=> x.status = status \/ y.status = status
<1>1. <<x, y>> \in Seq({x, y})
  OBVIOUS
<1>2. DOMAIN <<x, y>> = {1, 2} /\ <<x, y>>[1] = x /\ <<x, y>>[2] = y
  OBVIOUS
<1>3. \A status : Has(<<x, y>>, status) <=> x.status = status \/ y.status = status
  BY <1>2 DEF Has
<1> QED
  BY <1>1, <1>3 DEF IsList

LEMMA ThreeHas ==
  ASSUME NEW x, NEW y, NEW z
  PROVE  /\ IsList(<<x, y, z>>)
         /\ \A status : Has(<<x, y, z>>, status) <=> x.status = status \/ y.status = status \/ z.status = status
<1>1. <<x, y, z>> \in Seq({x, y, z})
  OBVIOUS
<1>2. DOMAIN <<x, y, z>> = {1, 2, 3} /\ <<x, y, z>>[1] = x /\ <<x, y, z>>[2] = y /\ <<x, y, z>>[3] = z
  OBVIOUS
<1>3. \A status : Has(<<x, y, z>>, status) <=> x.status = status \/ y.status = status \/ z.status = status
  BY <1>2 DEF Has
<1> QED
  BY <1>1, <1>3 DEF IsList

\* Not all findings are good.
Shaky(fs) == Has(fs, "fail") \/ Has(fs, "warn") \/ Has(fs, "unknown")

LEMMA FindingStatus ==
  /\ \A id, status, rows : Finding(id, status, rows).status = status
  /\ \A id, status, rows, tally, top : Covered(Finding(id, status, rows), tally, top).status = status
  BY DEF Finding, Covered

-----------------------------------------------------------------------------
(* The accounts.                                                           *)

\* What the password files must not hold, where they could be read.
OpenAccounts ==
  \/ acct.passwd = "ok" /\ RootAliases # {}
  \/ /\ acct.passwd = "ok" /\ acct.shadow.state = "ok"
     /\ \E u \in Accounts : LoginShell(u) /\ u.name \in DOMAIN acct.shadow.fields /\ acct.shadow.fields[u.name] = ""

\* A password file or shadow file that was not read, or that lets anybody in, is told.
LEMMA PasswordsTell ==
  /\ acct.passwd # "ok" \/ acct.shadow.state # "ok" => PasswordsFinding.status = "unknown"
  /\ OpenAccounts => UidsFinding.status = "fail" \/ PasswordsFinding.status = "fail"
<1>1. acct.passwd # "ok" \/ acct.shadow.state # "ok" => PasswordsFinding.status = "unknown"
  BY FindingStatus DEF PasswordsFinding
<1>2. acct.passwd = "ok" /\ RootAliases # {} => UidsFinding.status = "fail"
  BY FindingStatus DEF UidsFinding
<1>3. ASSUME acct.passwd = "ok", acct.shadow.state = "ok",
             \E u \in Accounts : LoginShell(u) /\ u.name \in DOMAIN acct.shadow.fields /\ acct.shadow.fields[u.name] = ""
      PROVE  PasswordsFinding.status = "fail"
  <2> DEFINE logins == {u \in Accounts : LoginShell(u)}
             empty == {u \in logins : PasswordKind(u) = "none"}
             source == IF acct.passwd # "ok" THEN acct.passwd ELSE acct.shadow.state
             status == CASE source # "ok" -> "unknown" [] source = "ok" /\ empty # {} -> "fail" [] OTHER -> "ok"
             rows == IF source = "ok" THEN Cardinality(logins) ELSE 0
  <2>1. PICK u \in Accounts : LoginShell(u) /\ u.name \in DOMAIN acct.shadow.fields /\ acct.shadow.fields[u.name] = ""
    BY <1>3
  <2>2. PasswordKind(u) = "none"
    BY <2>1 DEF PasswordKind, ClassifyPassword
  <2>3. empty # {}
    BY <2>1, <2>2
  <2>4. source = "ok"
    BY <1>3
  <2>5. PasswordsFinding = Covered(Finding("passwords", status, rows), TallyRead(NoTally, source), AccountTop)
    BY DEF PasswordsFinding
  <2> HIDE DEF empty, source, rows
  <2>6. status = "fail"
    BY <2>3, <2>4
  <2> HIDE DEF status
  <2> QED
    BY <2>5, <2>6, FindingStatus
<1> QED
  BY <1>1, <1>2, <1>3 DEF OpenAccounts

\* What the findings made so far say of the host, and what is known of sshd while its main
\* file cannot be read.
AccountsInv ==
  /\ apc \in {"start", "sudoers", "expand", "keys", "sshd", "done"}
  /\ IsList(acctFindings)
  /\ apc # "start" =>
       /\ acct.passwd # "ok" \/ acct.shadow.state # "ok" => Has(acctFindings, "unknown")
       /\ OpenAccounts => Has(acctFindings, "fail")
  /\ apc \in {"keys", "sshd", "done"} /\ SudoFile(SudoMain).state = "denied" => Has(acctFindings, "unknown")
  /\ apc = "expand" => SudoFile(SudoMain).state = "ok"
  /\ SshdFile(SshdMain).state = "denied" =>
       /\ apc = "done" => Has(acctFindings, "unknown")
       /\ sshValues = <<>>
       /\ sshFrames = <<>> \/ sshFrames = <<[file |-> SshdMain, at |-> 0, depth |-> 0]>>

LEMMA AccountsInvInit == AccountsInit => AccountsInv
  BY NoneHas DEF AccountsInit, AccountsInv

\* What is found of the host does not change.
LEMMA AccountsStay ==
  ASSUME acct' = acct
  PROVE  OpenAccounts' = OpenAccounts /\ SudoFile(SudoMain)' = SudoFile(SudoMain) /\ SshdFile(SshdMain)' = SshdFile(SshdMain)
  BY DEF OpenAccounts, RootAliases, Accounts, SudoFile, SshdFile

\* One more finding: what was said stays said.
LEMMA SaysMore ==
  ASSUME IsList(acctFindings), NEW x, acctFindings' = Append(acctFindings, x)
  PROVE  IsList(acctFindings)' /\ \A status : Has(acctFindings, status)' <=> Has(acctFindings, status) \/ x.status = status
<1>1. /\ IsList(acctFindings')
      /\ \A status : Has(acctFindings', status) <=> Has(acctFindings, status) \/ x.status = status
  BY AppendHas
<1> QED
  BY <1>1 DEF IsList, Has

LEMMA SaysSame ==
  ASSUME acctFindings' = acctFindings, IsList(acctFindings)
  PROVE  IsList(acctFindings)' /\ \A status : Has(acctFindings, status)' <=> Has(acctFindings, status)
  BY DEF IsList, Has

\* sshd without a value that is in force, and its main file there, is unknown.
LEMMA SshUnknown ==
  ASSUME SshdFile(SshdMain).state = "denied", sshValues = <<>>
  PROVE  SshFinding.status = "unknown"
<1> DEFINE status == CASE DOMAIN sshValues = {} -> "unknown"
                    [] DOMAIN sshValues # {} /\ Lookup("permitemptypasswords", "no") = "yes" -> "fail"
                    [] DOMAIN sshValues # {} /\ Lookup("permitemptypasswords", "no") # "yes"
                          /\ Lookup("permitrootlogin", "prohibit-password") = "yes" -> "warn"
                    [] OTHER -> "ok"
           tally == FoldSet(LAMBDA f, t : TallyRead(t, SshdFile(f).state), NoTally, sshSeen)
           rows == IF status = "unknown" THEN 0 ELSE 4
<1>1. SshFinding = Covered(Finding("ssh", status, rows), tally, AccountTop)
  BY DEF SshFinding
<1>2. DOMAIN sshValues = {}
  OBVIOUS
<1>3. status = "unknown"
  BY <1>2
<1> HIDE DEF status, tally, rows
<1> QED
  BY <1>1, <1>3, FindingStatus

LEMMA AccountsInvStep == AccountsInv /\ AccountsNext => AccountsInv'
<1> SUFFICES ASSUME AccountsInv, AccountsNext PROVE AccountsInv'
  OBVIOUS
<1>0. acct' = acct
  BY DEF AccountsNext, StartAccounts, StartSudoers, ExpandInclude, ExpandDir, SudoersDone, ListKeys, OpenSshdFile, ReadSshdLine, SshdDone
<1>s. OpenAccounts' = OpenAccounts /\ SudoFile(SudoMain)' = SudoFile(SudoMain) /\ SshdFile(SshdMain)' = SshdFile(SshdMain)
  BY <1>0, AccountsStay
<1>l. IsList(acctFindings)
  BY DEF AccountsInv
<1>1. CASE StartAccounts
  <2>1. apc' = "sudoers" /\ acctFindings' = <<UidsFinding, PasswordsFinding>> /\ UNCHANGED <<sshFrames, sshValues>>
    BY <1>1 DEF StartAccounts, sshVars
  <2>2. /\ IsList(acctFindings')
        /\ \A status : Has(acctFindings', status) <=> UidsFinding.status = status \/ PasswordsFinding.status = status
    BY <2>1, TwoHas
  <2>3. /\ acct.passwd # "ok" \/ acct.shadow.state # "ok" => Has(acctFindings', "unknown")
        /\ OpenAccounts => Has(acctFindings', "fail")
    BY <2>2, PasswordsTell
  <2> QED
    BY <1>0, <1>s, <2>1, <2>2, <2>3 DEF AccountsInv, IsList, Has
<1>2. CASE StartSudoers
  <2>1. apc = "sudoers" /\ UNCHANGED <<sshFrames, sshValues>>
    BY <1>2 DEF StartSudoers, sshVars
  <2>2. CASE SudoFile(SudoMain).state = "ok"
    <3>1. apc' = "expand" /\ acctFindings' = acctFindings
      BY <1>2, <2>2 DEF StartSudoers
    <3>2. IsList(acctFindings)' /\ \A status : Has(acctFindings, status)' <=> Has(acctFindings, status)
      BY <1>l, <3>1, SaysSame
    <3> QED
      BY <1>0, <1>s, <2>1, <2>2, <3>1, <3>2 DEF AccountsInv
  <2>3. CASE SudoFile(SudoMain).state # "ok"
    <3>1. PICK x : acctFindings' = Append(acctFindings, x) /\ (SudoFile(SudoMain).state = "denied" => x.status = "unknown") /\ apc' = "keys"
      BY <1>2, <2>3, FindingStatus DEF StartSudoers
    <3>2. IsList(acctFindings)' /\ \A status : Has(acctFindings, status)' <=> Has(acctFindings, status) \/ x.status = status
      BY <1>l, <3>1, SaysMore
    <3> QED
      BY <1>0, <1>s, <2>1, <3>1, <3>2 DEF AccountsInv
  <2> QED
    BY <2>2, <2>3
<1>3. CASE ExpandInclude \/ ExpandDir
  <2>1. apc = "expand" /\ UNCHANGED <<apc, acctFindings, sshFrames, sshValues>>
    BY <1>3 DEF ExpandInclude, ExpandDir, sshVars
  <2>2. IsList(acctFindings)' /\ \A status : Has(acctFindings, status)' <=> Has(acctFindings, status)
    BY <1>l, <2>1, SaysSame
  <2> QED
    BY <1>0, <1>s, <2>1, <2>2 DEF AccountsInv
<1>4. CASE SudoersDone
  <2>1. /\ apc = "expand" /\ apc' = "keys" /\ acctFindings' = Append(acctFindings, SudoersFinding)
        /\ UNCHANGED <<sshFrames, sshValues>>
    BY <1>4 DEF SudoersDone, sshVars
  <2>2. IsList(acctFindings)' /\ \A status : Has(acctFindings, status)' <=> Has(acctFindings, status) \/ SudoersFinding.status = status
    BY <1>l, <2>1, SaysMore
  <2> QED
    BY <1>0, <1>s, <2>1, <2>2 DEF AccountsInv
<1>5. CASE ListKeys
  <2>1. /\ apc = "keys" /\ apc' = "sshd" /\ acctFindings' = Append(acctFindings, KeysFinding) /\ UNCHANGED sshValues
        /\ sshFrames' = <<>> \/ sshFrames' = <<[file |-> SshdMain, at |-> 0, depth |-> 0]>>
    BY <1>5 DEF ListKeys
  <2>2. IsList(acctFindings)' /\ \A status : Has(acctFindings, status)' <=> Has(acctFindings, status) \/ KeysFinding.status = status
    BY <1>l, <2>1, SaysMore
  <2> QED
    BY <1>0, <1>s, <2>1, <2>2 DEF AccountsInv
<1>6. CASE OpenSshdFile
  <2>1. apc = "sshd" /\ sshFrames # <<>> /\ UNCHANGED <<apc, acctFindings, sshValues>>
    BY <1>6 DEF OpenSshdFile
  <2>2. ASSUME SshdFile(SshdMain).state = "denied" PROVE sshFrames' = <<>>
    <3>1. sshFrames = <<[file |-> SshdMain, at |-> 0, depth |-> 0]>>
      BY <2>1, <2>2 DEF AccountsInv
    <3>2. Head(sshFrames).file = SshdMain /\ Tail(sshFrames) = <<>>
      BY <3>1
    <3> QED
      BY <1>6, <2>2, <3>2 DEF OpenSshdFile
  <2>3. IsList(acctFindings)' /\ \A status : Has(acctFindings, status)' <=> Has(acctFindings, status)
    BY <1>l, <2>1, SaysSame
  <2> QED
    BY <1>0, <1>s, <2>1, <2>2, <2>3 DEF AccountsInv
<1>7. CASE ReadSshdLine
  <2>1. apc = "sshd" /\ sshFrames # <<>> /\ Head(sshFrames).at > 0 /\ UNCHANGED <<apc, acctFindings>>
    BY <1>7 DEF ReadSshdLine
  <2>2. SshdFile(SshdMain).state # "denied"
    <3>1. sshFrames = <<[file |-> SshdMain, at |-> 0, depth |-> 0]>> => Head(sshFrames).at = 0
      OBVIOUS
    <3> QED
      BY <2>1, <3>1 DEF AccountsInv
  <2>3. IsList(acctFindings)' /\ \A status : Has(acctFindings, status)' <=> Has(acctFindings, status)
    BY <1>l, <2>1, SaysSame
  <2> QED
    BY <1>0, <1>s, <2>1, <2>2, <2>3 DEF AccountsInv
<1>8. CASE SshdDone
  <2>1. apc = "sshd" /\ apc' = "done" /\ acctFindings' = Append(acctFindings, SshFinding) /\ UNCHANGED <<sshFrames, sshValues>>
    BY <1>8 DEF SshdDone, sshVars
  <2>2. IsList(acctFindings)' /\ \A status : Has(acctFindings, status)' <=> Has(acctFindings, status) \/ SshFinding.status = status
    BY <1>l, <2>1, SaysMore
  <2>3. SshdFile(SshdMain).state = "denied" => SshFinding.status = "unknown"
    BY SshUnknown DEF AccountsInv
  <2> QED
    BY <1>0, <1>s, <2>1, <2>2, <2>3 DEF AccountsInv
<1> QED
  BY <1>1, <1>2, <1>3, <1>4, <1>5, <1>6, <1>7, <1>8 DEF AccountsNext

-----------------------------------------------------------------------------
(* The host: what starts by itself, and the health of the logs.            *)

Healths == {"ok", "unknown", "warn", "fail"}

\* The worst of several statuses: a failure is never hidden, and one that is not good shows.
LEMMA WorstShows ==
  ASSUME NEW S, S \subseteq Healths
  PROVE  /\ WorstHealth(S) \in Healths
         /\ "fail" \in S => WorstHealth(S) = "fail"
         /\ \A s \in S : s # "ok" => WorstHealth(S) # "ok"
<1> DEFINE T == S \cup {"ok"}
           Top(s) == \A t \in T : HealthRank[s] >= HealthRank[t]
<1>1. HealthRank["ok"] = 0 /\ HealthRank["unknown"] = 1 /\ HealthRank["warn"] = 2 /\ HealthRank["fail"] = 3
  BY DEF HealthRank
<1>2. T \subseteq Healths /\ "ok" \in T
  BY DEF Healths
<1>3. \E s \in T : Top(s)
  <2>1. CASE "fail" \in T
    BY <1>1, <1>2, <2>1 DEF Healths
  <2>2. CASE "fail" \notin T /\ "warn" \in T
    BY <1>1, <1>2, <2>2 DEF Healths
  <2>3. CASE "fail" \notin T /\ "warn" \notin T /\ "unknown" \in T
    BY <1>1, <1>2, <2>3 DEF Healths
  <2>4. CASE "fail" \notin T /\ "warn" \notin T /\ "unknown" \notin T
    BY <1>1, <1>2, <2>4 DEF Healths
  <2> QED
    BY <2>1, <2>2, <2>3, <2>4
<1>4. WorstHealth(S) = CHOOSE s \in T : Top(s)
  BY DEF WorstHealth
<1>5. WorstHealth(S) \in T /\ Top(WorstHealth(S))
  BY <1>3, <1>4
<1>6. ASSUME "fail" \in S PROVE WorstHealth(S) = "fail"
  <2>1. HealthRank[WorstHealth(S)] >= 3
    BY <1>1, <1>5, <1>6
  <2>2. WorstHealth(S) \in {"ok", "unknown", "warn", "fail"}
    BY <1>2, <1>5 DEF Healths
  <2> HIDE DEF T, Top
  <2> QED
    BY <1>1, <2>1, <2>2
<1>7. ASSUME NEW s \in S, s # "ok" PROVE WorstHealth(S) # "ok"
  <2>1. s \in T /\ s \in {"unknown", "warn", "fail"}
    BY <1>2, <1>7 DEF Healths
  <2>2. HealthRank[s] > 0
    BY <1>1, <2>1
  <2>3. HealthRank[WorstHealth(S)] >= HealthRank[s]
    BY <1>5, <2>1
  <2>4. HealthRank[s] \in Nat
    BY <1>1, <2>1
  <2> HIDE DEF T, Top
  <2> QED
    BY <1>1, <2>2, <2>3, <2>4
<1> QED
  BY <1>2, <1>5, <1>6, <1>7

\* What is told of one input.
LEMMA InputTold ==
  ASSUME NEW i, i.age \in Int, i.spool \in Int
  PROVE  /\ SourceStatus(i) \in Healths /\ BacklogOf(i) \in Healths
         /\ i.checkpoint # "ok" => SourceStatus(i) = "unknown"
         /\ i.plainId /\ i.checkpoint = "ok" /\ i.age >= SilenceFail => SourceStatus(i) = "fail"
         /\ i.spool >= SpoolMax => BacklogOf(i) = "fail"
<1> DEFINE files == IF i.files = 0 THEN "unknown" ELSE "ok"
           S == {SilenceOf(i), PresenceOf(i), files}
<1>0. SilenceWarn \in Nat /\ SilenceFail \in Nat /\ SilenceWarn <= SilenceFail /\ SpoolMax \in Nat \ {0}
  BY HostAssumption
<1>1. SilenceOf(i) \in Healths
  BY DEF SilenceOf, Healths
<1>2. PresenceOf(i) \in Healths /\ files \in Healths
  BY DEF PresenceOf, Healths
<1>3. i.age >= SilenceFail => SilenceOf(i) = "fail"
  BY <1>0 DEF SilenceOf
<1>4. BacklogOf(i) \in Healths
  BY DEF BacklogOf, Healths
<1>5. i.spool >= SpoolMax => BacklogOf(i) = "fail"
  BY <1>0 DEF BacklogOf
<1>6. SourceStatus(i) = IF ~i.plainId \/ i.checkpoint # "ok" THEN "unknown" ELSE WorstHealth(S)
  BY DEF SourceStatus
<1>7. S \subseteq Healths /\ SilenceOf(i) \in S
  BY <1>1, <1>2
<1> HIDE DEF S, files
<1>8. WorstHealth(S) \in Healths /\ ("fail" \in S => WorstHealth(S) = "fail")
  BY <1>7, WorstShows
<1>9. "unknown" \in Healths
  BY DEF Healths
<1> QED
  BY <1>3, <1>4, <1>5, <1>6, <1>7, <1>8, <1>9

\* Sources without which nothing is known of the logs, and inputs that fail.
LogsUnread(f) == f.config # "ok" \/ f.work # "ok" \/ f.inputs = {} \/ \E i \in f.inputs : i.checkpoint # "ok"
LogsFail(f) ==
  /\ f.config = "ok" /\ f.work = "ok"
  /\ \E i \in f.inputs : i.plainId /\ ((i.checkpoint = "ok" /\ i.age >= SilenceFail) \/ i.spool >= SpoolMax)

LEMMA TelemetryTells ==
  ASSUME NEW f \in TelemetryHosts
  PROVE  /\ IsList(TelemetryFindings(f))
         /\ LogsUnread(f) => Shaky(TelemetryFindings(f))
         /\ LogsFail(f) => Has(TelemetryFindings(f), "fail")
<1>0. \A i \in f.inputs : i.age \in Int /\ i.spool \in Int
  BY HostAssumption
<1>1. CASE f.config # "ok" \/ f.work # "ok" \/ f.inputs = {}
  <2>1. TelemetryFindings(f) = <<Finding("sources", "unknown", 0)>>
    BY <1>1 DEF TelemetryFindings
  <2>2. IsList(TelemetryFindings(f)) /\ Has(TelemetryFindings(f), "unknown")
    BY <2>1, OneHas, FindingStatus
  <2>3. ~LogsFail(f)
    BY <1>1 DEF LogsFail
  <2> QED
    BY <2>2, <2>3 DEF Shaky
<1>2. CASE ~(f.config # "ok" \/ f.work # "ok" \/ f.inputs = {})
  <2> DEFINE S == {SourceStatus(i) : i \in f.inputs}
             plain == {i \in f.inputs : i.plainId}
             B == {BacklogOf(i) : i \in plain}
             fs == TelemetryFindings(f)
  <2>1. fs = <<SourcesFinding(f), BacklogFinding(f), PipelineFinding(f)>>
    BY <1>2 DEF TelemetryFindings
  <2>2. IsList(fs) /\ \A status : SourcesFinding(f).status = status \/ BacklogFinding(f).status = status => Has(fs, status)
    BY <2>1, ThreeHas
  <2>3. SourcesFinding(f).status = WorstHealth(S) /\ BacklogFinding(f).status = WorstHealth(B)
    BY FindingStatus DEF SourcesFinding, BacklogFinding
  <2>4. S \subseteq Healths /\ B \subseteq Healths
    BY <1>0, InputTold
  <2>5. LogsUnread(f) => \E i \in f.inputs : SourceStatus(i) # "ok"
    BY <1>0, <1>2, InputTold DEF LogsUnread
  <2>6. LogsFail(f) => \E i \in f.inputs : SourceStatus(i) = "fail" \/ (i \in plain /\ BacklogOf(i) = "fail")
    BY <1>0, InputTold DEF LogsFail
  <2>7. LogsUnread(f) => \E s \in S : s # "ok"
    BY <2>5
  <2>8. LogsFail(f) => "fail" \in S \/ "fail" \in B
    BY <2>6
  <2> HIDE DEF S, B, fs
  <2>9. LogsUnread(f) => WorstHealth(S) \in Healths /\ WorstHealth(S) # "ok"
    BY <2>4, <2>7, WorstShows
  <2>10. LogsUnread(f) => Shaky(fs)
    BY <2>2, <2>3, <2>9 DEF Shaky, Healths
  <2>11. LogsFail(f) => WorstHealth(S) = "fail" \/ WorstHealth(B) = "fail"
    BY <2>4, <2>8, WorstShows
  <2> QED
    BY <2>2, <2>3, <2>10, <2>11 DEF fs
<1> QED
  BY <1>1, <1>2

\* Units that cannot be listed, and libraries every process loads.
LEMMA PersistenceTells ==
  ASSUME NEW f \in PersistenceHosts
  PROVE  /\ f.unitsDir = "denied" => UnitsFinding(f).status = "unknown"
         /\ f.preload.state = "ok" /\ f.preload.libs > 0 => HooksFinding(f).status = "fail"
<1>1. f.preload.libs \in Nat
  BY HostAssumption
<1>2. f.unitsDir = "denied" => UnitsFinding(f).status = "unknown"
  BY FindingStatus DEF UnitsFinding
<1>3. f.preload.state = "ok" /\ f.preload.libs > 0 => PreloadLibs(f) > 0
  BY DEF PreloadLibs
<1>4. ASSUME PreloadLibs(f) > 0 PROVE HooksFinding(f).status = "fail"
  <2> DEFINE status == CASE PreloadLibs(f) > 0 -> "fail"
                         [] PreloadLibs(f) = 0 /\ RecentHooks(f) # {} -> "warn"
                         [] OTHER -> "ok"
             rows == (IF PreloadLibs(f) > HostTop THEN HostTop ELSE PreloadLibs(f))
                     + (IF f.rcLocal.state # "absent" THEN 1 ELSE 0)
                     + (IF f.profile.state = "ok" /\ f.profile.files # {} THEN 1 ELSE 0)
             tally == TallyAll({f.profile} \cup (IF f.preload.state # "absent" THEN {f.preload} ELSE {}))
  <2>1. HooksFinding(f) = Covered(Finding("hooks", status, rows), tally, HostTop)
    BY DEF HooksFinding
  <2>2. PreloadLibs(f) \in Nat
    BY <1>1 DEF PreloadLibs
  <2>3. status = "fail"
    BY <1>4, <2>2
  <2> HIDE DEF status, rows, tally
  <2> QED
    BY <2>1, <2>3, FindingStatus
<1> QED
  BY <1>2, <1>3, <1>4

\* The findings of the two judged host scans, on a host the program may meet.
HostInv ==
  /\ htopic \in {"persistence", "telemetry-health"} /\ IsList(hostFindings)
  /\ htopic = "persistence" =>
       /\ hpc \in {"start", "scheduled", "hooks", "done"} /\ hfacts \in PersistenceHosts
       /\ hpc # "start" /\ hfacts.unitsDir = "denied" => Has(hostFindings, "unknown")
       /\ hpc = "done" /\ hfacts.preload.state = "ok" /\ hfacts.preload.libs > 0 => Has(hostFindings, "fail")
  /\ htopic = "telemetry-health" =>
       /\ hpc \in {"start", "done"} /\ hfacts \in TelemetryHosts
       /\ hpc = "done" => (LogsUnread(hfacts) => Shaky(hostFindings)) /\ (LogsFail(hfacts) => Has(hostFindings, "fail"))

LEMMA HostInvInit == HostInit /\ htopic \in {"persistence", "telemetry-health"} => HostInv
  BY NoneHas DEF HostInit, HostInv

LEMMA HostInvStep == HostInv /\ HostNext => HostInv'
<1> SUFFICES ASSUME HostInv, HostNext PROVE HostInv'
  OBVIOUS
<1>0. htopic' = htopic /\ hfacts' = hfacts
  BY DEF HostNext, ListUnits, ListScheduled, ListHooks, ListListeners, CheckTelemetry
<1>l. IsList(hostFindings)
  BY DEF HostInv
<1>1. CASE ListUnits
  <2>1. htopic = "persistence" /\ hpc' = "scheduled" /\ hostFindings' = <<UnitsFinding(hfacts)>> /\ hfacts \in PersistenceHosts
    BY <1>1 DEF ListUnits, HostInv
  <2>2. IsList(hostFindings') /\ \A status : Has(hostFindings', status) <=> UnitsFinding(hfacts).status = status
    BY <2>1, OneHas
  <2>3. hfacts.unitsDir = "denied" => Has(hostFindings', "unknown")
    BY <2>1, <2>2, PersistenceTells
  <2> QED
    BY <1>0, <2>1, <2>2, <2>3 DEF HostInv, IsList, Has
<1>2. CASE ListScheduled
  <2>1. /\ htopic = "persistence" /\ hpc = "scheduled" /\ hpc' = "hooks"
        /\ hostFindings' = Append(hostFindings, ScheduledFinding(hfacts))
    BY <1>2 DEF ListScheduled, HostInv
  <2>2. IsList(hostFindings') /\ \A status : Has(hostFindings, status) => Has(hostFindings', status)
    BY <1>l, <2>1, AppendHas
  <2>3. hfacts.unitsDir = "denied" => Has(hostFindings', "unknown")
    BY <2>1, <2>2 DEF HostInv
  <2>4. hfacts \in PersistenceHosts
    BY <2>1 DEF HostInv
  <2> QED
    BY <1>0, <2>1, <2>2, <2>3, <2>4 DEF HostInv, IsList, Has
<1>3. CASE ListHooks
  <2> DEFINE more == <<HooksFinding(hfacts), RecentFinding(recent')>>
  <2>1. htopic = "persistence" /\ hpc = "hooks" /\ hpc' = "done" /\ hostFindings' = hostFindings \o more /\ hfacts \in PersistenceHosts
    BY <1>3 DEF ListHooks, HostInv
  <2>2. IsList(more) /\ \A status : Has(more, status) <=> HooksFinding(hfacts).status = status \/ RecentFinding(recent').status = status
    BY TwoHas
  <2> HIDE DEF more
  <2>3. IsList(hostFindings') /\ \A status : Has(hostFindings', status) <=> Has(hostFindings, status) \/ Has(more, status)
    BY <1>l, <2>1, <2>2, ConcatHas
  <2>4. hfacts.unitsDir = "denied" => Has(hostFindings', "unknown")
    BY <2>1, <2>3 DEF HostInv
  <2>5. hfacts.preload.state = "ok" /\ hfacts.preload.libs > 0 => Has(hostFindings', "fail")
    BY <2>1, <2>2, <2>3, PersistenceTells
  <2> QED
    BY <1>0, <2>1, <2>3, <2>4, <2>5 DEF HostInv, IsList, Has
<1>4. CASE ListListeners
  BY <1>4 DEF ListListeners, HostInv
<1>5. CASE CheckTelemetry
  <2>1. htopic = "telemetry-health" /\ hpc' = "done" /\ hostFindings' = TelemetryFindings(hfacts) /\ hfacts \in TelemetryHosts
    BY <1>5 DEF CheckTelemetry, HostInv
  <2>2. /\ IsList(hostFindings') /\ (LogsUnread(hfacts) => Shaky(hostFindings'))
        /\ (LogsFail(hfacts) => Has(hostFindings', "fail"))
    BY <2>1, TelemetryTells
  <2>3. LogsUnread(hfacts)' = LogsUnread(hfacts) /\ LogsFail(hfacts)' = LogsFail(hfacts)
    BY <1>0 DEF LogsUnread, LogsFail
  <2> QED
    BY <1>0, <2>1, <2>2, <2>3 DEF HostInv, IsList, Has, Shaky
<1> QED
  BY <1>1, <1>2, <1>3, <1>4, <1>5 DEF HostNext

-----------------------------------------------------------------------------
(* The diagnosis.                                                          *)

\* What the troubles of a machine are, one by one.
LEMMA TroublesAre ==
  ASSUME NEW m
  PROVE  /\ ("config" \in Troubles(m)) <=> m.config # "ok"
         /\ ("unregistered" \in Troubles(m)) <=> m.identity # "registered"
         /\ ("terminal" \in Troubles(m)) <=> m.terminal = "set" /\ m.identity # "broken"
         /\ ("expired" \in Troubles(m)) <=> m.cert = "expired" /\ m.identity # "broken"
         /\ ("stopped" \in Troubles(m)) <=> m.service = "stopped"
         /\ ("paths" \in Troubles(m)) <=> m.paths = "bad"
         /\ ("upgrader" \in Troubles(m)) <=> m.upgrade = "running" /\ m.beat = "stale"
         /\ ("upgrade" \in Troubles(m)) <=> m.upgrade = "failed"
         /\ ("network" \in Troubles(m)) <=> m.control \in {"ok", "off"} /\ ~(m.dns /\ m.tcp)
         /\ ("gateway" \in Troubles(m)) <=>
               /\ m.control \in {"ok", "off"} /\ m.identity = "registered"
               /\ m.uplink \in {"rejected", "failed"} \/ (m.tls = "https" /\ m.certName = "other")
         /\ ("target" \in Troubles(m)) <=> m.target # "ok"
         /\ ("inputs" \in Troubles(m)) <=> m.inputs = "bad" /\ m.work = "active"
         /\ ("endpoint" \in Troubles(m)) <=> m.control \in {"bad", "noendpoint"}
         /\ ("binary" \in Troubles(m)) <=> ~m.agentBin /\ m.service \in {"running", "stopped"}
         /\ Troubles(m) \subseteq {"config", "unregistered", "terminal", "expired", "stopped", "paths", "upgrader", "upgrade",
                                   "network", "gateway", "target", "inputs", "endpoint", "binary"}
  BY DEF Troubles

LEMMA CheckStatus == \A id, status : Check(id, status).status = status
  BY DEF Check

\* Each group of checks fails on the troubles it looks for, and on no sound machine.
LEMMA LoadTells ==
  /\ IsList(LoadConfig) /\ (Has(LoadConfig, "fail") <=> "config" \in Troubles(mach))
  /\ LET fs == StateIdentity \o <<Check("config.file", "ok")>> IN IsList(fs) /\ ~Has(fs, "fail")
<1>1. IsList(LoadConfig) /\ (Has(LoadConfig, "fail") <=> mach.config # "ok")
  BY NoneHas, OneHas, CheckStatus DEF LoadConfig
<1>2. IsList(StateIdentity) /\ ~Has(StateIdentity, "fail")
  BY NoneHas, OneHas, CheckStatus DEF StateIdentity
<1> DEFINE file == <<Check("config.file", "ok")>>
<1>3. IsList(file) /\ ~Has(file, "fail")
  BY OneHas, CheckStatus
<1> HIDE DEF file
<1>4. IsList(StateIdentity \o file) /\ ~Has(StateIdentity \o file, "fail")
  BY <1>2, <1>3, ConcatHas
<1>5. "config" \in Troubles(mach) <=> mach.config # "ok"
  BY TroublesAre
<1> QED
  BY <1>1, <1>4, <1>5 DEF file

LEMMA ConfigTells ==
  LET fs == ControlPlaneChecks \o PathChecks
  IN  IsList(fs) /\ (Has(fs, "fail") <=> {"endpoint", "paths"} \cap Troubles(mach) # {})
<1>1. IsList(PathChecks) /\ (Has(PathChecks, "fail") <=> mach.paths = "bad")
  BY OneHas, CheckStatus DEF PathChecks, ProbeWritable
<1>2. IsList(ControlPlaneChecks) /\ (Has(ControlPlaneChecks, "fail") <=> mach.control \in {"bad", "noendpoint"})
  <2>1. CASE mach.control = "off"
    <3>1. ControlPlaneChecks = <<Check("config.control_plane", "warn")>>
      BY <2>1 DEF ControlPlaneChecks
    <3> QED
      BY <2>1, <3>1, OneHas, CheckStatus
  <2>2. CASE mach.control = "noendpoint"
    <3>1. ControlPlaneChecks = <<Check("config.control_plane", "fail")>>
      BY <2>2 DEF ControlPlaneChecks
    <3> QED
      BY <2>2, <3>1, OneHas, CheckStatus
  <2>3. CASE mach.control # "off" /\ mach.control # "noendpoint"
    <3> DEFINE plane == IF mach.control = "bad" THEN "fail" ELSE "ok"
               tls == IF mach.tls = "none" THEN "warn" ELSE "ok"
    <3>1. ControlPlaneChecks = <<Check("config.control_plane", plane), Check("config.tls", tls)>>
      BY <2>3 DEF ControlPlaneChecks
    <3>2. plane = "fail" <=> mach.control = "bad"
      OBVIOUS
    <3>3. tls # "fail"
      OBVIOUS
    <3> HIDE DEF plane, tls
    <3>4. IsList(ControlPlaneChecks) /\ (Has(ControlPlaneChecks, "fail") <=> plane = "fail" \/ tls = "fail")
      BY <3>1, TwoHas, CheckStatus
    <3> QED
      BY <2>3, <3>2, <3>3, <3>4
  <2> QED
    BY <2>1, <2>2, <2>3
<1>3. "endpoint" \in Troubles(mach) <=> mach.control \in {"bad", "noendpoint"}
  BY TroublesAre
<1>4. "paths" \in Troubles(mach) <=> mach.paths = "bad"
  BY TroublesAre
<1>5. /\ IsList(ControlPlaneChecks \o PathChecks)
      /\ Has(ControlPlaneChecks \o PathChecks, "fail") <=> Has(ControlPlaneChecks, "fail") \/ Has(PathChecks, "fail")
  BY <1>1, <1>2, ConcatHas
<1> QED
  BY <1>1, <1>2, <1>3, <1>4, <1>5

LEMMA FourHas ==
  ASSUME NEW w, NEW x, NEW y, NEW z
  PROVE  /\ IsList(<<w, x, y, z>>)
         /\ \A status : Has(<<w, x, y, z>>, status) <=> w.status = status \/ x.status = status \/ y.status = status \/ z.status = status
<1>1. <<w, x, y, z>> \in Seq({w, x, y, z})
  OBVIOUS
<1>2. DOMAIN <<w, x, y, z>> = {1, 2, 3, 4} /\ <<w, x, y, z>>[1] = w /\ <<w, x, y, z>>[2] = x /\ <<w, x, y, z>>[3] = y /\ <<w, x, y, z>>[4] = z
  OBVIOUS
<1>3. \A status : Has(<<w, x, y, z>>, status) <=> w.status = status \/ x.status = status \/ y.status = status \/ z.status = status
  BY <1>2 DEF Has
<1> QED
  BY <1>1, <1>3 DEF IsList

LEMMA IdentityTells ==
  IsList(IdentityChecks) /\ (Has(IdentityChecks, "fail") <=> {"unregistered", "terminal", "expired"} \cap Troubles(mach) # {})
<1>1. /\ "unregistered" \in Troubles(mach) <=> mach.identity # "registered"
      /\ "terminal" \in Troubles(mach) <=> mach.terminal = "set" /\ mach.identity # "broken"
      /\ "expired" \in Troubles(mach) <=> mach.cert = "expired" /\ mach.identity # "broken"
  BY TroublesAre
<1>2. CASE mach.identity = "broken"
  <2>1. IdentityChecks = <<Check("identity.state", "fail")>>
    BY <1>2 DEF IdentityChecks
  <2>2. IsList(IdentityChecks) /\ Has(IdentityChecks, "fail")
    BY <2>1, OneHas, CheckStatus
  <2> QED
    BY <1>1, <1>2, <2>2
<1>3. CASE mach.identity # "broken"
  <2> DEFINE agent == IF mach.identity = "registered" THEN "ok" ELSE "fail"
  <2>1. IdentityChecks = <<Check("identity.agent", agent), CredentialCheck, CertificateCheck, AuthTerminalCheck>>
    BY <1>3 DEF IdentityChecks
  <2>2. agent = "fail" <=> mach.identity # "registered"
    OBVIOUS
  <2>3. CredentialCheck.status # "fail"
    BY CheckStatus DEF CredentialCheck
  <2>4. CertificateCheck.status = "fail" <=> mach.cert = "expired"
    BY CheckStatus DEF CertificateCheck
  <2>5. AuthTerminalCheck.status = "fail" <=> mach.terminal = "set"
    BY CheckStatus DEF AuthTerminalCheck
  <2> HIDE DEF agent
  <2>6. /\ IsList(IdentityChecks)
        /\ Has(IdentityChecks, "fail") <=> agent = "fail" \/ CredentialCheck.status = "fail" \/ CertificateCheck.status = "fail"
                                           \/ AuthTerminalCheck.status = "fail"
    BY <2>1, FourHas, CheckStatus
  <2> QED
    BY <1>1, <1>3, <2>2, <2>3, <2>4, <2>5, <2>6
<1> QED
  BY <1>2, <1>3

LEMMA ServiceTells ==
  LET fs == ServiceChecks \o ExporterToolChecks \o LogSourceCheck
  IN  IsList(fs) /\ (Has(fs, "fail") <=> {"stopped", "binary"} \cap Troubles(mach) # {})
<1> DEFINE definition == CASE mach.service = "running" -> "ok"
                           [] mach.service = "stopped" -> "fail"
                           [] mach.service = "none" /\ mach.held -> "ok"
                           [] OTHER -> "warn"
           binary == IF mach.service \notin {"running", "stopped"} \/ (mach.agentBin /\ mach.exec) THEN <<>>
                     ELSE <<Check("service.binary", IF mach.agentBin THEN "warn" ELSE "fail")>>
           head == <<Check(IF mach.service = "unsupported" THEN "service.platform" ELSE "service.definition", definition)>>
<1>1. "stopped" \in Troubles(mach) <=> mach.service = "stopped"
  BY TroublesAre
<1>2. "binary" \in Troubles(mach) <=> ~mach.agentBin /\ mach.service \in {"running", "stopped"}
  BY TroublesAre
<1>3. definition = "fail" <=> mach.service = "stopped"
  OBVIOUS
<1>4. IsList(binary) /\ (Has(binary, "fail") <=> ~mach.agentBin /\ mach.service \in {"running", "stopped"})
  <2>1. CASE mach.service \notin {"running", "stopped"} \/ (mach.agentBin /\ mach.exec)
    <3>1. binary = <<>>
      BY <2>1
    <3> QED
      BY <2>1, <3>1, NoneHas
  <2>2. CASE ~(mach.service \notin {"running", "stopped"} \/ (mach.agentBin /\ mach.exec))
    <3>1. binary = <<Check("service.binary", IF mach.agentBin THEN "warn" ELSE "fail")>>
      BY <2>2
    <3>2. IsList(binary) /\ (Has(binary, "fail") <=> (IF mach.agentBin THEN "warn" ELSE "fail") = "fail")
      BY <3>1, OneHas, CheckStatus
    <3> QED
      BY <2>2, <3>2
  <2> QED
    BY <2>1, <2>2
<1>5. ServiceChecks = head \o binary \o BinaryChecks
  BY DEF ServiceChecks
<1> HIDE DEF definition, binary
<1>6. IsList(head) /\ (Has(head, "fail") <=> definition = "fail")
  BY OneHas, CheckStatus
<1> HIDE DEF head
<1>7. IsList(BinaryChecks) /\ ~Has(BinaryChecks, "fail")
  <2> DEFINE one == IF mach.exec THEN "ok" ELSE "warn"
             two == IF mach.upgrader = "same" THEN "ok" ELSE "warn"
  <2>1. one # "fail" /\ two # "fail"
    OBVIOUS
  <2>2. BinaryChecks = <<Check("version.tools", one), Check("version.tools", two)>>
    BY DEF BinaryChecks
  <2> HIDE DEF one, two
  <2> QED
    BY <2>1, <2>2, TwoHas, CheckStatus
<1>8. IsList(head \o binary) /\ (Has(head \o binary, "fail") <=> Has(head, "fail") \/ Has(binary, "fail"))
  BY <1>4, <1>6, ConcatHas
<1>9. IsList(ServiceChecks) /\ (Has(ServiceChecks, "fail") <=> Has(head \o binary, "fail") \/ Has(BinaryChecks, "fail"))
  BY <1>5, <1>7, <1>8, ConcatHas
<1>10. IsList(ExporterToolChecks) /\ ~Has(ExporterToolChecks, "fail")
  BY NoneHas, OneHas, CheckStatus DEF ExporterToolChecks
<1>11. IsList(LogSourceCheck) /\ ~Has(LogSourceCheck, "fail")
  BY OneHas, CheckStatus DEF LogSourceCheck
<1>12. /\ IsList(ServiceChecks \o ExporterToolChecks)
       /\ Has(ServiceChecks \o ExporterToolChecks, "fail") <=> Has(ServiceChecks, "fail") \/ Has(ExporterToolChecks, "fail")
  BY <1>9, <1>10, ConcatHas
<1>13. /\ IsList(ServiceChecks \o ExporterToolChecks \o LogSourceCheck)
       /\ Has(ServiceChecks \o ExporterToolChecks \o LogSourceCheck, "fail")
            <=> Has(ServiceChecks \o ExporterToolChecks, "fail") \/ Has(LogSourceCheck, "fail")
  BY <1>11, <1>12, ConcatHas
<1>14. Has(ServiceChecks \o ExporterToolChecks \o LogSourceCheck, "fail") <=> definition = "fail" \/ Has(binary, "fail")
  BY <1>6, <1>7, <1>8, <1>9, <1>10, <1>11, <1>12, <1>13
<1> QED
  BY <1>1, <1>2, <1>3, <1>4, <1>13, <1>14

\* What a probe may find is known.
Sound(m) == \A f \in DOMAIN Probed : f \in DOMAIN m /\ m[f] \in Probed[f]

LEMMA SoundMeans ==
  ASSUME NEW m, Sound(m)
  PROVE  /\ m.uplink \in {"granted", "standby", "undispatched", "rejected", "failed"}
         /\ m.certName \in {"covers", "other", "unread", "garbled"}
  BY DEF Sound, Probed

LEMMA NetworkTells ==
  ASSUME Sound(mach)
  PROVE  /\ IsList(NetworkChecks)
         /\ Has(NetworkChecks, "fail") => Troubles(mach) # {}
         /\ {"network", "gateway"} \cap Troubles(mach) # {} => Has(NetworkChecks, "fail")
<1>1. /\ "network" \in Troubles(mach) <=> HasTarget /\ ~(mach.dns /\ mach.tcp)
      /\ "gateway" \in Troubles(mach) <=>
            /\ HasTarget /\ mach.identity = "registered"
            /\ mach.uplink \in {"rejected", "failed"} \/ (mach.tls = "https" /\ mach.certName = "other")
      /\ "unregistered" \in Troubles(mach) <=> mach.identity # "registered"
  BY TroublesAre DEF HasTarget
<1>2. CASE ~HasTarget
  <2>1. NetworkChecks = <<>>
    BY <1>2 DEF NetworkChecks
  <2> QED
    BY <1>1, <1>2, <2>1, NoneHas
<1>3. CASE HasTarget /\ ~mach.dns
  <2>1. NetworkChecks = <<Check("network.dns", "fail")>>
    BY <1>3 DEF NetworkChecks
  <2>2. IsList(NetworkChecks) /\ Has(NetworkChecks, "fail")
    BY <2>1, OneHas, CheckStatus
  <2> QED
    BY <1>1, <1>3, <2>2
<1>4. CASE HasTarget /\ mach.dns /\ ~mach.tcp
  <2>1. NetworkChecks = <<Check("network.dns", "ok"), Check("network.tcp", "fail")>>
    BY <1>4 DEF NetworkChecks
  <2>2. IsList(NetworkChecks) /\ Has(NetworkChecks, "fail")
    BY <2>1, TwoHas, CheckStatus
  <2> QED
    BY <1>1, <1>4, <2>2
<1>5. CASE HasTarget /\ mach.dns /\ mach.tcp
  <2> DEFINE way == <<Check("network.dns", "ok"), Check("network.tcp", "ok")>>
             probe == <<ClassifyControlPlaneProbe(Fetch)>>
  <2>1. NetworkChecks = way \o TlsCertificateCheck \o probe
    BY <1>5 DEF NetworkChecks
  <2>2. IsList(way) /\ ~Has(way, "fail")
    BY TwoHas, CheckStatus
  <2>3. IsList(TlsCertificateCheck) /\ (Has(TlsCertificateCheck, "fail") <=> mach.tls = "https" /\ mach.certName = "other")
    <3>0. mach.certName \in {"covers", "other", "unread", "garbled"}
      BY SoundMeans
    <3>1. CASE ~Presented
      <4>1. TlsCertificateCheck = <<>>
        BY <3>1 DEF TlsCertificateCheck
      <4> QED
        BY <3>1, <4>1, NoneHas DEF Presented
    <3>2. CASE Presented /\ mach.certName = "garbled"
      <4>1. TlsCertificateCheck = <<Check("network.tls_cert", "warn")>>
        BY <3>2 DEF TlsCertificateCheck
      <4> QED
        BY <3>2, <4>1, OneHas, CheckStatus
    <3>3. CASE Presented /\ mach.certName # "garbled"
      <4>1. TlsCertificateCheck = <<ClassifyPresentedCertificate>>
        BY <3>3 DEF TlsCertificateCheck
      <4>2. ClassifyPresentedCertificate.status = "fail" <=> mach.certName # "covers"
        BY CheckStatus DEF ClassifyPresentedCertificate
      <4> QED
        BY <3>0, <3>3, <4>1, <4>2, OneHas DEF Presented
    <3> QED
      BY <3>1, <3>2, <3>3
  <2>4. IsList(probe) /\ (Has(probe, "fail") <=> mach.identity = "registered" /\ mach.uplink \in {"rejected", "failed"})
    <3>1. mach.uplink \in {"granted", "standby", "undispatched", "rejected", "failed"}
      BY SoundMeans
    <3>2. ClassifyControlPlaneProbe(Fetch).status = "fail" <=> Fetch \notin {"granted", "standby", "undispatched"}
      BY CheckStatus DEF ClassifyControlPlaneProbe
    <3>3. Fetch \notin {"granted", "standby", "undispatched"} <=> mach.identity = "registered" /\ mach.uplink \in {"rejected", "failed"}
      BY <3>1 DEF Fetch
    <3> QED
      BY <3>2, <3>3, OneHas
  <2> HIDE DEF way, probe
  <2>5. IsList(way \o TlsCertificateCheck) /\ (Has(way \o TlsCertificateCheck, "fail") <=> Has(way, "fail") \/ Has(TlsCertificateCheck, "fail"))
    BY <2>2, <2>3, ConcatHas
  <2>6. IsList(NetworkChecks) /\ (Has(NetworkChecks, "fail") <=> Has(way \o TlsCertificateCheck, "fail") \/ Has(probe, "fail"))
    BY <2>1, <2>4, <2>5, ConcatHas
  <2>7. Has(NetworkChecks, "fail") <=> (mach.tls = "https" /\ mach.certName = "other")
                                       \/ (mach.identity = "registered" /\ mach.uplink \in {"rejected", "failed"})
    BY <2>2, <2>3, <2>4, <2>5, <2>6
  <2>8. Has(NetworkChecks, "fail") => "gateway" \in Troubles(mach) \/ "unregistered" \in Troubles(mach)
    BY <1>1, <1>5, <2>7
  <2>9. "network" \notin Troubles(mach) /\ ("gateway" \in Troubles(mach) => Has(NetworkChecks, "fail"))
    BY <1>1, <1>5, <2>7
  <2> QED
    BY <2>6, <2>8, <2>9
<1> QED
  BY <1>2, <1>3, <1>4, <1>5

LocalChecks == UplinkEffective \o SnapshotUplinkCheck \o LogInputsCheck \o SpoolCheck \o LocalWorkCheck

LEMMA LocalTells ==
  /\ IsList(LocalChecks)
  /\ Has(LocalChecks, "fail") => "inputs" \in Troubles(mach)
  /\ dgrant = "granted" /\ "inputs" \in Troubles(mach) => Has(LocalChecks, "fail")
<1>1. "inputs" \in Troubles(mach) <=> mach.inputs = "bad" /\ mach.work = "active"
  BY TroublesAre
<1>2. IsList(UplinkEffective) /\ ~Has(UplinkEffective, "fail")
  BY OneHas, CheckStatus DEF UplinkEffective
<1>3. IsList(SnapshotUplinkCheck) /\ ~Has(SnapshotUplinkCheck, "fail")
  <2> DEFINE on == IF mach.snapGrant = "none" THEN mach.snapLocal ELSE mach.snapGrant = "on"
             status == IF on /\ OutputUnder(dgrant).enabled /\ OutputUnder(dgrant).kind = "tcp" THEN "ok" ELSE "warn"
  <2>1. SnapshotUplinkCheck = <<Check("discovery.snapshot_uplink", status)>>
    BY DEF SnapshotUplinkCheck
  <2>2. status # "fail"
    OBVIOUS
  <2> HIDE DEF status
  <2> QED
    BY <2>1, <2>2, OneHas, CheckStatus
<1>4. IsList(LogInputsCheck) /\ (Has(LogInputsCheck, "fail") <=> OutputUnder(dgrant).enabled /\ mach.work = "active" /\ mach.inputs = "bad")
  <2> DEFINE bad == OutputUnder(dgrant).enabled /\ mach.work = "active" /\ mach.inputs = "bad"
             status == IF bad THEN "fail" ELSE "ok"
  <2>1. LogInputsCheck = <<Check("telemetry.inputs", status)>>
    BY DEF LogInputsCheck
  <2>2. status = "fail" <=> bad
    OBVIOUS
  <2> HIDE DEF status
  <2> QED
    BY <2>1, <2>2, OneHas, CheckStatus
<1>5. IsList(SpoolCheck) /\ ~Has(SpoolCheck, "fail") /\ IsList(LocalWorkCheck) /\ ~Has(LocalWorkCheck, "fail")
  BY OneHas, CheckStatus DEF SpoolCheck, LocalWorkCheck
<1>6. dgrant = "granted" => OutputUnder(dgrant).enabled
  BY DEF OutputUnder
<1> DEFINE two == UplinkEffective \o SnapshotUplinkCheck
           three == two \o LogInputsCheck
           four == three \o SpoolCheck
<1>7. IsList(two) /\ (Has(two, "fail") <=> Has(UplinkEffective, "fail") \/ Has(SnapshotUplinkCheck, "fail"))
  BY <1>2, <1>3, ConcatHas
<1> HIDE DEF two
<1>8. IsList(three) /\ (Has(three, "fail") <=> Has(two, "fail") \/ Has(LogInputsCheck, "fail"))
  BY <1>4, <1>7, ConcatHas
<1> HIDE DEF three
<1>9. IsList(four) /\ (Has(four, "fail") <=> Has(three, "fail") \/ Has(SpoolCheck, "fail"))
  BY <1>5, <1>8, ConcatHas
<1> HIDE DEF four
<1>10. IsList(four \o LocalWorkCheck) /\ (Has(four \o LocalWorkCheck, "fail") <=> Has(four, "fail") \/ Has(LocalWorkCheck, "fail"))
  BY <1>5, <1>9, ConcatHas
<1>11. LocalChecks = four \o LocalWorkCheck
  BY DEF LocalChecks, four, three, two
<1> QED
  BY <1>1, <1>2, <1>3, <1>4, <1>5, <1>6, <1>7, <1>8, <1>9, <1>10, <1>11

LEMMA TargetTells ==
  /\ IsList(UplinkTargetCheck)
  /\ Has(UplinkTargetCheck, "fail") => "target" \in Troubles(mach)
  /\ dgrant = "granted" /\ "target" \in Troubles(mach) => Has(UplinkTargetCheck, "fail")
<1> DEFINE status == IF mach.target = "ok" THEN "ok" ELSE "fail"
           sends == OutputUnder(dgrant).enabled /\ OutputUnder(dgrant).kind = "tcp"
<1>1. "target" \in Troubles(mach) <=> mach.target # "ok"
  BY TroublesAre
<1>2. status = "fail" <=> mach.target # "ok"
  OBVIOUS
<1>3. UplinkTargetCheck = IF ~sends THEN <<>> ELSE <<Check("uplink.target", status)>>
  BY DEF UplinkTargetCheck
<1>4. dgrant = "granted" => sends
  BY DEF OutputUnder
<1> HIDE DEF status, sends
<1>5. CASE ~sends
  BY <1>1, <1>3, <1>4, <1>5, NoneHas
<1>6. CASE sends
  <2>1. UplinkTargetCheck = <<Check("uplink.target", status)>>
    BY <1>3, <1>6
  <2>2. IsList(UplinkTargetCheck) /\ (Has(UplinkTargetCheck, "fail") <=> status = "fail")
    BY <2>1, OneHas, CheckStatus
  <2> QED
    BY <1>1, <1>2, <2>2
<1> QED
  BY <1>5, <1>6

LEMMA UpgradeTells ==
  IsList(LocalUpgradeCheck) /\ (Has(LocalUpgradeCheck, "fail") <=> {"upgrader", "upgrade"} \cap Troubles(mach) # {})
<1> DEFINE status == CASE mach.upgrade \in {"none", "succeeded"} \/ (mach.upgrade = "running" /\ mach.beat = "fresh") -> "ok"
                       [] mach.upgrade = "failed" \/ (mach.upgrade = "running" /\ mach.beat = "stale") -> "fail"
                       [] OTHER -> "warn"
<1>1. /\ "upgrader" \in Troubles(mach) <=> mach.upgrade = "running" /\ mach.beat = "stale"
      /\ "upgrade" \in Troubles(mach) <=> mach.upgrade = "failed"
  BY TroublesAre
<1>2. LocalUpgradeCheck = <<Check("upgrade.local", status)>>
  BY DEF LocalUpgradeCheck
<1>3. status = "fail" <=> mach.upgrade = "failed" \/ (mach.upgrade = "running" /\ mach.beat = "stale")
  OBVIOUS
<1> HIDE DEF status
<1>4. IsList(LocalUpgradeCheck) /\ (Has(LocalUpgradeCheck, "fail") <=> status = "fail")
  BY <1>2, OneHas, CheckStatus
<1> QED
  BY <1>1, <1>3, <1>4

\* A trouble that has been there from the start, once the group that looks for it is done.
Overlooked ==
  \/ "config" \in since /\ dstep # "load"
  \/ {"endpoint", "paths"} \cap since # {} /\ dstep \notin {"load", "config"}
  \/ {"unregistered", "terminal", "expired"} \cap since # {} /\ dstep \notin {"load", "config", "identity"}
  \/ {"stopped", "binary"} \cap since # {} /\ dstep \notin {"load", "config", "identity", "service"}
  \/ ~offline /\ {"network", "gateway"} \cap since # {} /\ dstep \notin {"load", "config", "identity", "service", "network"}
  \/ dgrant = "granted" /\ "inputs" \in since /\ dstep \in {"target", "upgrade", "done"}
  \/ dgrant = "granted" /\ "target" \in since /\ dstep \in {"upgrade", "done"}
  \/ {"upgrader", "upgrade"} \cap since # {} /\ dstep = "done"

DoctorInv ==
  /\ dstep \in {"load", "config", "identity", "service", "network", "local", "target", "upgrade", "done"}
  /\ IsList(dchecks) /\ Sound(mach)
  /\ since \subseteq Troubles(mach) /\ Troubles(mach) \subseteq ever
  /\ Has(dchecks, "fail") => ever # {}
  /\ dgrant = "granted" => ~offline
  /\ Overlooked => Has(dchecks, "fail")

LEMMA DoctorInvInit == DoctorInit => DoctorInv
<1> SUFFICES ASSUME DoctorInit PROVE DoctorInv
  OBVIOUS
<1>1. Sound(mach)
  BY ProbedAssumption DEF DoctorInit, Sound
<1>2. IsList(dchecks) /\ ~Has(dchecks, "fail")
  BY NoneHas DEF DoctorInit
<1>3. ~Overlooked
  BY DEF DoctorInit, Overlooked
<1> QED
  BY <1>1, <1>2, <1>3 DEF DoctorInit, DoctorInv

\* A group reports: nothing is forgotten, and nothing is found that is not there.
LEMMA GroupReports ==
  ASSUME DoctorInv, NEW checks, NEW next, Report(checks, next), IsList(checks),
         Has(checks, "fail") => Troubles(mach) # {},
         next \in {"config", "identity", "service", "network", "local", "target", "upgrade", "done"},
         dgrant' = "granted" => ~offline,
         Overlooked' => Overlooked \/ Has(checks, "fail")
  PROVE  DoctorInv'
<1>1. dchecks' = dchecks \o checks /\ dstep' = next /\ UNCHANGED <<offline, mach, since, ever>>
  BY DEF Report
<1>2. IsList(dchecks') /\ (Has(dchecks', "fail") <=> Has(dchecks, "fail") \/ Has(checks, "fail"))
  BY <1>1, ConcatHas DEF DoctorInv
<1>3. Sound(mach)' /\ Troubles(mach)' = Troubles(mach)
  BY <1>1 DEF DoctorInv, Sound, Troubles
<1>4. IsList(dchecks)' /\ (Has(dchecks, "fail")' <=> Has(dchecks, "fail") \/ Has(checks, "fail"))
  BY <1>2 DEF IsList, Has
<1>5. (Has(dchecks, "fail") => ever # {})'
  BY <1>1, <1>4 DEF DoctorInv
<1>6. (Overlooked => Has(dchecks, "fail"))'
  BY <1>4 DEF DoctorInv
<1> QED
  BY <1>1, <1>3, <1>4, <1>5, <1>6 DEF DoctorInv

LEMMA DoctorInvStep == DoctorInv /\ DoctorNext => DoctorInv'
<1> SUFFICES ASSUME DoctorInv, DoctorNext PROVE DoctorInv'
  OBVIOUS
<1>0. since \subseteq Troubles(mach)
  BY DEF DoctorInv
<1>g. dgrant = "granted" => ~offline
  BY DEF DoctorInv
<1>1. CASE DoLoad
  <2>1. dstep = "load" /\ dgrant' = dgrant
    BY <1>1 DEF DoLoad
  <2>t. "config" \in Troubles(mach) <=> mach.config # "ok"
    BY TroublesAre
  <2>2. CASE mach.config = "ok"
    <3> DEFINE fs == StateIdentity \o <<Check("config.file", "ok")>>
    <3>1. Report(fs, "config")
      BY <1>1, <2>2 DEF DoLoad
    <3>2. IsList(fs) /\ ~Has(fs, "fail")
      BY LoadTells
    <3> HIDE DEF fs
    <3>3. ~Overlooked'
      BY <1>0, <2>t, <2>2, <3>1 DEF Overlooked, Report
    <3> QED
      BY <1>g, <2>1, <3>1, <3>2, <3>3, GroupReports
  <2>3. CASE mach.config # "ok"
    <3>1. Report(LoadConfig, "done")
      BY <1>1, <2>3 DEF DoLoad
    <3>2. IsList(LoadConfig) /\ Has(LoadConfig, "fail") /\ Troubles(mach) # {}
      BY <2>t, <2>3, LoadTells
    <3> QED
      BY <1>g, <2>1, <3>1, <3>2, GroupReports
  <2> QED
    BY <2>2, <2>3
<1>2. CASE DoConfig
  <2> DEFINE fs == ControlPlaneChecks \o PathChecks
  <2>1. dstep = "config" /\ dgrant' = dgrant /\ Report(fs, "identity")
    BY <1>2 DEF DoConfig
  <2>2. IsList(fs) /\ (Has(fs, "fail") <=> {"endpoint", "paths"} \cap Troubles(mach) # {})
    BY ConfigTells
  <2> HIDE DEF fs
  <2>3. Overlooked' => Overlooked \/ Has(fs, "fail")
    BY <1>0, <2>1, <2>2 DEF Overlooked, Report
  <2> QED
    BY <1>g, <2>1, <2>2, <2>3, GroupReports
<1>3. CASE DoIdentity
  <2>1. dstep = "identity" /\ dgrant' = dgrant /\ Report(IdentityChecks, "service")
    BY <1>3 DEF DoIdentity
  <2>2. IsList(IdentityChecks) /\ (Has(IdentityChecks, "fail") <=> {"unregistered", "terminal", "expired"} \cap Troubles(mach) # {})
    BY IdentityTells
  <2>3. Overlooked' => Overlooked \/ Has(IdentityChecks, "fail")
    BY <1>0, <2>1, <2>2 DEF Overlooked, Report
  <2> QED
    BY <1>g, <2>1, <2>2, <2>3, GroupReports
<1>4. CASE DoService
  <2> DEFINE fs == ServiceChecks \o ExporterToolChecks \o LogSourceCheck
  <2>1. dstep = "service" /\ dgrant' = dgrant /\ Report(fs, "network")
    BY <1>4 DEF DoService
  <2>2. IsList(fs) /\ (Has(fs, "fail") <=> {"stopped", "binary"} \cap Troubles(mach) # {})
    BY ServiceTells
  <2> HIDE DEF fs
  <2>3. Overlooked' => Overlooked \/ Has(fs, "fail")
    BY <1>0, <2>1, <2>2 DEF Overlooked, Report
  <2> QED
    BY <1>g, <2>1, <2>2, <2>3, GroupReports
<1>5. CASE DoNetwork
  <2>1. dstep = "network"
    BY <1>5 DEF DoNetwork
  <2>2. CASE offline
    <3> DEFINE fs == <<Check("network.skipped", "warn")>>
    <3>1. dgrant' = "none" /\ Report(fs, "local")
      BY <1>5, <2>2 DEF DoNetwork
    <3>2. IsList(fs) /\ ~Has(fs, "fail")
      BY OneHas, CheckStatus
    <3> HIDE DEF fs
    <3>3. Overlooked' => Overlooked
      BY <2>1, <2>2, <3>1 DEF Overlooked, Report
    <3> QED
      BY <3>1, <3>2, <3>3, GroupReports
  <2>3. CASE ~offline
    <3>1. Report(NetworkChecks, "local")
      BY <1>5, <2>3 DEF DoNetwork
    <3>2. /\ IsList(NetworkChecks) /\ (Has(NetworkChecks, "fail") => Troubles(mach) # {})
          /\ {"network", "gateway"} \cap Troubles(mach) # {} => Has(NetworkChecks, "fail")
      BY NetworkTells DEF DoctorInv
    <3>3. Overlooked' => Overlooked \/ Has(NetworkChecks, "fail")
      BY <1>0, <2>1, <3>1, <3>2 DEF Overlooked, Report
    <3> QED
      BY <2>3, <3>1, <3>2, <3>3, GroupReports
  <2> QED
    BY <2>2, <2>3
<1>6. CASE DoLocal
  <2> DEFINE next == IF offline THEN "upgrade" ELSE "target"
  <2>1. dstep = "local" /\ dgrant' = dgrant /\ Report(LocalChecks, next)
    BY <1>6 DEF DoLocal, LocalChecks
  <2>2. /\ IsList(LocalChecks) /\ (Has(LocalChecks, "fail") => "inputs" \in Troubles(mach))
        /\ dgrant = "granted" /\ "inputs" \in Troubles(mach) => Has(LocalChecks, "fail")
    BY LocalTells
  <2>3. next \in {"upgrade", "target"} /\ (next = "upgrade" => offline)
    OBVIOUS
  <2> HIDE DEF next
  <2>4. Overlooked' => Overlooked \/ Has(LocalChecks, "fail")
    BY <1>0, <1>g, <2>1, <2>2, <2>3 DEF Overlooked, Report
  <2>5. Has(LocalChecks, "fail") => Troubles(mach) # {}
    BY <2>2
  <2> QED
    BY <1>g, <2>1, <2>2, <2>3, <2>4, <2>5, GroupReports
<1>7. CASE DoTarget
  <2>1. dstep = "target" /\ dgrant' = dgrant /\ Report(UplinkTargetCheck, "upgrade")
    BY <1>7 DEF DoTarget
  <2>2. /\ IsList(UplinkTargetCheck) /\ (Has(UplinkTargetCheck, "fail") => "target" \in Troubles(mach))
        /\ dgrant = "granted" /\ "target" \in Troubles(mach) => Has(UplinkTargetCheck, "fail")
    BY TargetTells
  <2>3. Overlooked' => Overlooked \/ Has(UplinkTargetCheck, "fail")
    BY <1>0, <2>1, <2>2 DEF Overlooked, Report
  <2>4. Has(UplinkTargetCheck, "fail") => Troubles(mach) # {}
    BY <2>2
  <2> QED
    BY <1>g, <2>1, <2>2, <2>3, <2>4, GroupReports
<1>8. CASE DoUpgrade
  <2>1. dstep = "upgrade" /\ dgrant' = dgrant /\ Report(LocalUpgradeCheck, "done")
    BY <1>8 DEF DoUpgrade
  <2>2. IsList(LocalUpgradeCheck) /\ (Has(LocalUpgradeCheck, "fail") <=> {"upgrader", "upgrade"} \cap Troubles(mach) # {})
    BY UpgradeTells
  <2>3. Overlooked' => Overlooked \/ Has(LocalUpgradeCheck, "fail")
    BY <1>0, <2>1, <2>2 DEF Overlooked, Report
  <2> QED
    BY <1>g, <2>1, <2>2, <2>3, GroupReports
<1>9. CASE MachineChanges
  <2>1. PICK facet \in DOMAIN Changes : \E value \in Changes[facet] : mach' = [mach EXCEPT ![facet] = value]
    BY <1>9 DEF MachineChanges
  <2>2. PICK value \in Changes[facet] : mach' = [mach EXCEPT ![facet] = value]
    BY <2>1
  <2>3. /\ since' = since \cap Troubles(mach') /\ ever' = ever \cup Troubles(mach')
        /\ UNCHANGED <<dstep, offline, dchecks, dgrant>>
    BY <1>9 DEF MachineChanges
  <2>4. Sound(mach')
    <3> SUFFICES ASSUME NEW f \in DOMAIN Probed PROVE f \in DOMAIN mach' /\ mach'[f] \in Probed[f]
      BY DEF Sound
    <3>1. f \in DOMAIN mach /\ mach[f] \in Probed[f]
      BY DEF DoctorInv, Sound
    <3>2. f = facet => value \in Probed[f]
      BY ProbedAssumption, <2>1, <2>2
    <3> QED
      BY <2>2, <3>1, <3>2
  <2>5. Sound(mach)'
    BY <2>4 DEF Sound
  <2>6. Troubles(mach)' = Troubles(mach')
    BY DEF Troubles
  <2>7. IsList(dchecks)' /\ (Has(dchecks, "fail")' <=> Has(dchecks, "fail"))
    BY <2>3 DEF DoctorInv, IsList, Has
  <2>8. Overlooked' => Overlooked
    BY <2>3 DEF Overlooked
  <2> QED
    BY <2>3, <2>5, <2>6, <2>7, <2>8 DEF DoctorInv
<1> QED
  BY <1>1, <1>2, <1>3, <1>4, <1>5, <1>6, <1>7, <1>8, <1>9 DEF DoctorNext, Diagnose

\* What a finished diagnosis says can be trusted.
LEMMA DoctorTells == DoctorInv => ExitCodeTold
<1> SUFFICES ASSUME DoctorInv, dstep = "done" PROVE ExitCodeTold
  BY DEF ExitCodeTold
<1>1. (ExitCode(dchecks) = 1) <=> Has(dchecks, "fail")
  BY ListDomain, ReportSays DEF DoctorInv
<1>2. since \subseteq {"config", "unregistered", "terminal", "expired", "stopped", "paths", "upgrader", "upgrade",
                       "network", "gateway", "target", "inputs", "endpoint", "binary"}
  BY TroublesAre DEF DoctorInv
<1>3. since \ Remote # {} => Overlooked
  BY <1>2 DEF Remote, Overlooked
<1>4. ~offline /\ {"network", "gateway"} \cap since # {} => Overlooked
  BY DEF Overlooked
<1>5. dgrant = "granted" /\ {"target", "inputs"} \cap since # {} => Overlooked
  BY DEF Overlooked
<1> QED
  BY <1>1, <1>3, <1>4, <1>5 DEF DoctorInv, ExitCodeTold

-----------------------------------------------------------------------------
(* The answer.                                                             *)

JudgedTopics == {"accounts", "persistence", "telemetry-health"}

\* The answer is made of findings that do not change any more.
AnswerOK ==
  answer # NoAnswer /\ topic \in JudgedTopics =>
    /\ Ended
    /\ (answer.exit = 1) <=> Has(Findings, "fail")
    /\ Has(Findings, "fail") => answer.verdict = "counts"
    /\ Shaky(Findings) => answer.verdict # "all_ok"

ScansInv ==
  /\ topic = "accounts" => AccountsInv
  /\ topic \in {"persistence", "telemetry-health"} => HostInv /\ htopic = topic
  /\ topic = "diagnose" => DoctorInv
  /\ AnswerOK

LEMMA ScansInvInit == ScansInit => ScansInv
<1> SUFFICES ASSUME ScansInit PROVE ScansInv
  OBVIOUS
<1>1. topic = "accounts" => AccountsInv
  BY AccountsInvInit DEF ScansInit
<1>2. topic \in {"persistence", "telemetry-health"} => HostInv /\ htopic = topic
  BY HostInvInit DEF ScansInit
<1>3. topic = "diagnose" => DoctorInv
  BY DoctorInvInit DEF ScansInit
<1>4. AnswerOK
  BY DEF ScansInit, AnswerOK
<1> QED
  BY <1>1, <1>2, <1>3, <1>4 DEF ScansInv

\* A scan that does not move keeps its invariant.
LEMMA AccountsStill == AccountsInv /\ StillAccounts => AccountsInv' /\ acctFindings' = acctFindings
<1> SUFFICES ASSUME AccountsInv, StillAccounts PROVE AccountsInv' /\ acctFindings' = acctFindings
  OBVIOUS
<1>1. UNCHANGED <<apc, acct, sshFrames, sshValues, acctFindings>>
  BY DEF StillAccounts, accountVars
<1>2. OpenAccounts' = OpenAccounts /\ SudoFile(SudoMain)' = SudoFile(SudoMain) /\ SshdFile(SshdMain)' = SshdFile(SshdMain)
  BY <1>1, AccountsStay
<1>3. IsList(acctFindings)' /\ \A status : Has(acctFindings, status)' <=> Has(acctFindings, status)
  BY <1>1, SaysSame DEF AccountsInv
<1> QED
  BY <1>1, <1>2, <1>3 DEF AccountsInv

LEMMA HostStill == HostInv /\ StillHost => HostInv' /\ hostFindings' = hostFindings /\ htopic' = htopic
<1> SUFFICES ASSUME HostInv, StillHost PROVE HostInv' /\ hostFindings' = hostFindings /\ htopic' = htopic
  OBVIOUS
<1>1. UNCHANGED <<hpc, htopic, hfacts, hostFindings>>
  BY DEF StillHost, hostVars
<1>2. LogsUnread(hfacts)' = LogsUnread(hfacts) /\ LogsFail(hfacts)' = LogsFail(hfacts)
  BY <1>1 DEF LogsUnread, LogsFail
<1>3. /\ IsList(hostFindings)' <=> IsList(hostFindings)
      /\ Has(hostFindings, "fail")' <=> Has(hostFindings, "fail")
      /\ Has(hostFindings, "unknown")' <=> Has(hostFindings, "unknown")
      /\ Shaky(hostFindings)' <=> Shaky(hostFindings)
  BY <1>1 DEF IsList, Has, Shaky
<1> QED
  BY <1>1, <1>2, <1>3 DEF HostInv

LEMMA DoctorStill == DoctorInv /\ StillDoctor => DoctorInv'
<1> SUFFICES ASSUME DoctorInv, StillDoctor PROVE DoctorInv'
  OBVIOUS
<1>1. UNCHANGED <<dstep, offline, mach, dchecks, dgrant, since, ever>>
  BY DEF StillDoctor, doctorVars
<1>2. /\ IsList(dchecks)' <=> IsList(dchecks)
      /\ Has(dchecks, "fail")' <=> Has(dchecks, "fail")
      /\ Sound(mach)' <=> Sound(mach)
      /\ Troubles(mach)' = Troubles(mach)
      /\ Overlooked' <=> Overlooked
  BY <1>1 DEF IsList, Has, Sound, Troubles, Overlooked
<1> QED
  BY <1>1, <1>2 DEF DoctorInv

\* A scan that has ended takes no step.
LEMMA EndedStays ==
  /\ apc = "done" => ~AccountsNext
  /\ hpc = "done" => ~HostNext
<1>1. apc = "done" => ~AccountsNext
  BY DEF AccountsNext, StartAccounts, StartSudoers, ExpandInclude, ExpandDir, SudoersDone, ListKeys, OpenSshdFile, ReadSshdLine, SshdDone
<1>2. hpc = "done" => ~HostNext
  BY DEF HostNext, ListUnits, ListScheduled, ListHooks, ListListeners, CheckTelemetry
<1> QED
  BY <1>1, <1>2

\* Findings and answer unchanged: what the answer says stays true.
LEMMA AnswerStays ==
  ASSUME AnswerOK, topic' = topic, answer' = answer, StillAccounts, StillHost
  PROVE  AnswerOK'
<1>1. UNCHANGED <<apc, hpc, acctFindings, hostFindings>>
  BY DEF StillAccounts, StillHost, accountVars, hostVars
<1> SUFFICES ASSUME answer # NoAnswer, topic \in JudgedTopics
             PROVE  AnswerOK'
  BY DEF AnswerOK, NoAnswer
<1>2. Ended /\ Ended'
  BY <1>1 DEF AnswerOK, Ended, JudgedTopics
<1>3. Findings' = Findings
  <2>1. CASE topic = "accounts"
    BY <1>1, <2>1 DEF Findings
  <2>2. CASE topic \in {"persistence", "telemetry-health"}
    BY <1>1, <2>2 DEF Findings
  <2> QED
    BY <2>1, <2>2 DEF JudgedTopics
<1>4. /\ Has(Findings, "fail")' <=> Has(Findings, "fail")
      /\ Shaky(Findings)' <=> Shaky(Findings)
  BY <1>3 DEF Has, Shaky
<1> QED
  BY <1>2, <1>4 DEF AnswerOK

LEMMA ScansInvStep == ScansInv /\ [ScansNext]_scanVars => ScansInv'
<1> SUFFICES ASSUME ScansInv, [ScansNext]_scanVars PROVE ScansInv'
  OBVIOUS
<1>1. CASE Scan
  <2>0. topic' = topic /\ answer' = answer
    BY <1>1 DEF Scan
  <2>1. CASE topic \in {"disk", "load"}
    <3>1. StillAccounts /\ StillHost
      BY <1>1, <2>1 DEF Scan
    <3>2. AnswerOK'
      BY <2>0, <3>1, AnswerStays DEF ScansInv
    <3> QED
      BY <2>0, <2>1, <3>2 DEF ScansInv
  <2>2. CASE topic = "accounts"
    <3>1. AccountsNext
      BY <1>1, <2>2 DEF Scan
    <3>2. AccountsInv'
      BY <2>2, <3>1, AccountsInvStep DEF ScansInv
    <3>3. answer = NoAnswer
      BY <2>2, <3>1, EndedStays DEF ScansInv, AnswerOK, Ended, JudgedTopics
    <3>4. AnswerOK'
      BY <2>0, <3>3 DEF AnswerOK, NoAnswer
    <3> QED
      BY <2>0, <2>2, <3>2, <3>4 DEF ScansInv
  <2>3. CASE topic \in {"persistence", "telemetry-health"}
    <3>1. HostNext
      BY <1>1, <2>3 DEF Scan
    <3>2. HostInv' /\ htopic' = htopic
      BY <2>3, <3>1, HostInvStep DEF ScansInv, HostNext, ListUnits, ListScheduled, ListHooks, ListListeners, CheckTelemetry
    <3>3. answer = NoAnswer
      BY <2>3, <3>1, EndedStays DEF ScansInv, AnswerOK, Ended, JudgedTopics
    <3>4. AnswerOK'
      BY <2>0, <3>3 DEF AnswerOK, NoAnswer
    <3> QED
      BY <2>0, <2>3, <3>2, <3>4 DEF ScansInv
  <2>4. CASE topic = "exposure"
    BY <2>0, <2>4 DEF ScansInv, AnswerOK, JudgedTopics
  <2>5. CASE topic = "diagnose"
    <3>1. DoctorNext
      BY <1>1, <2>5 DEF Scan
    <3>2. DoctorInv'
      BY <2>5, <3>1, DoctorInvStep DEF ScansInv
    <3> QED
      BY <2>0, <2>5, <3>2 DEF ScansInv, AnswerOK, JudgedTopics
  <2> QED
    BY <1>1, <2>1, <2>2, <2>3, <2>4, <2>5 DEF Scan
<1>2. CASE Answer
  <2>0. topic' = topic /\ StillAccounts /\ StillHost /\ StillDoctor /\ Ended
    BY <1>2 DEF Answer, StillAll
  <2>1. (topic = "accounts" => AccountsInv)'
    BY <2>0, AccountsStill DEF ScansInv
  <2>2. (topic \in {"persistence", "telemetry-health"} => HostInv /\ htopic = topic)'
    BY <2>0, HostStill DEF ScansInv
  <2>3. (topic = "diagnose" => DoctorInv)'
    BY <2>0, DoctorStill DEF ScansInv
  <2>4. ASSUME topic \in JudgedTopics PROVE AnswerOK'
    <3>1. PICK fs, evidence, body : /\ fs = Findings
                                    /\ answer' = [verdict |-> Verdict(topic, fs), exit |-> ExitCode(fs), evidence |-> evidence, body |-> body]
      BY <1>2, <2>4 DEF Answer, JudgedTopics
    <3>2. answer'.verdict = Verdict(topic, fs) /\ answer'.exit = ExitCode(fs)
      BY <3>1
    <3>3. IsList(fs)
      <4>1. CASE topic = "accounts"
        BY <3>1, <4>1 DEF Findings, ScansInv, AccountsInv
      <4>2. CASE topic \in {"persistence", "telemetry-health"}
        BY <3>1, <4>2 DEF Findings, ScansInv, HostInv
      <4> QED
        BY <2>4, <4>1, <4>2 DEF JudgedTopics
    <3>4. Judged(topic)
      BY <2>4 DEF Judged, EvidenceOnly, JudgedTopics
    <3>5. /\ (answer'.exit = 1) <=> Has(fs, "fail")
          /\ Has(fs, "fail") => answer'.verdict = "counts"
          /\ Shaky(fs) => answer'.verdict # "all_ok"
      BY <3>2, <3>3, <3>4, ListDomain, ReportSays DEF Shaky
    <3>6. UNCHANGED <<apc, hpc, acctFindings, hostFindings>>
      BY <2>0 DEF StillAccounts, StillHost, accountVars, hostVars
    <3>7. Findings' = Findings
      <4>1. CASE topic = "accounts"
        BY <2>0, <3>6, <4>1 DEF Findings
      <4>2. CASE topic \in {"persistence", "telemetry-health"}
        BY <2>0, <3>6, <4>2 DEF Findings
      <4> QED
        BY <2>4, <4>1, <4>2 DEF JudgedTopics
    <3>8. /\ Has(Findings, "fail")' <=> Has(fs, "fail")
          /\ Shaky(Findings)' <=> Shaky(fs)
      BY <3>1, <3>7 DEF Has, Shaky
    <3>9. Ended'
      BY <2>0, <2>4, <3>6 DEF Ended, JudgedTopics
    <3> QED
      BY <3>5, <3>8, <3>9 DEF AnswerOK
  <2>5. ASSUME topic \notin JudgedTopics PROVE AnswerOK'
    BY <2>0, <2>5 DEF AnswerOK, JudgedTopics
  <2> QED
    BY <2>1, <2>2, <2>3, <2>4, <2>5 DEF ScansInv
<1>3. CASE UNCHANGED scanVars
  <2>0. topic' = topic /\ answer' = answer /\ StillAccounts /\ StillHost /\ StillDoctor
    BY <1>3 DEF scanVars, StillAccounts, StillHost, StillDoctor
  <2>1. (topic = "accounts" => AccountsInv)'
    BY <2>0, AccountsStill DEF ScansInv
  <2>2. (topic \in {"persistence", "telemetry-health"} => HostInv /\ htopic = topic)'
    BY <2>0, HostStill DEF ScansInv
  <2>3. (topic = "diagnose" => DoctorInv)'
    BY <2>0, DoctorStill DEF ScansInv
  <2>4. AnswerOK'
    BY <2>0, AnswerStays DEF ScansInv
  <2> QED
    BY <2>1, <2>2, <2>3, <2>4 DEF ScansInv
<1> QED
  BY <1>1, <1>2, <1>3 DEF ScansNext

\* What the answer rests on tells what it must.
LEMMA AnswerTold == ScansInv => AnswerTrue
<1> SUFFICES ASSUME ScansInv PROVE AnswerTrue
  OBVIOUS
<1>1. topic = "diagnose" => ExitCodeTold
  BY DoctorTells DEF ScansInv
<1>2. VerdictEarned
  <2> SUFFICES ASSUME answer # NoAnswer, topic \in {"accounts", "persistence", "telemetry-health"}
               PROVE  /\ answer.verdict = "all_ok" => ~SourcesMissing
                      /\ Alarms => answer.exit = 1
                      /\ answer.exit = 1 => answer.verdict = "counts"
    BY DEF VerdictEarned
  <2>1. /\ Ended
        /\ (answer.exit = 1) <=> Has(Findings, "fail")
        /\ Has(Findings, "fail") => answer.verdict = "counts"
        /\ Shaky(Findings) => answer.verdict # "all_ok"
    BY DEF ScansInv, AnswerOK, JudgedTopics
  <2>2. (SourcesMissing => Shaky(Findings)) /\ (Alarms => Has(Findings, "fail"))
    <3>1. CASE topic = "accounts"
      <4>1. AccountsInv /\ apc = "done" /\ Findings = acctFindings
        BY <2>1, <3>1 DEF ScansInv, Ended, Findings
      <4>2. SourcesMissing <=> (\/ acct.passwd # "ok" \/ acct.shadow.state # "ok"
                                \/ SudoFile(SudoMain).state = "denied" \/ SshdFile(SshdMain).state = "denied")
        BY <3>1 DEF SourcesMissing
      <4>3. Alarms <=> OpenAccounts
        BY <3>1 DEF Alarms, OpenAccounts
      <4> QED
        BY <4>1, <4>2, <4>3 DEF AccountsInv, Shaky
    <3>2. CASE topic = "persistence"
      <4>1. HostInv /\ htopic = "persistence" /\ hpc = "done" /\ Findings = hostFindings
        BY <2>1, <3>2 DEF ScansInv, Ended, Findings
      <4>2. SourcesMissing <=> hfacts.unitsDir = "denied"
        BY <3>2 DEF SourcesMissing
      <4>3. Alarms <=> hfacts.preload.state = "ok" /\ hfacts.preload.libs > 0
        BY <3>2 DEF Alarms
      <4> QED
        BY <4>1, <4>2, <4>3 DEF HostInv, Shaky
    <3>3. CASE topic = "telemetry-health"
      <4>1. HostInv /\ htopic = "telemetry-health" /\ hpc = "done" /\ Findings = hostFindings
        BY <2>1, <3>3 DEF ScansInv, Ended, Findings
      <4>2. SourcesMissing <=> LogsUnread(hfacts)
        BY <3>3 DEF SourcesMissing, LogsUnread
      <4>3. Alarms <=> LogsFail(hfacts)
        BY <3>3 DEF Alarms, LogsFail
      <4> QED
        BY <4>1, <4>2, <4>3 DEF HostInv
    <3> QED
      BY <3>1, <3>2, <3>3
  <2> QED
    BY <2>1, <2>2
<1> QED
  BY <1>1, <1>2 DEF AnswerTrue

\* The verdict of an investigation and the exit code of a diagnosis can be trusted
\* (overall, verdict, exit_code in investigate.rs; diagnose in doctor.rs), whatever the
\* host and whatever changes meanwhile.
THEOREM AnswerTrueHolds == ScansSpec => []AnswerTrue
<1>1. ScansInit => ScansInv
  BY ScansInvInit
<1>2. ScansInv /\ [ScansNext]_scanVars => ScansInv'
  BY ScansInvStep
<1>3. ScansInv => AnswerTrue
  BY AnswerTold
<1> QED
  BY <1>1, <1>2, <1>3, PTL DEF ScansSpec

-----------------------------------------------------------------------------
(* Induction over a finite set, and sums.                                  *)

\* What the empty set has, and every set has when it is so with any member taken out, all
\* parts of a finite set have.
LEMMA PartInduction ==
  ASSUME NEW S, IsFiniteSet(S), NEW Good, {} \in Good,
         \A T \in SUBSET S : T # {} /\ (\A x \in T : T \ {x} \in Good) => T \in Good
  PROVE  \A T \in SUBSET S : T \in Good
<1> DEFINE N == {m \in Nat : \A T \in SUBSET S : Cardinality(T) = m => T \in Good}
<1>f. \A T \in SUBSET S : IsFiniteSet(T) /\ Cardinality(T) \in Nat /\ (Cardinality(T) = 0 <=> T = {})
  BY FS_Subset, FS_CardinalityType, FS_EmptySet
<1>1. 0 \in N
  BY <1>f
<1>2. ASSUME NEW k \in Nat, k \in N PROVE k + 1 \in N
  <2> SUFFICES ASSUME NEW T \in SUBSET S, Cardinality(T) = k + 1 PROVE T \in Good
    OBVIOUS
  <2>1. T # {} /\ IsFiniteSet(T)
    BY <1>f
  <2>2. ASSUME NEW x \in T PROVE T \ {x} \in Good
    <3>1. Cardinality(T \ {x}) = Cardinality(T) - 1
      BY <2>1, FS_RemoveElement
    <3>2. Cardinality(T \ {x}) = k
      BY <3>1
    <3>3. T \ {x} \in SUBSET S
      OBVIOUS
    <3> QED
      BY <1>2, <3>2, <3>3
  <2> QED
    BY <2>1, <2>2
<1>3. ASSUME NEW n \in Nat PROVE n \in N
  <2>1. \A k \in 0..(n - 1) : k \in N => k + 1 \in N
    BY <1>2
  <2> HIDE DEF N
  <2> QED
    BY <1>1, <2>1, SetInduction
<1> QED
  BY <1>f, <1>3

\* The member that is added first.
Some(s) == CHOOSE x \in s : TRUE

\* The sum of what w gives for the members of a set.
SumOf(w, S) == MapThenSumSet(LAMBDA x : w[x], S)

\* f is the sum of every part of S, one member after the other.
Sums(f, w, S) ==
  /\ f \in [SUBSET S -> Nat] /\ f[{}] = 0
  /\ \A s \in SUBSET S : s # {} => f[s] = w[Some(s)] + f[s \ {Some(s)}]

\* What is chosen from a set is in it.
LEMMA SomeIn == \A s : s # {} => Some(s) \in s
  BY DEF Some

\* A finite set has such a function.
LEMMA SumsExist ==
  ASSUME NEW S, IsFiniteSet(S), NEW w, \A x \in S : w[x] \in Nat
  PROVE  \E f : Sums(f, w, S)
<1> DEFINE Part(k) == {s \in SUBSET S : Cardinality(s) <= k}
           Rec(f, k) == /\ f \in [Part(k) -> Nat]
                        /\ \A s \in Part(k) : f[s] = IF s = {} THEN 0 ELSE w[Some(s)] + f[s \ {Some(s)}]
           Good == {k \in Nat : \E f : Rec(f, k)}
           n == Cardinality(S)
<1>0. n \in Nat
  BY FS_CardinalityType
<1>f. \A s \in SUBSET S : IsFiniteSet(s) /\ Cardinality(s) \in Nat /\ (Cardinality(s) = 0 <=> s = {}) /\ Cardinality(s) <= n
  BY FS_Subset, FS_CardinalityType, FS_EmptySet
<1>1. 0 \in Good
  <2> DEFINE f == [s \in Part(0) |-> 0]
  <2>1. \A s \in Part(0) : s = {}
    BY <1>f
  <2>2. Rec(f, 0)
    BY <2>1
  <2> HIDE DEF f
  <2> QED
    BY <2>2
<1>2. ASSUME NEW k \in 0..(n - 1), k \in Good PROVE k + 1 \in Good
  <2>1. PICK f : Rec(f, k)
    BY <1>2
  <2>0. k \in Nat
    BY <1>0
  <2>2. ASSUME NEW s \in Part(k + 1), s # {} PROVE s \ {Some(s)} \in Part(k) /\ w[Some(s)] \in Nat
    <3>1. Some(s) \in s /\ s \in SUBSET S
      BY <2>2, SomeIn
    <3>2. Cardinality(s \ {Some(s)}) = Cardinality(s) - 1
      BY <1>f, <3>1, FS_RemoveElement
    <3> QED
      BY <1>f, <2>0, <2>2, <3>1, <3>2
  <2> DEFINE h == [s \in Part(k + 1) |-> IF s = {} THEN 0 ELSE w[Some(s)] + f[s \ {Some(s)}]]
  <2>3. h \in [Part(k + 1) -> Nat]
    <3>1. \A s \in Part(k + 1) : s # {} => f[s \ {Some(s)}] \in Nat
      BY <2>1, <2>2
    <3> QED
      BY <2>2, <3>1
  <2>4. \A s \in Part(k) : s \in Part(k + 1)
    BY <1>f, <2>0
  <2>5. \A s \in Part(k) : h[s] = f[s]
    BY <2>1, <2>4
  <2>6. ASSUME NEW s \in Part(k + 1) PROVE h[s] = IF s = {} THEN 0 ELSE w[Some(s)] + h[s \ {Some(s)}]
    BY <2>2, <2>5
  <2> HIDE DEF h, Part
  <2>7. Rec(h, k + 1)
    BY <2>3, <2>6
  <2>8. \E g : Rec(g, k + 1)
    BY <2>7
  <2> HIDE DEF Rec
  <2> QED
    BY <2>0, <2>8
<1>3. n \in Good
  <2> HIDE DEF Good, n
  <2> QED
    BY <1>0, <1>1, <1>2, SetInduction
<1>4. PICK f : Rec(f, n)
  BY <1>3
<1>5. Part(n) = SUBSET S
  BY <1>f
<1>6. f \in [SUBSET S -> Nat] /\ \A s \in SUBSET S : f[s] = IF s = {} THEN 0 ELSE w[Some(s)] + f[s \ {Some(s)}]
  BY <1>4, <1>5
<1> QED
  BY <1>6 DEF Sums

\* The sum the fold computes.
LEMMA SumSteps ==
  ASSUME NEW S, IsFiniteSet(S), NEW w, \A x \in S : w[x] \in Nat
  PROVE  \E f : Sums(f, w, S) /\ SumOf(w, S) = f[S]
<1> DEFINE Rec(f) == f = [s \in SUBSET S |-> IF s = {} THEN 0 ELSE w[CHOOSE x \in s : TRUE] + f[s \ {CHOOSE x \in s : TRUE}]]
           h == CHOOSE f : Rec(f)
<1>1. SumOf(w, S) = h[S]
  BY DEF SumOf, MapThenSumSet, MapThenFoldSet
<1>2. PICK f : Sums(f, w, S)
  BY SumsExist
<1>3. Rec(f)
  <2>1. f = [s \in SUBSET S |-> f[s]]
    BY <1>2 DEF Sums
  <2> QED
    BY <1>2, <2>1 DEF Sums, Some
<1>4. Rec(h)
  BY <1>3
<1> HIDE DEF h
<1>5. \A s \in SUBSET S : h[s] = IF s = {} THEN 0 ELSE w[Some(s)] + h[s \ {Some(s)}]
  BY <1>4 DEF Some
<1>6. h = [s \in SUBSET S |-> h[s]]
  BY <1>4
<1>7. \A s \in SUBSET S : h[s] = f[s]
  <2> DEFINE Good == {s \in SUBSET S : h[s] = f[s]}
  <2>1. {} \in Good
    BY <1>2, <1>5 DEF Sums
  <2>2. ASSUME NEW T \in SUBSET S, T # {}, \A x \in T : T \ {x} \in Good PROVE T \in Good
    BY <1>2, <1>5, <2>2, SomeIn DEF Sums
  <2> HIDE DEF Good
  <2>3. \A T \in SUBSET S : T \in Good
    BY <2>1, <2>2, PartInduction
  <2> QED
    BY <2>3 DEF Good
<1> QED
  BY <1>1, <1>2, <1>7

\* The sum of a part is the same, whatever it is a part of.
LEMMA SumsAgree ==
  ASSUME NEW S, IsFiniteSet(S), NEW T \in SUBSET S, NEW w, NEW f, Sums(f, w, S), NEW g, Sums(g, w, T)
  PROVE  \A s \in SUBSET T : g[s] = f[s]
<1> DEFINE Good == {s \in SUBSET T : g[s] = f[s]}
<1>1. {} \in Good
  BY DEF Sums
<1>2. ASSUME NEW R \in SUBSET T, R # {}, \A x \in R : R \ {x} \in Good PROVE R \in Good
  BY <1>2, SomeIn DEF Sums
<1>3. IsFiniteSet(T)
  BY FS_Subset
<1> HIDE DEF Good
<1>4. \A R \in SUBSET T : R \in Good
  BY <1>1, <1>2, <1>3, PartInduction
<1> QED
  BY <1>4 DEF Good

\* Any member may be added first.
LEMMA AnyFirst ==
  ASSUME NEW S, IsFiniteSet(S), NEW w, \A x \in S : w[x] \in Nat, NEW f, Sums(f, w, S)
  PROVE  \A s \in SUBSET S : \A x \in s : f[s] = w[x] + f[s \ {x}]
<1> DEFINE Good == {s \in SUBSET S : \A x \in s : f[s] = w[x] + f[s \ {x}]}
<1>1. {} \in Good
  OBVIOUS
<1>2. ASSUME NEW T \in SUBSET S, T # {}, \A x \in T : T \ {x} \in Good PROVE T \in Good
  <2> SUFFICES ASSUME NEW x \in T PROVE f[T] = w[x] + f[T \ {x}]
    OBVIOUS
  <2> DEFINE y == Some(T)
             R == (T \ {y}) \ {x}
  <2>1. y \in T /\ f[T] = w[y] + f[T \ {y}]
    BY <1>2, SomeIn DEF Sums
  <2>2. CASE x = y
    BY <2>1, <2>2
  <2>3. CASE x # y
    <3>1. x \in T \ {y} /\ y \in T \ {x} /\ R = (T \ {x}) \ {y}
      BY <2>1, <2>3
    <3>2. f[T \ {y}] = w[x] + f[R]
      BY <1>2, <2>1, <3>1
    <3>3. f[T \ {x}] = w[y] + f[R]
      BY <1>2, <3>1
    <3>4. f[R] \in Nat /\ w[x] \in Nat /\ w[y] \in Nat
      <4>1. R \in SUBSET S
        OBVIOUS
      <4> HIDE DEF R, y
      <4> QED
        BY <2>1, <4>1 DEF Sums
    <3> HIDE DEF R, y
    <3> QED
      BY <2>1, <3>2, <3>3, <3>4
  <2> QED
    BY <2>2, <2>3
<1> HIDE DEF Good
<1>3. \A T \in SUBSET S : T \in Good
  BY <1>1, <1>2, PartInduction
<1> QED
  BY <1>3 DEF Good

\* What there is to know of a sum.
LEMMA SumIs ==
  ASSUME NEW S, IsFiniteSet(S), NEW w, \A x \in S : w[x] \in Nat
  PROVE  /\ SumOf(w, S) \in Nat /\ SumOf(w, {}) = 0
         /\ \A x \in S : SumOf(w, S) = w[x] + SumOf(w, S \ {x})
<1>1. PICK f : Sums(f, w, S) /\ SumOf(w, S) = f[S]
  BY SumSteps
<1>2. S \in SUBSET S
  OBVIOUS
<1>3. SumOf(w, S) \in Nat
  BY <1>1, <1>2 DEF Sums
<1>4. SumOf(w, {}) = 0
  <2> DEFINE E == {}
  <2>1. IsFiniteSet(E) /\ \A x \in E : w[x] \in Nat
    BY FS_EmptySet
  <2> HIDE DEF E
  <2>2. PICK g : Sums(g, w, E) /\ SumOf(w, E) = g[E]
    BY <2>1, SumSteps
  <2> QED
    BY <2>2 DEF Sums, E
<1>5. ASSUME NEW x \in S PROVE SumOf(w, S) = w[x] + SumOf(w, S \ {x})
  <2> DEFINE T == S \ {x}
  <2>1. T \in SUBSET S /\ IsFiniteSet(T) /\ \A y \in T : w[y] \in Nat
    BY FS_Subset
  <2>2. f[S] = w[x] + f[T]
    BY <1>1, <1>2, AnyFirst
  <2> HIDE DEF T
  <2>3. PICK g : Sums(g, w, T) /\ SumOf(w, T) = g[T]
    BY <2>1, SumSteps
  <2>4. g[T] = f[T]
    BY <1>1, <2>1, <2>3, SumsAgree
  <2> QED
    BY <1>1, <2>2, <2>3, <2>4 DEF T
<1> QED
  BY <1>3, <1>4, <1>5

\* A sum of smaller numbers is smaller.
LEMMA SumLe ==
  ASSUME NEW S, IsFiniteSet(S), NEW v, NEW w, \A x \in S : v[x] \in Nat /\ w[x] \in Nat /\ v[x] <= w[x]
  PROVE  SumOf(v, S) <= SumOf(w, S)
<1> DEFINE Good == {T \in SUBSET S : SumOf(v, T) <= SumOf(w, T)}
<1>f. \A T \in SUBSET S : IsFiniteSet(T)
  BY FS_Subset
<1>i. ASSUME NEW T \in SUBSET S
      PROVE  /\ SumOf(v, T) \in Nat /\ SumOf(w, T) \in Nat /\ SumOf(v, {}) = 0 /\ SumOf(w, {}) = 0
             /\ \A x \in T : SumOf(v, T) = v[x] + SumOf(v, T \ {x}) /\ SumOf(w, T) = w[x] + SumOf(w, T \ {x})
  <2>1. /\ SumOf(v, T) \in Nat /\ SumOf(v, {}) = 0
        /\ \A x \in T : SumOf(v, T) = v[x] + SumOf(v, T \ {x})
    BY <1>f, SumIs
  <2>2. /\ SumOf(w, T) \in Nat /\ SumOf(w, {}) = 0
        /\ \A x \in T : SumOf(w, T) = w[x] + SumOf(w, T \ {x})
    BY <1>f, SumIs
  <2> QED
    BY <2>1, <2>2
<1>1. {} \in Good
  BY <1>i
<1>2. ASSUME NEW T \in SUBSET S, T # {}, \A x \in T : T \ {x} \in Good PROVE T \in Good
  <2>1. PICK x \in T : TRUE
    BY <1>2
  <2> DEFINE R == T \ {x}
  <2>2. R \in SUBSET S /\ SumOf(v, R) <= SumOf(w, R)
    BY <1>2
  <2>3. SumOf(v, T) = v[x] + SumOf(v, R) /\ SumOf(w, T) = w[x] + SumOf(w, R)
    BY <1>i
  <2> HIDE DEF R
  <2>4. SumOf(v, R) \in Nat /\ SumOf(w, R) \in Nat
    BY <1>i, <2>2
  <2>5. v[x] \in Nat /\ w[x] \in Nat /\ v[x] <= w[x]
    OBVIOUS
  <2> QED
    BY <2>2, <2>3, <2>4, <2>5
<1> HIDE DEF Good
<1>3. \A T \in SUBSET S : T \in Good
  BY <1>1, <1>2, PartInduction
<1> QED
  BY <1>3 DEF Good

\* Equal numbers have equal sums.
LEMMA SumSame ==
  ASSUME NEW S, IsFiniteSet(S), NEW v, NEW w, \A x \in S : w[x] \in Nat /\ v[x] = w[x]
  PROVE  SumOf(v, S) = SumOf(w, S)
<1>1. \A x \in S : v[x] \in Nat /\ w[x] \in Nat /\ v[x] <= w[x] /\ w[x] <= v[x]
  OBVIOUS
<1>2. SumOf(v, S) <= SumOf(w, S) /\ SumOf(w, S) <= SumOf(v, S)
  BY <1>1, SumLe
<1>3. SumOf(v, S) \in Nat /\ SumOf(w, S) \in Nat
  BY <1>1, SumIs
<1> QED
  BY <1>2, <1>3

\* One member gets one more.
LEMMA SumBump ==
  ASSUME NEW S, IsFiniteSet(S), NEW v, NEW w, NEW p \in S, \A x \in S : w[x] \in Nat,
         v[p] = w[p] + 1, \A x \in S \ {p} : v[x] = w[x]
  PROVE  SumOf(v, S) = SumOf(w, S) + 1
<1> DEFINE R == S \ {p}
<1>1. IsFiniteSet(R) /\ \A x \in R : w[x] \in Nat /\ v[x] = w[x]
  BY FS_Subset
<1>2. \A x \in S : v[x] \in Nat
  OBVIOUS
<1>3. SumOf(v, S) = v[p] + SumOf(v, R) /\ SumOf(w, S) = w[p] + SumOf(w, R)
  BY <1>2, SumIs
<1> HIDE DEF R
<1>4. SumOf(v, R) = SumOf(w, R)
  BY <1>1, SumSame
<1>5. SumOf(w, R) \in Nat
  BY <1>1, SumIs
<1> QED
  BY <1>3, <1>4, <1>5

\* Two sets without a common member.
LEMMA SumTwo ==
  ASSUME NEW S, IsFiniteSet(S), NEW w, \A x \in S : w[x] \in Nat, NEW A \in SUBSET S, NEW B \in SUBSET S, A \cap B = {}
  PROVE  SumOf(w, A \cup B) = SumOf(w, A) + SumOf(w, B)
<1> DEFINE Good == {T \in SUBSET B : SumOf(w, A \cup T) = SumOf(w, A) + SumOf(w, T)}
<1>f. IsFiniteSet(B) /\ \A T \in SUBSET S : IsFiniteSet(T)
  BY FS_Subset
<1>i. ASSUME NEW T \in SUBSET S
      PROVE  /\ SumOf(w, T) \in Nat /\ SumOf(w, {}) = 0
             /\ \A x \in T : SumOf(w, T) = w[x] + SumOf(w, T \ {x})
  BY <1>f, SumIs
<1>1. {} \in Good
  <2>1. A \cup {} = A
    OBVIOUS
  <2> QED
    BY <1>i, <2>1
<1>2. ASSUME NEW T \in SUBSET B, T # {}, \A x \in T : T \ {x} \in Good PROVE T \in Good
  <2>1. PICK x \in T : TRUE
    BY <1>2
  <2> DEFINE R == T \ {x}
             U == A \cup T
  <2>2. SumOf(w, A \cup R) = SumOf(w, A) + SumOf(w, R)
    BY <1>2
  <2>3. x \in U /\ U \ {x} = A \cup R /\ U \in SUBSET S /\ R \in SUBSET S /\ T \in SUBSET S
    OBVIOUS
  <2>4. SumOf(w, U) = w[x] + SumOf(w, U \ {x})
    BY <1>i, <2>3
  <2>5. SumOf(w, T) = w[x] + SumOf(w, R)
    BY <1>i, <2>3
  <2>6. SumOf(w, A) \in Nat /\ SumOf(w, R) \in Nat /\ w[x] \in Nat
    BY <1>i, <2>3
  <2>7. SumOf(w, U) = w[x] + (SumOf(w, A) + SumOf(w, R))
    BY <2>2, <2>3, <2>4
  <2> HIDE DEF R
  <2>8. SumOf(w, U) = SumOf(w, A) + SumOf(w, T)
    BY <2>5, <2>6, <2>7
  <2> QED
    BY <2>8
<1> HIDE DEF Good
<1>3. \A T \in SUBSET B : T \in Good
  BY <1>f, <1>1, <1>2, PartInduction
<1> QED
  BY <1>3 DEF Good

\* A part has a smaller sum.
LEMMA SumPart ==
  ASSUME NEW S, IsFiniteSet(S), NEW w, \A x \in S : w[x] \in Nat, NEW T \in SUBSET S
  PROVE  SumOf(w, T) <= SumOf(w, S)
<1> DEFINE R == S \ T
<1>1. R \in SUBSET S /\ T \cap R = {} /\ T \cup R = S
  OBVIOUS
<1>2. IsFiniteSet(R) /\ IsFiniteSet(T)
  BY <1>1, FS_Subset
<1> HIDE DEF R
<1>3. SumOf(w, T \cup R) = SumOf(w, T) + SumOf(w, R)
  BY <1>1, SumTwo
<1>4. SumOf(w, T) \in Nat /\ SumOf(w, R) \in Nat
  <2>1. SumOf(w, T) \in Nat
    BY <1>2, SumIs
  <2>2. SumOf(w, R) \in Nat
    BY <1>1, <1>2, SumIs
  <2> QED
    BY <2>1, <2>2
<1>5. SumOf(w, S) = SumOf(w, T) + SumOf(w, R)
  BY <1>1, <1>3
<1> QED
  BY <1>4, <1>5

\* All members of the parts.
Joined(m, T) == UNION {m[g] : g \in T}

\* A sum of sums: the parts have no common member.
LEMMA SumJoin ==
  ASSUME NEW S, IsFiniteSet(S), NEW w, \A x \in S : w[x] \in Nat,
         NEW G, IsFiniteSet(G), NEW m, \A g \in G : m[g] \in SUBSET S,
         \A g, h \in G : g # h => m[g] \cap m[h] = {},
         NEW v, \A g \in G : v[g] = SumOf(w, m[g])
  PROVE  SumOf(w, Joined(m, G)) = SumOf(v, G)
<1> DEFINE Good == {T \in SUBSET G : SumOf(w, Joined(m, T)) = SumOf(v, T)}
<1>f. (\A T \in SUBSET S : IsFiniteSet(T)) /\ \A T \in SUBSET G : IsFiniteSet(T)
  BY FS_Subset
<1>i. ASSUME NEW T \in SUBSET S
      PROVE  SumOf(w, T) \in Nat
  BY <1>f, SumIs
<1>v. \A g \in G : v[g] \in Nat
  BY <1>i
<1>j. ASSUME NEW T \in SUBSET G
      PROVE  /\ SumOf(v, T) \in Nat /\ SumOf(v, {}) = 0
             /\ \A g \in T : SumOf(v, T) = v[g] + SumOf(v, T \ {g})
  BY <1>f, <1>v, SumIs
<1>1. {} \in Good
  <2>1. Joined(m, {}) = {}
    BY DEF Joined
  <2>2. SumOf(w, {}) = 0
    BY SumIs
  <2> QED
    BY <1>j, <2>1, <2>2
<1>2. ASSUME NEW T \in SUBSET G, T # {}, \A g \in T : T \ {g} \in Good PROVE T \in Good
  <2>1. PICK g \in T : TRUE
    BY <1>2
  <2> DEFINE R == T \ {g}
             A == Joined(m, R)
             B == m[g]
  <2>2. SumOf(w, A) = SumOf(v, R) /\ R \in SUBSET G
    BY <1>2
  <2>3. Joined(m, T) = A \cup B
    BY DEF Joined
  <2>4. A \in SUBSET S /\ B \in SUBSET S /\ A \cap B = {}
    BY DEF Joined
  <2>5. SumOf(v, T) = v[g] + SumOf(v, R) /\ v[g] = SumOf(w, B)
    BY <1>j
  <2> HIDE DEF A, B, R
  <2>6. SumOf(w, A \cup B) = SumOf(w, A) + SumOf(w, B)
    BY <2>4, SumTwo
  <2>7. SumOf(w, A) \in Nat /\ SumOf(w, B) \in Nat
    BY <1>i, <2>4
  <2>8. SumOf(w, Joined(m, T)) = SumOf(w, A) + SumOf(w, B)
    BY <2>3, <2>6
  <2>9. SumOf(w, Joined(m, T)) = SumOf(v, T)
    BY <2>2, <2>5, <2>7, <2>8
  <2> QED
    BY <2>9
<1> HIDE DEF Good
<1>3. \A T \in SUBSET G : T \in Good
  BY <1>1, <1>2, PartInduction
<1> QED
  BY <1>3 DEF Good

-----------------------------------------------------------------------------
(* The load.                                                               *)

\* What a group was charged since the first reading, against what its processes used.
Metered(reading, g) ==
  LET used == SumOf(ran, Members(g))
  IN  /\ reading[g] \in Nat /\ before[g] \in Nat
      /\ reading[g] <= before[g] + used
      /\ g \notin fresh => reading[g] = before[g] + used

\* Of a group read at first, the meter shows what its processes used since; one that was
\* made again meanwhile shows at most that.  The second reading keeps what the meter showed.
LoadInv ==
  /\ phase \in {"before", "window", "reported"}
  /\ ran \in [Procs -> Nat]
  /\ \A g \in DOMAIN meter : meter[g] \in Nat
  /\ phase \in {"window", "reported"} => DOMAIN before \subseteq {g \in Groups : LabelOf[g] # NoLabel}
  /\ phase \in {"window", "reported"} => \A g \in DOMAIN before : before[g] \in Nat
  /\ phase = "reported" => DOMAIN after \subseteq DOMAIN before
  /\ alive \subseteq Procs /\ sampled \subseteq Procs
  /\ phase = "window" => \A g \in DOMAIN before \cap DOMAIN meter : Metered(meter, g)
  /\ phase = "reported" => \A g \in DOMAIN before \cap DOMAIN after : Metered(after, g)

\* A control group has finitely many processes.
LEMMA MembersFinite == \A g : Members(g) \in SUBSET Procs /\ IsFiniteSet(Members(g))
  BY LoadAssumption, FS_Subset DEF Members

\* What the processes of a group used is a number.
LEMMA RanType == ASSUME ran \in [Procs -> Nat], NEW g PROVE SumOf(ran, Members(g)) \in Nat
<1> DEFINE M == Members(g)
<1>1. IsFiniteSet(M) /\ \A p \in M : ran[p] \in Nat
  BY MembersFinite
<1> HIDE DEF M
<1>2. SumOf(ran, M) \in Nat
  BY <1>1, SumIs
<1> QED
  BY <1>2 DEF M

\* The invariant of the load scan holds before the first reading, and every step keeps it.
LEMMA LoadInvInit == LoadInit => LoadInv
  BY DEF LoadInit, LoadInv

LEMMA LoadInvStep == LoadInv /\ LoadNext => LoadInv'
<1> SUFFICES ASSUME LoadInv, LoadNext PROVE LoadInv'
  OBVIOUS
<1>0. ran \in [Procs -> Nat] /\ (\A g \in DOMAIN meter : meter[g] \in Nat) /\ alive \subseteq Procs /\ sampled \subseteq Procs
  BY DEF LoadInv
<1>a. (alive \subseteq Procs /\ sampled \subseteq Procs)'
  BY <1>0 DEF LoadNext, FirstReading, SecondReading, Burn, StartProc, ExitProc
<1>1. CASE FirstReading
  <2>p. PICK pids \in FirstPids(alive) : \E gs \in SUBSET Trackable(pids) : before' = Readings(gs)
    BY <1>1 DEF FirstReading
  <2>1. PICK gs \in SUBSET Trackable(pids) : before' = Readings(gs)
    BY <2>p
  <2>2. phase' = "window" /\ ran' = [p \in Procs |-> 0] /\ meter' = meter
    BY <1>1 DEF FirstReading
  <2>3. DOMAIN before' = gs /\ \A g \in gs : before'[g] = meter[g] /\ g \in Groups /\ LabelOf[g] # NoLabel /\ meter[g] \in Nat
    BY <1>0, <2>1 DEF Readings, Trackable
  <2>4. ran' \in [Procs -> Nat]
    BY <2>2
  <2>5. ASSUME NEW g PROVE SumOf(ran', Members(g)) = 0
    <3> DEFINE M == Members(g)
               w == ran'
               Good == {T \in SUBSET M : SumOf(w, T) = 0}
    <3>0. IsFiniteSet(M) /\ \A p \in M : w[p] = 0
      BY <2>2, MembersFinite
    <3> HIDE DEF M, w
    <3>f. \A T \in SUBSET M : IsFiniteSet(T)
      BY <3>0, FS_Subset
    <3>i. ASSUME NEW T \in SUBSET M
          PROVE  SumOf(w, {}) = 0 /\ \A p \in T : SumOf(w, T) = w[p] + SumOf(w, T \ {p})
      BY <3>0, <3>f, SumIs
    <3>1. {} \in Good
      BY <3>i
    <3>2. ASSUME NEW T \in SUBSET M, T # {}, \A p \in T : T \ {p} \in Good PROVE T \in Good
      <4>1. PICK p \in T : TRUE
        BY <3>2
      <4>2. SumOf(w, T) = w[p] + SumOf(w, T \ {p})
        BY <3>i
      <4>3. SumOf(w, T \ {p}) = 0 /\ w[p] = 0
        BY <3>0, <3>2
      <4>4. SumOf(w, T) = 0
        BY <4>2, <4>3
      <4> QED
        BY <4>4
    <3> HIDE DEF Good
    <3>3. \A T \in SUBSET M : T \in Good
      BY <3>0, <3>1, <3>2, PartInduction
    <3> QED
      BY <3>3 DEF Good, M, w
  <2>6. ASSUME NEW g \in gs PROVE Metered(meter, g)'
    BY <2>2, <2>3, <2>5 DEF Metered
  <2> QED
    BY <1>0, <1>a, <2>2, <2>3, <2>4, <2>6 DEF LoadInv
<1>2. CASE SecondReading
  <2>1. phase = "window" /\ phase' = "reported" /\ after' = Readings(DOMAIN before \cap DOMAIN meter) /\ UNCHANGED <<meter, ran, before, fresh>>
    BY <1>2 DEF SecondReading
  <2>2. DOMAIN after' = DOMAIN before \cap DOMAIN meter /\ \A g \in DOMAIN after' : after'[g] = meter[g]
    BY <2>1 DEF Readings
  <2>3. \A g \in DOMAIN after' : Metered(meter, g)
    BY <2>1, <2>2 DEF LoadInv
  <2>4. \A g \in DOMAIN after' : Metered(after, g)'
    BY <2>1, <2>2, <2>3 DEF Metered
  <2> QED
    BY <1>0, <1>a, <2>1, <2>2, <2>4 DEF LoadInv
<1>3. ASSUME NEW p \in Procs, Burn(p) PROVE LoadInv'
  <2>1. /\ phase \in {"before", "window"} /\ ran' = [ran EXCEPT ![p] = @ + 1] /\ UNCHANGED <<phase, before, fresh>>
        /\ meter' = IF GroupOf[p] \in DOMAIN meter THEN [meter EXCEPT ![GroupOf[p]] = @ + 1] ELSE meter
    BY <1>3 DEF Burn
  <2>2. ran' \in [Procs -> Nat]
    BY <1>0, <2>1
  <2>3. DOMAIN meter' = DOMAIN meter /\ \A g \in DOMAIN meter : meter'[g] = IF g = GroupOf[p] THEN meter[g] + 1 ELSE meter[g]
    BY <2>1
  <2>4. ASSUME NEW g PROVE SumOf(ran', Members(g)) = IF g = GroupOf[p] THEN SumOf(ran, Members(g)) + 1 ELSE SumOf(ran, Members(g))
    <3> DEFINE M == Members(g)
               w == ran
               v == ran'
    <3>1. IsFiniteSet(M) /\ (\A q \in M : w[q] \in Nat) /\ (p \in M <=> g = GroupOf[p])
      BY <1>0, MembersFinite DEF Members
    <3>2. (\A q \in M \ {p} : v[q] = w[q]) /\ v[p] = w[p] + 1
      BY <1>0, <2>1 DEF Members
    <3> HIDE DEF M, v, w
    <3>3. CASE p \in M
      <4>1. SumOf(v, M) = SumOf(w, M) + 1
        BY <3>1, <3>2, <3>3, SumBump
      <4> QED
        BY <3>1, <3>3, <4>1 DEF M, v, w
    <3>4. CASE p \notin M
      <4>1. \A q \in M : w[q] \in Nat /\ v[q] = w[q]
        BY <3>1, <3>2, <3>4
      <4>2. SumOf(v, M) = SumOf(w, M)
        BY <3>1, <4>1, SumSame
      <4> QED
        BY <3>1, <3>4, <4>2 DEF M, v, w
    <3> QED
      BY <3>3, <3>4
  <2>5. ASSUME NEW g \in DOMAIN meter, Metered(meter, g) PROVE Metered(meter, g)'
    <3>1. SumOf(ran, Members(g)) \in Nat /\ meter[g] \in Nat /\ before[g] \in Nat
      BY <1>0, <2>5, RanType DEF Metered
    <3>2. CASE g = GroupOf[p]
      <4> DEFINE used == SumOf(ran, Members(g))
      <4>1. SumOf(ran', Members(g)) = used + 1 /\ meter'[g] = meter[g] + 1 /\ before'[g] = before[g] /\ fresh' = fresh
        BY <2>1, <2>3, <2>4, <3>2
      <4>2. meter[g] <= before[g] + used /\ (g \notin fresh => meter[g] = before[g] + used)
        BY <2>5 DEF Metered
      <4> HIDE DEF used
      <4>3. meter[g] + 1 \in Nat /\ meter[g] + 1 <= before[g] + (used + 1) /\ (g \notin fresh => meter[g] + 1 = before[g] + (used + 1))
        BY <3>1, <4>2 DEF used
      <4> QED
        BY <3>1, <4>1, <4>3 DEF Metered, Members
    <3>3. CASE g # GroupOf[p]
      BY <2>1, <2>3, <2>4, <2>5, <3>1, <3>3 DEF Metered
    <3> QED
      BY <3>2, <3>3
  <2>6. \A g \in DOMAIN meter' : meter'[g] \in Nat
    BY <1>0, <2>3
  <2> QED
    BY <1>a, <2>1, <2>2, <2>3, <2>5, <2>6 DEF LoadInv
<1>4. ASSUME NEW p \in Procs, StartProc(p) PROVE LoadInv'
  <2>1. phase = "window" /\ UNCHANGED <<phase, ran, before>>
    BY <1>4 DEF StartProc
  <2> DEFINE g0 == GroupOf[p]
  <2>2. \/ UNCHANGED <<meter, fresh>>
        \/ g0 \notin DOMAIN meter /\ fresh' = fresh \cup {g0} /\ meter' = [x \in DOMAIN meter \cup {g0} |-> IF x = g0 THEN 0 ELSE meter[x]]
    BY <1>4 DEF StartProc
  <2>3. CASE UNCHANGED <<meter, fresh>>
    BY <1>0, <1>a, <2>1, <2>3 DEF LoadInv, Metered
  <2>4. CASE g0 \notin DOMAIN meter /\ fresh' = fresh \cup {g0} /\ meter' = [x \in DOMAIN meter \cup {g0} |-> IF x = g0 THEN 0 ELSE meter[x]]
    <3> HIDE DEF g0
    <3>1. DOMAIN meter' = DOMAIN meter \cup {g0} /\ meter'[g0] = 0 /\ \A x \in DOMAIN meter : meter'[x] = meter[x]
      BY <2>4
    <3>2. \A x \in DOMAIN meter' : meter'[x] \in Nat
      BY <1>0, <3>1
    <3>3. ASSUME NEW g \in DOMAIN before \cap DOMAIN meter' PROVE Metered(meter, g)'
      <4>1. CASE g = g0
        <5>1. SumOf(ran, Members(g)) \in Nat
          BY <1>0, RanType
        <5>2. before[g] \in Nat
          BY <2>1, <3>3 DEF LoadInv
        <5> QED
          BY <2>1, <2>4, <3>1, <4>1, <5>1, <5>2 DEF Metered
      <4>2. CASE g # g0
        <5>1. g \in DOMAIN meter /\ Metered(meter, g)
          BY <2>1, <3>1, <3>3, <4>2 DEF LoadInv
        <5> QED
          BY <2>1, <2>4, <3>1, <5>1 DEF Metered
      <4> QED
        BY <4>1, <4>2
    <3> QED
      BY <1>a, <1>0, <2>1, <3>2, <3>3 DEF LoadInv
  <2> QED
    BY <2>2, <2>3, <2>4
<1>5. ASSUME NEW p \in Procs, ExitProc(p) PROVE LoadInv'
  <2>1. phase = "window" /\ UNCHANGED <<phase, ran, before, fresh>>
    BY <1>5 DEF ExitProc
  <2>2. DOMAIN meter' \subseteq DOMAIN meter /\ \A g \in DOMAIN meter' : meter'[g] = meter[g]
    BY <1>5 DEF ExitProc
  <2>3. ASSUME NEW g \in DOMAIN before \cap DOMAIN meter' PROVE Metered(meter, g)'
    <3>1. Metered(meter, g)
      BY <2>1, <2>2 DEF LoadInv
    <3> QED
      BY <2>1, <2>2, <3>1 DEF Metered
  <2>4. \A g \in DOMAIN meter' : meter'[g] \in Nat
    BY <1>0, <2>2
  <2> QED
    BY <1>0, <1>a, <2>1, <2>3, <2>4 DEF LoadInv
<1> QED
  BY <1>1, <1>2, <1>3, <1>4, <1>5 DEF LoadNext

\* A step that leaves the load scan alone keeps it.
LEMMA LoadStill == LoadInv /\ UNCHANGED loadVars => LoadInv'
  BY DEF LoadInv, Metered, loadVars, Members

\* The processes a service answers for.
Theirs(l) == {p \in Procs : l \in {ServiceOf(p).label, LabelCached(p).label}}

\* What the groups of a service are charged is at most what their processes used, and all of
\* it when none of the groups is fresh.
LEMMA ExactCharge ==
  ASSUME LoadInv, phase = "reported", NEW l \in ExactLabels
  PROVE  LET both == {g \in DOMAIN after \cap DOMAIN before : LabelOf[g] = l}
             whole == UNION {Members(g) : g \in both}
         IN  /\ ExactCpu(l) \in Nat /\ whole \in SUBSET Theirs(l)
             /\ ExactCpu(l) <= SumOf(ran, whole)
             /\ both \cap fresh = {} => ExactCpu(l) = SumOf(ran, whole)
<1> DEFINE both == {g \in DOMAIN after \cap DOMAIN before : LabelOf[g] = l}
           whole == UNION {Members(g) : g \in both}
           delta == [g \in both |-> IF after[g] > before[g] THEN after[g] - before[g] ELSE 0]
           m == [g \in both |-> Members(g)]
           v == [g \in both |-> SumOf(ran, Members(g))]
<1>1. ExactCpu(l) = SumOf(delta, both)
  BY DEF ExactCpu, SumOf
<1>2. /\ ran \in [Procs -> Nat] /\ both \subseteq Groups /\ l # NoLabel
      /\ \A g \in both : Metered(after, g) /\ LabelOf[g] = l
  <2>1. \A g \in DOMAIN before : g \in Groups /\ LabelOf[g] # NoLabel
    BY DEF LoadInv
  <2>2. l # NoLabel
    BY <2>1 DEF ExactLabels
  <2> QED
    BY <2>1, <2>2 DEF LoadInv
<1>3. IsFiniteSet(both)
  BY <1>2, LoadAssumption, FS_Subset
<1>4. \A g \in both : v[g] \in Nat
  BY <1>2, RanType
<1>5. \A g \in both : delta[g] \in Nat /\ delta[g] <= v[g] /\ (g \notin fresh => delta[g] = v[g])
  <2> SUFFICES ASSUME NEW g \in both PROVE delta[g] \in Nat /\ delta[g] <= v[g] /\ (g \notin fresh => delta[g] = v[g])
    OBVIOUS
  <2>1. delta[g] = (IF after[g] > before[g] THEN after[g] - before[g] ELSE 0) /\ v[g] \in Nat
    BY <1>4
  <2>2. after[g] \in Nat /\ before[g] \in Nat /\ after[g] <= before[g] + v[g] /\ (g \notin fresh => after[g] = before[g] + v[g])
    BY <1>2 DEF Metered
  <2> HIDE DEF delta, v
  <2> QED
    BY <2>1, <2>2
<1>6. (\A g \in both : m[g] \in SUBSET Procs) /\ \A g, h \in both : g # h => m[g] \cap m[h] = {}
  BY DEF Members
<1>7. \A g \in both : v[g] = SumOf(ran, m[g])
  OBVIOUS
<1>8. whole = Joined(m, both)
  BY DEF Joined
<1>9. whole \in SUBSET Theirs(l)
  <2> SUFFICES ASSUME NEW g \in both, NEW p \in Members(g) PROVE p \in Theirs(l)
    OBVIOUS
  <2>1. p \in Procs /\ GroupOf[p] = g /\ g # NoGroup /\ LabelOf[g] # NoLabel /\ LabelOf[g] = l
    BY <1>2, LoadAssumption DEF Members
  <2>2. ServiceOf(p).label = l
    BY <2>1 DEF ServiceOf
  <2> QED
    BY <2>1, <2>2 DEF Theirs
<1> HIDE DEF both, whole, delta, m, v
<1>10. \A p \in Procs : ran[p] \in Nat
  BY <1>2
<1>11. SumOf(ran, Joined(m, both)) = SumOf(v, both)
  <2>1. IsFiniteSet(Procs)
    BY LoadAssumption
  <2> DEFINE w == ran
             S == Procs
  <2>2. IsFiniteSet(S) /\ (\A x \in S : w[x] \in Nat) /\ (\A g \in both : m[g] \in SUBSET S) /\ (\A g \in both : v[g] = SumOf(w, m[g]))
    BY <1>6, <1>7, <1>10, <2>1
  <2> HIDE DEF w, S
  <2>3. SumOf(w, Joined(m, both)) = SumOf(v, both)
    BY <1>3, <1>6, <2>2, SumJoin
  <2> QED
    BY <2>3 DEF w
<1>12. SumOf(delta, both) <= SumOf(v, both) /\ SumOf(delta, both) \in Nat
  <2>1. \A g \in both : delta[g] \in Nat /\ v[g] \in Nat /\ delta[g] <= v[g]
    BY <1>4, <1>5
  <2>2. SumOf(delta, both) <= SumOf(v, both)
    BY <1>3, <2>1, SumLe
  <2>3. SumOf(delta, both) \in Nat
    BY <1>3, <2>1, SumIs
  <2> QED
    BY <2>2, <2>3
<1>13. ASSUME both \cap fresh = {} PROVE SumOf(delta, both) = SumOf(v, both)
  <2>1. \A g \in both : v[g] \in Nat /\ delta[g] = v[g]
    BY <1>4, <1>5, <1>13
  <2> QED
    BY <1>3, <2>1, SumSame
<1>14. /\ ExactCpu(l) \in Nat /\ whole \in SUBSET Theirs(l)
       /\ ExactCpu(l) <= SumOf(ran, whole)
       /\ both \cap fresh = {} => ExactCpu(l) = SumOf(ran, whole)
  BY <1>1, <1>8, <1>9, <1>11, <1>12, <1>13
<1> QED
  BY <1>14 DEF both, whole

\* No service is charged more than its processes used.
LEMMA ChargedRight == LoadInv => NeverOvercharged
<1> SUFFICES ASSUME LoadInv, phase = "reported"
             PROVE  /\ \A l \in DOMAIN Services : Services[l].cpu <= Burnt(l)
                    /\ \A l \in ExactLabels :
                          LET gs == {g \in Groups : LabelOf[g] = l}
                          IN  gs \subseteq DOMAIN after \ fresh
                                 => Services[l].cpu = SumRan(UNION {Members(g) : g \in gs})
                    /\ \A p \in sampled : LabelCached(p).label \in DOMAIN Services
  BY DEF NeverOvercharged
<1>1. DOMAIN Services = {LabelCached(p).label : p \in sampled} \cup ExactLabels
  BY DEF Services
<1>2. \A l \in DOMAIN Services : Services[l].cpu = IF l \in ExactLabels THEN ExactCpu(l) ELSE SampledCpu(MembersOf(l))
  BY DEF Services
<1>3. ran \in [Procs -> Nat] /\ sampled \subseteq Procs /\ IsFiniteSet(Procs)
  BY LoadAssumption DEF LoadInv
<1>4. ASSUME NEW l, NEW T \in SUBSET Theirs(l) PROVE SumOf(ran, T) <= Burnt(l) /\ SumOf(ran, T) \in Nat /\ Burnt(l) \in Nat
  <2> DEFINE S == Theirs(l)
             w == ran
  <2>1. S \subseteq Procs /\ \A p \in S : w[p] \in Nat
    BY <1>3 DEF Theirs
  <2>2. IsFiniteSet(S) /\ IsFiniteSet(T)
    BY <1>3, <2>1, FS_Subset
  <2>3. Burnt(l) = SumOf(w, S)
    BY DEF Burnt, SumRan, SumOf, Theirs
  <2>4. T \in SUBSET S
    OBVIOUS
  <2> HIDE DEF S, w
  <2>5. SumOf(w, T) <= SumOf(w, S)
    BY <2>1, <2>2, <2>4, SumPart
  <2>6. SumOf(w, S) \in Nat
    BY <2>1, <2>2, SumIs
  <2>7. \A p \in T : w[p] \in Nat
    BY <2>1, <2>4
  <2>8. SumOf(w, T) \in Nat
    BY <2>2, <2>7, SumIs
  <2> QED
    BY <2>3, <2>5, <2>6, <2>8 DEF w
<1>5. ASSUME NEW l \in DOMAIN Services PROVE Services[l].cpu <= Burnt(l)
  <2>1. CASE l \in ExactLabels
    <3> DEFINE whole == UNION {Members(g) : g \in {h \in DOMAIN after \cap DOMAIN before : LabelOf[h] = l}}
    <3>1. ExactCpu(l) \in Nat /\ whole \in SUBSET Theirs(l) /\ ExactCpu(l) <= SumOf(ran, whole)
      BY <2>1, ExactCharge
    <3> HIDE DEF whole
    <3>2. SumOf(ran, whole) <= Burnt(l) /\ SumOf(ran, whole) \in Nat /\ Burnt(l) \in Nat
      BY <1>4, <3>1
    <3>3. Services[l].cpu = ExactCpu(l)
      BY <1>2, <2>1
    <3>4. ExactCpu(l) <= Burnt(l)
      BY <3>1, <3>2
    <3> QED
      BY <3>3, <3>4
  <2>2. CASE l \notin ExactLabels
    <3>1. Services[l].cpu = SumOf(ran, MembersOf(l) \cap first)
      BY <1>2, <2>2 DEF SampledCpu, SumRan, SumOf
    <3>2. MembersOf(l) \cap first \in SUBSET Theirs(l)
      BY <1>3 DEF MembersOf, Theirs
    <3> QED
      BY <1>4, <3>1, <3>2
  <2> QED
    BY <2>1, <2>2
<1>6. ASSUME NEW l \in ExactLabels, {g \in Groups : LabelOf[g] = l} \subseteq DOMAIN after \ fresh
      PROVE  Services[l].cpu = SumRan(UNION {Members(g) : g \in {h \in Groups : LabelOf[h] = l}})
  <2> DEFINE gs == {g \in Groups : LabelOf[g] = l}
             both == {g \in DOMAIN after \cap DOMAIN before : LabelOf[g] = l}
  <2>1. both = gs /\ both \cap fresh = {}
    BY <1>6 DEF LoadInv
  <2>2. both \cap fresh = {} => ExactCpu(l) = SumOf(ran, UNION {Members(g) : g \in both})
    BY ExactCharge
  <2>3. ExactCpu(l) = SumOf(ran, UNION {Members(g) : g \in gs})
    BY <2>1, <2>2
  <2>4. Services[l].cpu = ExactCpu(l)
    BY <1>1, <1>2
  <2> QED
    BY <2>3, <2>4 DEF SumRan, SumOf
<1>7. \A p \in sampled : LabelCached(p).label \in DOMAIN Services
  BY <1>1
<1> QED
  BY <1>5, <1>6, <1>7

-----------------------------------------------------------------------------
(* The load investigation, among the topics.                               *)

\* The invariant of the load scan, when that is what runs.
ChargeInv == topic = "load" => LoadInv

\* A service is never charged more CPU time than its processes used in the window, is charged
\* all of it when its groups were read twice, and no process is left out (exact_service_cpu and
\* build_services in investigate_load.rs), however many processes and control groups there are
\* and however they come and go.
THEOREM LoadChargedRightHolds == ScansSpec => []LoadChargedRight
<1>1. ScansInit => ChargeInv
  BY LoadInvInit DEF ScansInit, ChargeInv
<1>2. ChargeInv /\ [ScansNext]_scanVars => ChargeInv'
  <2> SUFFICES ASSUME ChargeInv, [ScansNext]_scanVars, topic' = "load" PROVE LoadInv'
    BY DEF ChargeInv
  <2>1. topic' = topic /\ (LoadNext \/ UNCHANGED loadVars)
    <3>1. CASE Scan
      BY <3>1 DEF Scan, StillLoad
    <3>2. CASE Answer
      BY <3>2 DEF Answer, StillAll, StillLoad
    <3>3. CASE UNCHANGED scanVars
      BY <3>3 DEF scanVars
    <3> QED
      BY <3>1, <3>2, <3>3 DEF ScansNext
  <2>2. LoadInv
    BY <2>1 DEF ChargeInv
  <2> QED
    BY <2>1, <2>2, LoadInvStep, LoadStill
<1>3. ChargeInv => LoadChargedRight
  BY ChargedRight DEF ChargeInv, LoadChargedRight
<1> QED
  BY <1>1, <1>2, <1>3, PTL DEF ScansSpec

-----------------------------------------------------------------------------
(* The disk investigation: what holds of the walk at every step.           *)

\* The scan root and the directories below it.
Folders == Dirs \cup {DiskRoot}

\* Directories that wait to be opened.
Stacked == UNION {Values(stack[t]) : t \in DOMAIN stack}

\* Directories that were put on a stack at some time.
Unfolded == {d \in tracked \ {DiskRoot} : Depth(ParentOf[d]) < opt.depth}

\* Directories that were opened.
OpenDirs == (Unfolded \ (shut \cup Stacked)) \cup IF stage # "open" /\ DiskRoot \notin shut THEN {DiskRoot} ELSE {}

\* Entries that were looked at.
LookedAt == {e \in Entries : ParentOf[e] \in OpenDirs /\ e \notin unread[ParentOf[e]]}

\* What the walk holds.
WalkTypes ==
  /\ stage \in {"open", "root", "turn", "drain", "done"} /\ opt \in Budgets
  /\ tracked \subseteq Folders /\ unread \in [Folders -> SUBSET Entries]
  /\ tops \in Seq(Dirs) /\ OnceEach(tops) /\ turns \in Seq(Values(tops))
  /\ stack \in [Values(tops) -> Seq(Dirs)] /\ cursor \in [Values(tops) -> Dirs \cup {NoDir}]
  /\ stage = "drain" => cur \in Values(tops)
  /\ \A t \in Values(tops) :
        ParentOf[t] = DiskRoot /\ t \in Unfolded /\ OnceEach(stack[t])
  /\ rep \in [unreadable : Nat, truncated : BOOLEAN, total : Nat, depthLimited : Nat, untracked : Nat, deduped : Nat]

\* Every directory is on one stack once, opened after that, and every entry looked at once.
WalkOnce ==
  /\ \A d \in Folders : unread[d] \subseteq Children(d) /\ (d \notin OpenDirs => unread[d] = {})
  /\ (tracked \ {DiskRoot}) \cup readFiles \subseteq LookedAt
  /\ \A t \in Values(tops) : \A d \in Values(stack[t]) : d \in Unfolded /\ t \in AncestorsOf[d]
  /\ \A t, u \in Values(tops) : t # u => Values(stack[t]) \cap Values(stack[u]) = {}
  /\ \A t \in Values(tops) : cursor[t] # NoDir => cursor[t] \in OpenDirs /\ t \in AncestorsOf[cursor[t]]
  /\ \A d \in Dirs : unread[d] # {} => \E t \in Values(tops) : cursor[t] = d

\* What was looked at and not counted is in the report.
WalkTold ==
  /\ 0 \notin inodes
  /\ \A e \in LookedAt :
        /\ e \in gone => rep.unreadable > 0
        /\ e \notin gone /\ KindOf[e] = "file" => Counted(e)
        /\ e \notin gone /\ KindOf[e] = "dir" => e \in tracked \/ rep.untracked > 0
  /\ tracked \ {DiskRoot} \subseteq Unfolded \/ rep.depthLimited > 0
  /\ (Unfolded \cap shut) \ Stacked # {} => rep.unreadable > 0
  /\ stage # "open" /\ DiskRoot \in shut => rep.unreadable > 0

\* The root was listed, and every first-level directory is finished or has its turn.
WalkTurns ==
  /\ stage \in {"root", "turn", "drain"} => DiskRoot \notin shut
  /\ stage \in {"turn", "drain"} => unread[DiskRoot] = {}
  /\ stage = "turn" => \A t \in Values(tops) : Finished(t) \/ t \in Values(turns)
  /\ stage = "drain" => \A t \in Values(tops) : Finished(t) \/ t \in Values(turns) \/ t = cur
  /\ stage = "done" /\ ~rep.truncated /\ rep.unreadable = 0 =>
        unread[DiskRoot] = {} /\ DiskRoot \notin shut /\ \A t \in Values(tops) : Finished(t)

\* Bytes are those of the files read below.
WalkBytes ==
  /\ readFiles \subseteq FilesOf /\ bytes \in [Folders -> Nat]
  /\ \A d \in Folders : bytes[d] = Sum(readFiles \cap Below(d))
  /\ rep.total = bytes[DiskRoot]
  /\ \A f \in readFiles : InodeOf[f] = 0 \/ InodeOf[f] \in inodes
  /\ \A f, g \in readFiles : f # g => InodeOf[f] = 0 \/ InodeOf[f] # InodeOf[g]

\* A file that is large enough and is no candidate any more has TopCount candidates above it.
WalkFiles ==
  /\ bigFiles \subseteq Eligible /\ Cardinality(bigFiles) <= KeepCount /\ floor \in Nat
  /\ \A f \in Eligible \ bigFiles : SizeOf[f] <= floor
  /\ floor > 0 \/ Eligible # bigFiles => TopCount <= Cardinality({g \in bigFiles : SizeOf[g] >= floor})

\* The first-level directories that had no slice yet.
Fresh == {t \in Values(tops) : stack[t] = <<t>>}

\* There is budget for one entry of each.
Ample == ~late /\ unread[DiskRoot] = {} /\ opt.entries >= Cardinality(Children(DiskRoot)) + Len(tops)

\* Of these something was read, or there was nothing to read.
Visited == {t \in Values(tops) : t \in shutTops \/ Children(t) = {} \/ Children(t) \ unread[t] # {}}

\* A first-level directory is fresh until it is opened, and those that are wait in front.
WalkFresh ==
  /\ seen \in Nat /\ spent \in Nat /\ quantum \in Nat /\ late \in BOOLEAN
  /\ \A t \in Values(tops) : t \in Values(stack[t]) => stack[t] = <<t>> /\ cursor[t] = NoDir
  /\ stage \in {"open", "root"} => turns = <<>> /\ \A t \in Values(tops) : stack[t] = <<t>>
  /\ stage = "open" => tops = <<>> /\ seen = 0
  /\ stage = "root" => seen = Cardinality(Children(DiskRoot) \ unread[DiskRoot])
  /\ OnceEach(turns) /\ (stage = "drain" => cur \notin Values(turns) /\ spent <= quantum /\ quantum > 0)
  /\ \A i, j \in 1..Len(turns) : i < j /\ turns[j] \in Fresh => turns[i] \in Fresh

\* With an ample budget an entry is left for each that is fresh.
WalkShares ==
  /\ stage = "turn" /\ Ample =>
        /\ Fresh \subseteq Values(turns) /\ seen + Cardinality(Fresh) <= opt.entries
        /\ Values(tops) \ Fresh \subseteq Visited
  /\ stage = "drain" /\ Ample =>
        /\ Fresh \ {cur} \subseteq Values(turns) /\ seen + Cardinality(Fresh \ {cur}) + (quantum - spent) <= opt.entries
        /\ cur \in Fresh => spent = 0
        /\ \A t \in Values(tops) \ Fresh : t \in Visited \/ (t = cur /\ cursor[t] = t /\ spent = 0)
  /\ stage = "done" /\ Ample => Fresh = {} /\ Values(tops) \subseteq Visited

\* Where the walk is, without the numbers.
WalkShape == WalkTypes /\ WalkOnce /\ WalkTold /\ WalkTurns

\* What every step of the walk keeps.
DiskInv == WalkShape /\ WalkBytes /\ WalkFiles /\ WalkFresh /\ WalkShares

-----------------------------------------------------------------------------
(* The tree.                                                               *)

\* An entry and what is above it: the function that is defined by going up exists, as the
\* least sets that are closed under going up.
LEMMA AncestorsAre ==
  \A d \in Entries \cup {DiskRoot} :
     AncestorsOf[d] = IF d = DiskRoot THEN {DiskRoot} ELSE {d} \cup AncestorsOf[ParentOf[d]]
<1> DEFINE P == Entries \cup {DiskRoot}
           Closed(S) == \A x \in S : x \in Entries => ParentOf[x] \in S
           Up(d) == {x \in P : \A S \in SUBSET P : d \in S /\ Closed(S) => x \in S}
           Rec(f) == f = [d \in P |-> IF d = DiskRoot THEN {DiskRoot} ELSE {d} \cup f[ParentOf[d]]]
           h == [d \in P |-> Up(d)]
<1>0. DiskRoot \notin Entries /\ \A e \in Entries : ParentOf[e] \in P
  BY TreeAssumption
<1>1. Up(DiskRoot) = {DiskRoot}
  <2>1. Closed({DiskRoot})
    BY <1>0
  <2> QED
    BY <2>1
<1>2. ASSUME NEW d \in Entries PROVE Up(d) = {d} \cup Up(ParentOf[d])
  <2>1. {d} \cup Up(ParentOf[d]) \subseteq Up(d)
    BY <1>0
  <2>2. ASSUME NEW x \in Up(d), x # d PROVE x \in Up(ParentOf[d])
    <3> SUFFICES ASSUME NEW S \in SUBSET P, ParentOf[d] \in S, Closed(S) PROVE x \in S
      OBVIOUS
    <3>1. Closed(S \cup {d})
      OBVIOUS
    <3>2. S \cup {d} \in SUBSET P /\ d \in S \cup {d}
      OBVIOUS
    <3> QED
      BY <2>2, <3>1, <3>2
  <2> QED
    BY <2>1, <2>2
<1>3. Rec(h)
  <2>1. \A d \in P : h[d] = IF d = DiskRoot THEN {DiskRoot} ELSE {d} \cup h[ParentOf[d]]
    <3> HIDE DEF Up
    <3> QED
      BY <1>0, <1>1, <1>2
  <2> HIDE DEF Up
  <2> QED
    BY <2>1
<1> HIDE DEF h
<1>4. Rec(AncestorsOf)
  BY <1>3 DEF AncestorsOf
<1> QED
  BY <1>4

\* Everything is below the root.
LEMMA AllBelow ==
  \A d \in Entries \cup {DiskRoot} :
     d \in AncestorsOf[d] /\ DiskRoot \in AncestorsOf[d] /\ AncestorsOf[d] \subseteq Entries \cup {DiskRoot}
<1> DEFINE Bad == {d \in Entries : ~(DiskRoot \in AncestorsOf[d] /\ AncestorsOf[d] \subseteq Entries \cup {DiskRoot})}
<1>1. Bad = {}
  <2> SUFFICES ASSUME Bad # {} PROVE FALSE
    OBVIOUS
  <2>1. PICK e \in Bad : ParentOf[e] \notin Bad
    BY TreeAssumption
  <2>2. ParentOf[e] \in Entries \cup {DiskRoot} /\ AncestorsOf[e] = {e} \cup AncestorsOf[ParentOf[e]]
    BY AncestorsAre, TreeAssumption
  <2>3. DiskRoot \in AncestorsOf[ParentOf[e]] /\ AncestorsOf[ParentOf[e]] \subseteq Entries \cup {DiskRoot}
    BY <2>1, <2>2, AncestorsAre
  <2> QED
    BY <2>1, <2>2, <2>3
<1> QED
  BY <1>1, AncestorsAre

\* An entry is below one first-level directory at most.
LEMMA OneTop ==
  \A d \in Entries : \A t, u \in AncestorsOf[d] \cap Children(DiskRoot) : t = u
<1> DEFINE Bad == {d \in Entries : \E t, u \in AncestorsOf[d] \cap Children(DiskRoot) : t # u}
<1> SUFFICES ASSUME Bad # {} PROVE FALSE
  OBVIOUS
<1>1. PICK e \in Bad : ParentOf[e] \notin Bad
  BY TreeAssumption
<1>2. PICK t, u \in AncestorsOf[e] \cap Children(DiskRoot) : t # u
  BY <1>1
<1>3. ParentOf[e] \in Entries \cup {DiskRoot} /\ AncestorsOf[e] = {e} \cup AncestorsOf[ParentOf[e]]
  BY AncestorsAre, TreeAssumption
<1>4. t \in Entries /\ u \in Entries /\ ParentOf[t] = DiskRoot /\ ParentOf[u] = DiskRoot
  BY DEF Children
<1>5. CASE ParentOf[e] = DiskRoot
  <2>1. AncestorsOf[DiskRoot] = {DiskRoot}
    BY AncestorsAre
  <2> QED
    BY <1>2, <1>3, <1>4, <1>5, <2>1, TreeAssumption
<1>6. CASE ParentOf[e] # DiskRoot
  <2>1. t # e /\ u # e
    BY <1>4, <1>6
  <2>2. t \in AncestorsOf[ParentOf[e]] /\ u \in AncestorsOf[ParentOf[e]]
    BY <1>2, <1>3, <2>1
  <2> QED
    BY <1>1, <1>2, <1>3, <1>6, <2>2
<1> QED
  BY <1>5, <1>6

-----------------------------------------------------------------------------
(* The largest files.                                                      *)

\* Files are finitely many and have a size.
LEMMA FilesFinite == \A F \in SUBSET FilesOf : IsFiniteSet(F) /\ Cardinality(F) \in Nat /\ \A f \in F : SizeOf[f] \in Nat
<1>1. \A F \in SUBSET FilesOf : IsFiniteSet(F)
  BY TreeAssumption, FS_Subset DEF FilesOf
<1> QED
  BY <1>1, TreeAssumption, FS_CardinalityType

\* There are n largest: without the smallest of all, the others have them.
LEMMA LargestIs ==
  ASSUME NEW F \in SUBSET FilesOf, NEW n \in Nat
  PROVE  LET T == Largest(F, n) IN
         /\ T \in SUBSET F
         /\ Cardinality(T) = IF Cardinality(F) < n THEN Cardinality(F) ELSE n
         /\ \A f \in F \ T, g \in T : SizeOf[f] <= SizeOf[g]
<1> DEFINE Top(G, T) == /\ Cardinality(T) = IF Cardinality(G) < n THEN Cardinality(G) ELSE n
                        /\ \A f \in G \ T, g \in T : SizeOf[f] <= SizeOf[g]
           Good == {G \in SUBSET F : \E T \in SUBSET G : Top(G, T)}
<1>0. \A G \in SUBSET F : IsFiniteSet(G) /\ Cardinality(G) \in Nat /\ \A f \in G : SizeOf[f] \in Nat
  BY FilesFinite
<1>1. {} \in Good
  <2>1. Top({}, {})
    BY FS_EmptySet
  <2> HIDE DEF Top
  <2> QED
    BY <2>1
<1>2. ASSUME NEW G \in SUBSET F, G # {}, \A x \in G : G \ {x} \in Good PROVE G \in Good
  <2>1. CASE Cardinality(G) <= n
    <3>1. Top(G, G)
      BY <1>0, <2>1
    <3> HIDE DEF Top
    <3> QED
      BY <3>1
  <2>2. CASE ~(Cardinality(G) <= n)
    <3> DEFINE sizes == {SizeOf[f] : f \in G}
    <3>1. sizes \subseteq Nat /\ \E m : m \in sizes
      BY <1>0, <1>2
    <3>2. PICK s \in sizes : \A j \in sizes : s <= j
      BY <3>1, LeastExists
    <3>3. PICK x \in G : \A f \in G : SizeOf[x] <= SizeOf[f]
      BY <3>2
    <3>4. PICK T \in SUBSET (G \ {x}) : Top(G \ {x}, T)
      BY <1>2
    <3>5. Cardinality(G \ {x}) = Cardinality(G) - 1 /\ Cardinality(G) \in Nat
      BY <1>0, FS_RemoveElement
    <3>6. Cardinality(T) = n
      BY <2>2, <3>4, <3>5
    <3>7. \A f \in G \ T, g \in T : SizeOf[f] <= SizeOf[g]
      BY <3>3, <3>4
    <3>8. T \in SUBSET G /\ Top(G, T)
      BY <1>0, <2>2, <3>6, <3>7
    <3> HIDE DEF Top
    <3> QED
      BY <3>8
  <2> QED
    BY <2>1, <2>2
<1>3. F \in Good
  <2>1. IsFiniteSet(F) /\ F \in SUBSET F
    BY <1>0
  <2> HIDE DEF Good
  <2> QED
    BY <1>1, <1>2, <2>1, PartInduction
<1>4. \E T \in SUBSET F : Top(F, T)
  BY <1>3
<1>5. Largest(F, n) = CHOOSE T \in SUBSET F : Top(F, T)
  BY DEF Largest
<1>6. Largest(F, n) \in SUBSET F /\ Top(F, Largest(F, n))
  BY <1>4, <1>5
<1> QED
  BY <1>6

-----------------------------------------------------------------------------
(* One entry of an open directory.                                         *)

\* The directory an entry leaves to be opened is the entry or none.
LEMMA PushedIs ==
  ASSUME NEW e, NEW d
  PROVE  \/ Pushed(e, d) = <<>> /\ Values(Pushed(e, d)) = {}
         \/ Pushed(e, d) = <<e>> /\ Values(Pushed(e, d)) = {e} /\ e \notin gone /\ KindOf[e] = "dir"
<1>1. Values(<<>>) = {} /\ Values(<<e>>) = {e}
  BY DEF Values
<1> QED
  BY <1>1 DEF Pushed

\* A step that looks at an entry of an open directory.
LooksAt(e, d) ==
  /\ d \in Folders /\ d \in OpenDirs /\ e \in unread[d]
  /\ Absorb(e, d)
  /\ UNCHANGED <<stage, opt, shut, gone>>
  /\ Stacked' = Stacked \cup Values(Pushed(e, d))

\* Where the step finds the entry.
LEMMA EntryNew ==
  ASSUME WalkTypes, WalkOnce, NEW e, NEW d, LooksAt(e, d)
  PROVE  /\ e \in Entries /\ ParentOf[e] = d /\ e # DiskRoot /\ e \notin LookedAt /\ e \notin tracked
         /\ e \notin readFiles /\ e \notin Unfolded /\ e \notin OpenDirs
<1>1. e \in Children(d)
  BY DEF LooksAt, WalkOnce
<1>2. e \in Entries /\ ParentOf[e] = d /\ e # DiskRoot
  BY <1>1, TreeAssumption DEF Children
<1>3. e \notin LookedAt
  BY <1>2 DEF LookedAt, LooksAt
<1>4. e \notin tracked /\ e \notin readFiles
  BY <1>2, <1>3 DEF WalkOnce
<1> QED
  BY <1>2, <1>3, <1>4 DEF Unfolded, OpenDirs

\* What the step does to directories, to the report and to the files read.
LEMMA AbsorbDoes ==
  ASSUME WalkTypes, WalkOnce, NEW e, NEW d, LooksAt(e, d)
  PROVE  /\ Unfolded' = Unfolded \cup Values(Pushed(e, d)) /\ tracked \subseteq tracked' /\ tracked' \subseteq tracked \cup {e}
         /\ readFiles \subseteq readFiles' /\ readFiles' \subseteq readFiles \cup {e} /\ inodes \subseteq inodes'
         /\ tracked' \subseteq Folders /\ Values(Pushed(e, d)) \subseteq Dirs \cap {e}
         /\ (rep \in [unreadable : Nat, truncated : BOOLEAN, total : Nat, depthLimited : Nat, untracked : Nat, deduped : Nat])'
         /\ rep'.truncated = rep.truncated
         /\ (rep.unreadable > 0 => rep'.unreadable > 0) /\ (rep.untracked > 0 => rep'.untracked > 0)
         /\ (rep.depthLimited > 0 => rep'.depthLimited > 0)
         /\ 0 \notin inodes => 0 \notin inodes'
         /\ e \in gone => rep'.unreadable > 0
         /\ e \notin gone /\ KindOf[e] = "file" /\ 0 \notin inodes => Counted(e)'
         /\ e \notin gone /\ KindOf[e] = "dir" => e \in tracked' \/ rep'.untracked > 0
         /\ e \in tracked' => e \in Unfolded' \/ rep'.depthLimited > 0
<1>0. e \in Entries /\ ParentOf[e] = d /\ e # DiskRoot /\ e \notin tracked
  BY EntryNew
<1>t. /\ rep \in [unreadable : Nat, truncated : BOOLEAN, total : Nat, depthLimited : Nat, untracked : Nat, deduped : Nat]
      /\ tracked \subseteq Folders /\ opt' = opt
  BY DEF WalkTypes, LooksAt
<1>n. Cardinality(tracked) \in Nat /\ opt.tracked \in Nat
  <2>1. IsFiniteSet(Folders)
    BY TreeAssumption, FS_Subset, FS_AddElement DEF Folders, Dirs
  <2> QED
    BY <1>t, <2>1, FS_Subset, FS_CardinalityType, BudgetAssumption DEF WalkTypes
<1> DEFINE V == Values(Pushed(e, d))
<1>s. KindOf[e] = "file" => SizeOf[e] \in Nat
  BY <1>0, TreeAssumption DEF FilesOf
<1>1. CASE AbsorbSkipped(e)
  <2>1. V = {} /\ tracked' = tracked /\ rep' = rep /\ readFiles' = readFiles /\ inodes' = inodes /\ e \notin gone /\ KindOf[e] \in {"link", "mount"}
    BY <1>1, PushedIs DEF AbsorbSkipped, UncountedFile
  <2>2. Unfolded' = Unfolded
    BY <1>t, <2>1 DEF Unfolded
  <2> HIDE DEF V
  <2>3. \A x : x \in V => FALSE
    BY <2>1
  <2> QED
    BY <1>0, <1>t, <2>1, <2>2 DEF V
<1>2. CASE AbsorbFailed(e)
  <2>1. V = {} /\ tracked' = tracked /\ rep' = [rep EXCEPT !.unreadable = @ + 1] /\ readFiles' = readFiles /\ inodes' = inodes /\ e \in gone
    BY <1>2, PushedIs DEF AbsorbFailed, UncountedFile, NoteUnreadable
  <2>2. Unfolded' = Unfolded
    BY <1>t, <2>1 DEF Unfolded
  <2> QED
    BY <1>0, <1>t, <2>1, <2>2
<1>3. CASE AbsorbDir(e, d)
  <2>1. e \notin gone /\ KindOf[e] = "dir" /\ readFiles' = readFiles /\ inodes' = inodes /\ e \in Dirs
    BY <1>0, <1>3 DEF AbsorbDir, UncountedFile, Dirs
  <2>2. CASE Cardinality(tracked) >= opt.tracked
    <3>1. tracked' = tracked /\ rep' = [rep EXCEPT !.untracked = @ + 1]
      BY <1>3, <2>2 DEF AbsorbDir
    <3>2. V = {} 
      <4>1. ~(Cardinality(tracked) < opt.tracked)
        BY <1>n, <2>2
      <4>2. Pushed(e, d) = <<>>
        BY <4>1 DEF Pushed
      <4> QED
        BY <4>2 DEF Values
    <3>3. Unfolded' = Unfolded
      BY <1>t, <3>1 DEF Unfolded
    <3> QED
      BY <1>0, <1>t, <2>1, <3>1, <3>2, <3>3
  <2>3. CASE ~(Cardinality(tracked) >= opt.tracked)
    <3>1. tracked' = tracked \cup {e} /\ rep' = IF Depth(d) < opt.depth THEN rep ELSE [rep EXCEPT !.depthLimited = @ + 1]
      BY <1>3, <2>3 DEF AbsorbDir
    <3>2. Unfolded' = Unfolded \cup IF Depth(d) < opt.depth THEN {e} ELSE {}
      BY <1>0, <1>t, <3>1 DEF Unfolded
    <3>3. V = IF Depth(d) < opt.depth THEN {e} ELSE {}
      <4>1. Cardinality(tracked) < opt.tracked
        BY <1>n, <2>3
      <4>2. Pushed(e, d) = IF Depth(d) < opt.depth THEN <<e>> ELSE <<>>
        BY <2>1, <4>1 DEF Pushed
      <4>3. Values(<<>>) = {} /\ Values(<<e>>) = {e}
        BY DEF Values
      <4> HIDE DEF Depth
      <4> QED
        BY <4>2, <4>3
    <3> HIDE DEF V
    <3> QED
      BY <1>0, <1>t, <2>1, <3>1, <3>2, <3>3 DEF Folders, V
  <2> QED
    BY <2>2, <2>3
<1>4. CASE AbsorbLinked(e)
  <2>1. /\ V = {} /\ tracked' = tracked /\ rep' = [rep EXCEPT !.deduped = @ + SizeOf[e]] /\ readFiles' = readFiles /\ inodes' = inodes
        /\ e \notin gone /\ KindOf[e] = "file" /\ InodeOf[e] \in inodes
    BY <1>4, PushedIs DEF AbsorbLinked, UncountedFile
  <2>2. Unfolded' = Unfolded
    BY <1>t, <2>1 DEF Unfolded
  <2>3. 0 \notin inodes => Counted(e)'
    BY <2>1 DEF Counted
  <2> QED
    BY <1>0, <1>s, <1>t, <2>1, <2>2, <2>3
<1>5. CASE AbsorbFile(e, d)
  <2>1. /\ V = {} /\ tracked' = tracked /\ rep' = [rep EXCEPT !.total = @ + SizeOf[e]] /\ readFiles' = readFiles \cup {e}
        /\ e \notin gone /\ KindOf[e] = "file"
        /\ inodes' = IF InodeOf[e] = 0 THEN inodes ELSE inodes \cup {InodeOf[e]}
    BY <1>5, PushedIs DEF AbsorbFile
  <2>2. Unfolded' = Unfolded
    BY <1>t, <2>1 DEF Unfolded
  <2>3. Counted(e)'
    BY <2>1 DEF Counted
  <2> QED
    BY <1>0, <1>s, <1>t, <2>1, <2>2, <2>3
<1> QED
  BY <1>1, <1>2, <1>3, <1>4, <1>5 DEF LooksAt, Absorb

\* Where the step leaves the walk.
LEMMA AbsorbLeaves ==
  ASSUME WalkTypes, WalkOnce, NEW e, NEW d, LooksAt(e, d)
  PROVE  /\ OpenDirs' = OpenDirs /\ LookedAt' = LookedAt \cup {e}
         /\ (unread \in [Folders -> SUBSET Entries])' /\ unread'[d] = unread[d] \ {e}
         /\ \A x \in Folders \ {d} : unread'[x] = unread[x]
         /\ (\A x \in Folders : unread[x] \subseteq Children(x) /\ (x \notin OpenDirs => unread[x] = {}))'
         /\ ((tracked \ {DiskRoot}) \cup readFiles \subseteq LookedAt)'
<1>0. e \in Entries /\ ParentOf[e] = d /\ e \notin OpenDirs /\ e # DiskRoot /\ d \in Folders /\ d \in OpenDirs
  BY EntryNew DEF LooksAt
<1>1. /\ Unfolded' = Unfolded \cup Values(Pushed(e, d)) /\ Values(Pushed(e, d)) \subseteq {e}
      /\ Stacked' = Stacked \cup Values(Pushed(e, d)) /\ UNCHANGED <<stage, shut>>
      /\ tracked' \subseteq tracked \cup {e} /\ readFiles' \subseteq readFiles \cup {e}
  BY AbsorbDoes DEF LooksAt
<1>2. OpenDirs' = OpenDirs
  BY <1>0, <1>1 DEF OpenDirs
<1>3. unread \in [Folders -> SUBSET Entries] /\ unread' = [unread EXCEPT ![d] = @ \ {e}]
  BY DEF WalkTypes, LooksAt, Absorb
<1>4. /\ unread' \in [Folders -> SUBSET Entries] /\ unread'[d] = unread[d] \ {e}
      /\ \A x \in Folders \ {d} : unread'[x] = unread[x]
  BY <1>0, <1>3
<1>5. OpenDirs \subseteq Folders
  BY DEF WalkTypes, OpenDirs, Unfolded, Folders
<1>6. LookedAt' = LookedAt \cup {e}
  BY <1>0, <1>2, <1>4, <1>5 DEF LookedAt
<1>7. (\A x \in Folders : unread[x] \subseteq Children(x) /\ (x \notin OpenDirs => unread[x] = {}))'
  BY <1>0, <1>2, <1>4 DEF WalkOnce, Children
<1>8. ((tracked \ {DiskRoot}) \cup readFiles \subseteq LookedAt)'
  BY <1>1, <1>6 DEF WalkOnce
<1> QED
  BY <1>2, <1>4, <1>6, <1>7, <1>8

\* What is told stays told.
LEMMA AbsorbTells ==
  ASSUME WalkTypes, WalkOnce, WalkTold, NEW e, NEW d, LooksAt(e, d)
  PROVE  WalkTold'
<1>1. 0 \notin inodes'
  BY AbsorbDoes DEF WalkTold
<1>2. ASSUME NEW x \in LookedAt'
      PROVE  /\ x \in gone' => rep'.unreadable > 0
             /\ x \notin gone' /\ KindOf[x] = "file" => Counted(x)'
             /\ x \notin gone' /\ KindOf[x] = "dir" => x \in tracked' \/ rep'.untracked > 0
  <2>0. gone' = gone
    BY DEF LooksAt
  <2>1. CASE x = e
    BY <2>0, <2>1, AbsorbDoes DEF WalkTold
  <2>2. CASE x # e
    <3>1. x \in LookedAt
      BY <1>2, <2>2, AbsorbLeaves
    <3>2. Counted(x) => Counted(x)'
      BY AbsorbDoes DEF Counted
    <3> QED
      BY <2>0, <3>1, <3>2, AbsorbDoes DEF WalkTold
  <2> QED
    BY <2>1, <2>2
<1>3. (tracked \ {DiskRoot} \subseteq Unfolded \/ rep.depthLimited > 0)'
  BY AbsorbDoes DEF WalkTold
<1>4. ((Unfolded \cap shut) \ Stacked # {} => rep.unreadable > 0)'
  BY AbsorbDoes DEF WalkTold, LooksAt
<1>5. (stage # "open" /\ DiskRoot \in shut => rep.unreadable > 0)'
  BY AbsorbDoes DEF WalkTold, LooksAt
<1> QED
  BY <1>1, <1>2, <1>3, <1>4, <1>5 DEF WalkTold

-----------------------------------------------------------------------------
(* Where the walk is.                                                      *)

\* The last member is taken off a stack.
LEMMA PopValues ==
  ASSUME NEW S, NEW s \in Seq(S), s # <<>>, OnceEach(s)
  PROVE  /\ Front(s) \in Seq(S) /\ Last(s) \in Values(s) /\ Last(s) \in S
         /\ Values(Front(s)) = Values(s) \ {Last(s)} /\ OnceEach(Front(s))
<1> DEFINE n == Len(s)
<1>1. n \in Nat \ {0} /\ \A k \in 1..n : s[k] \in S
  OBVIOUS
<1>2. Front(s) = SubSeq(s, 1, n - 1)
  BY DEF Front
<1>3. Front(s) \in Seq(S) /\ Len(Front(s)) = n - 1 /\ \A k \in 1..(n - 1) : Front(s)[k] = s[k]
  <2>1. \A k \in 1..(n - 1) : s[k] \in S
    BY <1>1
  <2>2. /\ SubSeq(s, 1, n - 1) \in Seq(S)
        /\ Len(SubSeq(s, 1, n - 1)) = IF 1 <= n - 1 THEN (n - 1) - 1 + 1 ELSE 0
        /\ \A k \in 1..((n - 1) - 1 + 1) : SubSeq(s, 1, n - 1)[k] = s[1 + k - 1]
    BY <1>1, <2>1, SubSeqProperties
  <2>3. (n - 1) - 1 + 1 = n - 1 /\ \A k \in 1..(n - 1) : 1 + k - 1 = k
    BY <1>1
  <2> QED
    BY <1>1, <1>2, <2>2, <2>3
<1>4. Last(s) = s[n]
  BY DEF Last
<1>5. \A k \in 1..n : k \in 1..(n - 1) \/ k = n
  BY <1>1
<1>6. \A k \in 1..(n - 1) : k \in 1..n /\ k # n
  BY <1>1
<1>7. Values(Front(s)) = Values(s) \ {Last(s)}
  <2>0. Values(Front(s)) = {s[k] : k \in 1..(n - 1)}
    BY <1>3 DEF Values
  <2>1. \A k \in 1..(n - 1) : s[k] \in Values(s) \ {Last(s)}
    BY <1>1, <1>4, <1>6 DEF Values, OnceEach
  <2>2. \A k \in 1..n : s[k] # Last(s) => s[k] \in {s[j] : j \in 1..(n - 1)}
    BY <1>4, <1>5
  <2> QED
    BY <2>0, <2>1, <2>2 DEF Values
<1>8. OnceEach(Front(s))
  BY <1>3, <1>6 DEF OnceEach
<1>9. n \in 1..n
  BY <1>1
<1> QED
  BY <1>1, <1>3, <1>4, <1>7, <1>8, <1>9 DEF Values

\* The first member is taken from a queue.
LEMMA HeadValues ==
  ASSUME NEW S, NEW s \in Seq(S), s # <<>>
  PROVE  /\ Tail(s) \in Seq(S) /\ Head(s) \in Values(s) /\ Head(s) \in S
         /\ Values(s) = {Head(s)} \cup Values(Tail(s))
         /\ OnceEach(s) => OnceEach(Tail(s)) /\ Head(s) \notin Values(Tail(s))
         /\ Len(Tail(s)) = Len(s) - 1 /\ \A k \in 1..Len(Tail(s)) : Tail(s)[k] = s[k + 1]
<1> DEFINE n == Len(s)
<1>1. n \in Nat \ {0} /\ \A k \in 1..n : s[k] \in S
  OBVIOUS
<1>2. Tail(s) \in Seq(S) /\ Len(Tail(s)) = n - 1 /\ (\A k \in 1..(n - 1) : Tail(s)[k] = s[k + 1]) /\ Head(s) = s[1]
  OBVIOUS
<1>3. \A k \in 1..(n - 1) : k + 1 \in 1..n /\ k + 1 # 1
  BY <1>1
<1>4. \A k \in 1..n : k = 1 \/ (k - 1 \in 1..(n - 1) /\ (k - 1) + 1 = k)
  BY <1>1
<1>5. 1 \in 1..n
  BY <1>1
<1>6. Values(Tail(s)) = {s[k + 1] : k \in 1..(n - 1)}
  BY <1>2 DEF Values
<1>7. Values(s) \subseteq {Head(s)} \cup Values(Tail(s))
  <2> SUFFICES ASSUME NEW k \in 1..n, k # 1 PROVE s[k] \in Values(Tail(s))
    BY <1>2 DEF Values
  <2>1. k - 1 \in 1..(n - 1) /\ (k - 1) + 1 = k
    BY <1>4
  <2>2. s[(k - 1) + 1] \in Values(Tail(s))
    BY <1>6, <2>1
  <2> QED
    BY <2>1, <2>2
<1>8. {Head(s)} \cup Values(Tail(s)) \subseteq Values(s)
  BY <1>2, <1>3, <1>5, <1>6 DEF Values
<1>9. ASSUME OnceEach(s) PROVE OnceEach(Tail(s)) /\ Head(s) \notin Values(Tail(s))
  <2>1. ASSUME NEW j \in 1..(n - 1), NEW k \in 1..(n - 1), Tail(s)[j] = Tail(s)[k] PROVE j = k
    <3>1. s[j + 1] = s[k + 1]
      BY <1>2, <2>1
    <3>2. j + 1 = k + 1
      BY <1>3, <1>9, <3>1 DEF OnceEach
    <3> QED
      BY <3>2
  <2>2. OnceEach(Tail(s))
    BY <1>2, <2>1 DEF OnceEach
  <2>3. \A k \in 1..(n - 1) : s[k + 1] # s[1]
    BY <1>3, <1>5, <1>9 DEF OnceEach
  <2> QED
    BY <1>2, <1>6, <2>2, <2>3
<1> QED
  BY <1>1, <1>2, <1>5, <1>7, <1>8, <1>9 DEF Values

\* Nothing is open that is no folder, and what waits is not open.
LEMMA Shape ==
  ASSUME WalkTypes, WalkOnce
  PROVE  /\ OpenDirs \subseteq Folders /\ Unfolded \subseteq Dirs /\ Stacked \subseteq Unfolded
         /\ DiskRoot \notin Dirs /\ NoDir \notin Dirs /\ Dirs \subseteq Entries /\ Stacked \cap OpenDirs = {}
         /\ \A t \in Values(tops) : Values(stack[t]) \subseteq Stacked
<1>1. DiskRoot \notin Dirs /\ NoDir \notin Dirs /\ Dirs \subseteq Entries
  BY TreeAssumption DEF Dirs
<1>2. Unfolded \subseteq Dirs
  BY DEF Unfolded, WalkTypes, Folders
<1>3. Stacked \subseteq Unfolded /\ \A t \in Values(tops) : Values(stack[t]) \subseteq Stacked
  BY DEF Stacked, WalkTypes, WalkOnce
<1>4. OpenDirs \subseteq Folders
  BY <1>2 DEF OpenDirs, Folders
<1>5. Stacked \cap OpenDirs = {}
  BY <1>1, <1>2, <1>3 DEF OpenDirs
<1> QED
  BY <1>1, <1>2, <1>3, <1>4, <1>5

\* The walk starts with nothing open.
LEMMA ShapeInit == ASSUME DiskInit PROVE WalkShape
<1>1. Values(tops) = {} /\ Values(turns) = {} /\ Values(<<>>) = {} /\ tops = <<>> /\ turns = <<>> /\ OnceEach(<<>>)
  BY DEF DiskInit, Values, OnceEach
<1>2. Unfolded = {} /\ OpenDirs = {} /\ LookedAt = {}
  BY DEF DiskInit, Unfolded, OpenDirs, LookedAt
<1>3. stack \in [{} -> Seq(Dirs)] /\ cursor \in [{} -> Dirs \cup {NoDir}]
  <2>1. <<>> = [x \in {} |-> x]
    OBVIOUS
  <2> QED
    BY <2>1 DEF DiskInit
<1>4. WalkTypes
  BY <1>1, <1>3 DEF DiskInit, WalkTypes, Folders
<1>5. WalkOnce
  <2>1. \A d \in Folders : unread[d] = {}
    BY DEF DiskInit, Folders
  <2>2. tracked \ {DiskRoot} = {} /\ readFiles = {}
    BY DEF DiskInit
  <2> QED
    BY <1>1, <1>2, <2>1, <2>2 DEF WalkOnce, Folders
<1>6. WalkTold
  <2>1. stage = "open" /\ inodes = {} /\ tracked \ {DiskRoot} = {}
    BY DEF DiskInit
  <2> QED
    BY <1>2, <2>1 DEF WalkTold
<1>7. WalkTurns
  BY DEF DiskInit, WalkTurns
<1> QED
  BY <1>4, <1>5, <1>6, <1>7 DEF WalkShape

\* The root is opened or not.
LEMMA ShapeOpenRoot == ASSUME WalkShape, OpenRoot PROVE WalkShape'
<1>0. /\ WalkTypes /\ WalkOnce /\ WalkTold /\ WalkTurns
      /\ UNCHANGED <<opt, shut, gone, tops, cursor, stack, turns, cur, tracked, inodes, readFiles>>
      /\ stage = "open" /\ stage' # "open"
  BY DEF WalkShape, OpenRoot, NoteUnreadable
<1>1. Unfolded' = Unfolded /\ Stacked' = Stacked
  BY <1>0 DEF Unfolded, Stacked
<1>t. rep \in [unreadable : Nat, truncated : BOOLEAN, total : Nat, depthLimited : Nat, untracked : Nat, deduped : Nat]
      /\ unread \in [Folders -> SUBSET Entries]
  BY <1>0 DEF WalkTypes
<1>2. CASE DiskRoot \in shut
  <2>1. rep' = [rep EXCEPT !.unreadable = @ + 1] /\ stage' = "done" /\ unread' = unread
    BY <1>2 DEF OpenRoot, NoteUnreadable
  <2>2. OpenDirs' = OpenDirs
    BY <1>0, <1>1, <1>2 DEF OpenDirs
  <2>3. LookedAt' = LookedAt
    BY <2>1, <2>2 DEF LookedAt
  <2>4. /\ (rep \in [unreadable : Nat, truncated : BOOLEAN, total : Nat, depthLimited : Nat, untracked : Nat, deduped : Nat])'
        /\ rep'.unreadable > 0 /\ rep'.untracked = rep.untracked /\ rep'.depthLimited = rep.depthLimited
    BY <1>t, <2>1
  <2>5. WalkTypes'
    BY <1>0, <1>1, <2>1, <2>4 DEF WalkTypes
  <2>6. WalkOnce'
    BY <1>0, <1>1, <2>1, <2>2, <2>3 DEF WalkOnce
  <2>7. WalkTold'
    BY <1>0, <1>1, <2>1, <2>3, <2>4 DEF WalkTold, Counted
  <2>8. WalkTurns'
    BY <2>1, <2>4 DEF WalkTurns
  <2> QED
    BY <2>5, <2>6, <2>7, <2>8 DEF WalkShape
<1>3. CASE DiskRoot \notin shut
  <2>1. rep' = rep /\ stage' = "root" /\ unread' = [unread EXCEPT ![DiskRoot] = Children(DiskRoot)]
    BY <1>3 DEF OpenRoot
  <2>s. DiskRoot \notin OpenDirs /\ OpenDirs \subseteq Folders /\ DiskRoot \in Folders /\ DiskRoot \notin Dirs /\ Folders = Dirs \cup {DiskRoot}
    BY <1>0, Shape DEF OpenDirs, Folders
  <2>2. OpenDirs' = OpenDirs \cup {DiskRoot}
    BY <1>0, <1>1, <1>3 DEF OpenDirs
  <2>3. /\ unread' \in [Folders -> SUBSET Entries] /\ unread'[DiskRoot] = Children(DiskRoot)
        /\ \A d \in Folders : d # DiskRoot => unread'[d] = unread[d]
    BY <1>t, <2>1, <2>s DEF Children
  <2>4. LookedAt' = LookedAt
    <3>1. ASSUME NEW e \in Entries PROVE (ParentOf[e] \in OpenDirs' /\ e \notin unread'[ParentOf[e]]) <=> (ParentOf[e] \in OpenDirs /\ e \notin unread[ParentOf[e]])
      <4>1. CASE ParentOf[e] = DiskRoot
        BY <2>3, <2>s, <4>1 DEF Children
      <4>2. CASE ParentOf[e] # DiskRoot
        BY <2>2, <2>3, <2>s, <4>2
      <4> QED
        BY <4>1, <4>2
    <3> QED
      BY <3>1 DEF LookedAt
  <2>5. WalkTypes'
    BY <1>0, <1>1, <2>1, <2>3 DEF WalkTypes
  <2>6. WalkOnce'
    BY <1>0, <1>1, <2>2, <2>3, <2>4, <2>s DEF WalkOnce
  <2>7. WalkTold'
    BY <1>0, <1>1, <1>3, <2>1, <2>4 DEF WalkTold, Counted
  <2>8. WalkTurns'
    BY <1>0, <1>3, <2>1 DEF WalkTurns
  <2> QED
    BY <2>5, <2>6, <2>7, <2>8 DEF WalkShape
<1> QED
  BY <1>2, <1>3

\* An entry of the root is looked at: a directory becomes a first-level one.
LEMMA ListRootLooks ==
  ASSUME WalkShape, ListRoot
  PROVE  \E e : /\ LooksAt(e, DiskRoot) /\ stage = "root"
                /\ UNCHANGED <<stage, opt, shut, gone, turns, cur, spent, quantum, late, shutTops, usage>>
                /\ \/ /\ Pushed(e, DiskRoot) = <<>> /\ Values(Pushed(e, DiskRoot)) = {}
                      /\ tops' = tops /\ stack' = stack /\ cursor' = cursor
                   \/ /\ Pushed(e, DiskRoot) = <<e>> /\ Values(Pushed(e, DiskRoot)) = {e} /\ e \in Dirs /\ e \notin Values(tops)
                      /\ tops' = Append(tops, e) /\ tops' \in Seq(Dirs) /\ OnceEach(tops') /\ Values(tops') = Values(tops) \cup {e}
                      /\ stack' \in [Values(tops') -> Seq(Dirs)] /\ cursor' \in [Values(tops') -> Dirs \cup {NoDir}]
                      /\ stack'[e] = <<e>> /\ cursor'[e] = NoDir
                      /\ \A t \in Values(tops) : stack'[t] = stack[t] /\ cursor'[t] = cursor[t]
<1>0. WalkTypes /\ WalkOnce
  BY DEF WalkShape
<1>u. stage = "root" /\ UNCHANGED <<stage, opt, shut, gone, turns, cur, spent, quantum, late, shutTops, usage>>
  BY DEF ListRoot
<1>1. PICK e \in unread[DiskRoot] :
          /\ Absorb(e, DiskRoot)
          /\ tops' = tops \o Pushed(e, DiskRoot)
          /\ stack' = [d \in DOMAIN stack \cup ToSet(Pushed(e, DiskRoot)) |->
                          IF d \in DOMAIN stack THEN stack[d] ELSE <<d>>]
          /\ cursor' = [d \in DOMAIN cursor \cup ToSet(Pushed(e, DiskRoot)) |->
                          IF d \in DOMAIN cursor THEN cursor[d] ELSE NoDir]
  BY DEF ListRoot
<1>2. DiskRoot \in Folders /\ DiskRoot \in OpenDirs
  BY <1>0, <1>1 DEF WalkOnce, Folders
<1>3. e \in Entries /\ e \notin LookedAt /\ e \notin tracked
  <2>1. e \in Entries /\ ParentOf[e] = DiskRoot
    BY <1>0, <1>1, <1>2 DEF WalkOnce, Children
  <2>2. e \notin LookedAt
    BY <1>1, <2>1 DEF LookedAt
  <2> QED
    BY <1>0, <2>1, <2>2, TreeAssumption DEF WalkOnce
<1>4. e \notin Values(tops)
  BY <1>0, <1>3 DEF WalkTypes, Unfolded
<1>5. /\ tops \in Seq(Dirs) /\ OnceEach(tops)
      /\ stack \in [Values(tops) -> Seq(Dirs)] /\ cursor \in [Values(tops) -> Dirs \cup {NoDir}]
  BY <1>0 DEF WalkTypes
<1>f. /\ DOMAIN stack = Values(tops) /\ DOMAIN cursor = Values(tops)
      /\ stack = [d \in DOMAIN stack |-> stack[d]] /\ cursor = [d \in DOMAIN cursor |-> cursor[d]]
  BY <1>5
<1>6. CASE Pushed(e, DiskRoot) = <<>>
  <2>1. ToSet(<<>>) = {} /\ Values(<<>>) = {}
    BY DEF ToSet, Values
  <2>2. DOMAIN stack' = DOMAIN stack /\ DOMAIN cursor' = DOMAIN cursor /\ tops' = tops
    BY <1>1, <1>5, <1>6, <1>f, <2>1
  <2>4. Stacked' = Stacked \cup Values(Pushed(e, DiskRoot))
    <3>1. \A t \in DOMAIN stack : stack'[t] = stack[t]
      BY <1>1
    <3> QED
      BY <1>6, <2>1, <2>2, <3>1 DEF Stacked
  <2>5. LooksAt(e, DiskRoot)
    BY <1>1, <1>2, <1>u, <2>4 DEF LooksAt
  <2>6. stack' = [d \in DOMAIN stack |-> stack[d]] /\ cursor' = [d \in DOMAIN cursor |-> cursor[d]]
    BY <1>1, <1>6, <2>1
  <2>7. stack' = stack /\ cursor' = cursor
    BY <2>6, <1>f
  <2> QED
    BY <1>6, <1>u, <2>1, <2>2, <2>5, <2>7
<1>7. CASE Pushed(e, DiskRoot) = <<e>>
  <2>1. ToSet(<<e>>) = {e} /\ Values(<<e>>) = {e}
    BY DEF ToSet, Values
  <2>2. e \in Dirs
    BY <1>3, <1>7, PushedIs DEF Dirs
  <2>3. tops' = Append(tops, e)
    BY <1>1, <1>5, <1>7, <2>2
  <2>4. tops' \in Seq(Dirs) /\ OnceEach(tops') /\ Values(tops') = Values(tops) \cup {e}
    BY <1>4, <1>5, <2>2, <2>3, AppendValues
  <2>5. /\ stack' = [d \in Values(tops) \cup {e} |-> IF d \in Values(tops) THEN stack[d] ELSE <<d>>]
        /\ cursor' = [d \in Values(tops) \cup {e} |-> IF d \in Values(tops) THEN cursor[d] ELSE NoDir]
    BY <1>1, <1>7, <1>f, <2>1
  <2>6. /\ stack' \in [Values(tops') -> Seq(Dirs)] /\ cursor' \in [Values(tops') -> Dirs \cup {NoDir}]
        /\ stack'[e] = <<e>> /\ cursor'[e] = NoDir
        /\ \A t \in Values(tops) : stack'[t] = stack[t] /\ cursor'[t] = cursor[t]
    <3>1. <<e>> \in Seq(Dirs)
      BY <2>2
    <3> QED
      BY <1>4, <1>5, <2>2, <2>4, <2>5, <3>1
  <2>7. Stacked' = Stacked \cup {e}
    <3>1. Stacked' = UNION {Values(stack'[t]) : t \in Values(tops) \cup {e}}
      BY <2>4, <2>6 DEF Stacked
    <3>2. Stacked = UNION {Values(stack[t]) : t \in Values(tops)}
      BY <1>f DEF Stacked
    <3>3. Values(stack'[e]) = {e} /\ \A t \in Values(tops) : Values(stack'[t]) = Values(stack[t])
      BY <2>1, <2>6
    <3> QED
      BY <3>1, <3>2, <3>3
  <2>8. LooksAt(e, DiskRoot)
    BY <1>1, <1>2, <1>7, <1>u, <2>1, <2>7 DEF LooksAt
  <2> QED
    BY <1>4, <1>7, <1>u, <2>1, <2>2, <2>3, <2>4, <2>6, <2>8
<1> QED
  BY <1>6, <1>7, PushedIs

\* A new first-level directory has a stack of its own.
LEMMA ShapeListRoot == ASSUME WalkShape, ListRoot PROVE WalkShape'
<1>0. WalkTypes /\ WalkOnce /\ WalkTold /\ WalkTurns
  BY DEF WalkShape
<1>1. PICK e : /\ LooksAt(e, DiskRoot) /\ stage = "root"
                /\ UNCHANGED <<stage, opt, shut, gone, turns, cur, spent, quantum, late, shutTops, usage>>
                /\ \/ /\ Pushed(e, DiskRoot) = <<>> /\ Values(Pushed(e, DiskRoot)) = {}
                      /\ tops' = tops /\ stack' = stack /\ cursor' = cursor
                   \/ /\ Pushed(e, DiskRoot) = <<e>> /\ Values(Pushed(e, DiskRoot)) = {e} /\ e \in Dirs /\ e \notin Values(tops)
                      /\ tops' = Append(tops, e) /\ tops' \in Seq(Dirs) /\ OnceEach(tops') /\ Values(tops') = Values(tops) \cup {e}
                      /\ stack' \in [Values(tops') -> Seq(Dirs)] /\ cursor' \in [Values(tops') -> Dirs \cup {NoDir}]
                      /\ stack'[e] = <<e>> /\ cursor'[e] = NoDir
                      /\ \A t \in Values(tops) : stack'[t] = stack[t] /\ cursor'[t] = cursor[t]
  BY ListRootLooks
<1>2. /\ e \in Entries /\ ParentOf[e] = DiskRoot /\ e \notin tracked /\ e \notin Unfolded
  BY <1>0, <1>1, EntryNew
<1>3. /\ Unfolded' = Unfolded \cup Values(Pushed(e, DiskRoot)) /\ (tracked \subseteq Folders)'
      /\ (rep \in [unreadable : Nat, truncated : BOOLEAN, total : Nat, depthLimited : Nat, untracked : Nat, deduped : Nat])'
  BY <1>0, <1>1, AbsorbDoes DEF Folders, Dirs
<1>4. /\ OpenDirs' = OpenDirs /\ (unread \in [Folders -> SUBSET Entries])'
      /\ \A x \in Folders \ {DiskRoot} : unread'[x] = unread[x]
      /\ (\A x \in Folders : unread[x] \subseteq Children(x) /\ (x \notin OpenDirs => unread[x] = {}))'
      /\ ((tracked \ {DiskRoot}) \cup readFiles \subseteq LookedAt)'
  BY <1>0, <1>1, AbsorbLeaves
<1>5. WalkTold'
  BY <1>0, <1>1, AbsorbTells
<1>6. WalkTurns'
  BY <1>0, <1>1 DEF WalkTurns
<1>d. DiskRoot \notin Dirs /\ NoDir \notin Dirs /\ Folders = Dirs \cup {DiskRoot} /\ (\A t \in Values(tops) : Values(stack[t]) \subseteq Unfolded)
  BY <1>0, Shape DEF Folders
<1>7. CASE tops' = tops /\ stack' = stack /\ cursor' = cursor /\ Values(Pushed(e, DiskRoot)) = {}
  <2>0. Unfolded' = Unfolded
    BY <1>3, <1>7
  <2>1. WalkTypes'
    BY <1>0, <1>1, <1>3, <1>4, <1>7, <2>0 DEF WalkTypes
  <2>2. WalkOnce'
    BY <1>0, <1>4, <1>7, <1>d, <2>0 DEF WalkOnce
  <2> QED
    BY <1>5, <1>6, <2>1, <2>2 DEF WalkShape
<1>8. CASE /\ Values(Pushed(e, DiskRoot)) = {e} /\ e \in Dirs /\ e \notin Values(tops)
           /\ tops' \in Seq(Dirs) /\ OnceEach(tops') /\ Values(tops') = Values(tops) \cup {e}
           /\ stack' \in [Values(tops') -> Seq(Dirs)] /\ cursor' \in [Values(tops') -> Dirs \cup {NoDir}]
           /\ stack'[e] = <<e>> /\ cursor'[e] = NoDir
           /\ \A t \in Values(tops) : stack'[t] = stack[t] /\ cursor'[t] = cursor[t]
  <2>0. Unfolded' = Unfolded \cup {e}
    BY <1>3, <1>8
  <2>v. Values(<<e>>) = {e} /\ OnceEach(<<e>>) /\ <<e>> \in Seq(Dirs)
    BY <1>8 DEF Values, OnceEach
  <2>s. Values(stack'[e]) = {e} /\ \A t \in Values(tops) : Values(stack'[t]) = Values(stack[t])
    BY <1>8, <2>v
  <2>t. (turns \in Seq(Values(tops)))'
    BY <1>0, <1>1, <1>8 DEF WalkTypes
  <2>a. (\A t \in Values(tops) : ParentOf[t] = DiskRoot /\ t \in Unfolded /\ OnceEach(stack[t]))'
    <3> SUFFICES ASSUME NEW t \in Values(tops)'
                 PROVE  ParentOf[t] = DiskRoot /\ t \in Unfolded' /\ OnceEach(stack'[t])
      OBVIOUS
    <3>1. CASE t = e
      BY <1>2, <1>8, <2>0, <2>v, <3>1
    <3>2. CASE t \in Values(tops)
      BY <1>0, <1>8, <2>0, <3>2 DEF WalkTypes
    <3> QED
      BY <1>8, <3>1, <3>2
  <2>1. WalkTypes'
    BY <1>0, <1>1, <1>3, <1>4, <1>8, <2>a, <2>t DEF WalkTypes
  <2>b. (\A t \in Values(tops) : \A d \in Values(stack[t]) : d \in Unfolded /\ t \in AncestorsOf[d])'
    <3>1. e \in AncestorsOf[e]
      BY <1>2, AllBelow
    <3> QED
      BY <1>0, <1>8, <2>0, <2>s, <3>1 DEF WalkOnce
  <2>c. (\A t, u \in Values(tops) : t # u => Values(stack[t]) \cap Values(stack[u]) = {})'
    <3> SUFFICES ASSUME NEW t \in Values(tops)', NEW u \in Values(tops)', t # u
                 PROVE  Values(stack'[t]) \cap Values(stack'[u]) = {}
      BY DEF Values
    <3>1. \A x \in Values(tops) : e \notin Values(stack'[x])
      BY <1>2, <1>d, <2>s
    <3>2. CASE t = e
      BY <1>8, <2>s, <3>1, <3>2
    <3>3. CASE u = e
      BY <1>8, <2>s, <3>1, <3>3
    <3>4. CASE t \in Values(tops) /\ u \in Values(tops)
      BY <1>0, <2>s, <3>4 DEF WalkOnce
    <3> QED
      BY <1>8, <3>2, <3>3, <3>4
  <2>e. (\A t \in Values(tops) : cursor[t] # NoDir => cursor[t] \in OpenDirs /\ t \in AncestorsOf[cursor[t]])'
    BY <1>0, <1>4, <1>8 DEF WalkOnce
  <2>f. (\A d \in Dirs : unread[d] # {} => \E t \in Values(tops) : cursor[t] = d)'
    <3> SUFFICES ASSUME NEW d \in Dirs, unread'[d] # {} PROVE \E t \in Values(tops)' : cursor'[t] = d
      OBVIOUS
    <3>1. unread[d] # {}
      BY <1>4, <1>d
    <3>2. PICK t \in Values(tops) : cursor[t] = d
      BY <1>0, <3>1 DEF WalkOnce
    <3> QED
      BY <1>8, <3>2
  <2>2. WalkOnce'
    BY <1>4, <2>b, <2>c, <2>e, <2>f DEF WalkOnce
  <2> QED
    BY <1>5, <1>6, <2>1, <2>2 DEF WalkShape
<1> QED
  BY <1>1, <1>7, <1>8

\* A step that opens nothing and looks at nothing: the directories stay what they are.
LEMMA NothingOpened ==
  ASSUME WalkTypes, WalkOnce, WalkTold,
         UNCHANGED <<opt, shut, gone, unread, tops, stack, tracked, inodes, readFiles>>, stage # "open", stage' # "open"
  PROVE  /\ Unfolded' = Unfolded /\ Stacked' = Stacked /\ OpenDirs' = OpenDirs /\ LookedAt' = LookedAt
         /\ (rep' = rep \/ rep' = [rep EXCEPT !.truncated = TRUE]) =>
               WalkTold' /\ rep'.unreadable = rep.unreadable
               /\ (rep \in [unreadable : Nat, truncated : BOOLEAN, total : Nat, depthLimited : Nat, untracked : Nat, deduped : Nat])'
<1>1. Unfolded' = Unfolded /\ Stacked' = Stacked
  BY DEF Unfolded, Stacked
<1>2. OpenDirs' = OpenDirs
  BY <1>1 DEF OpenDirs
<1>3. LookedAt' = LookedAt
  BY <1>2 DEF LookedAt
<1>4. ASSUME rep' = rep \/ rep' = [rep EXCEPT !.truncated = TRUE]
      PROVE  WalkTold' /\ rep'.unreadable = rep.unreadable
             /\ (rep \in [unreadable : Nat, truncated : BOOLEAN, total : Nat, depthLimited : Nat, untracked : Nat, deduped : Nat])'
  <2>1. /\ (rep \in [unreadable : Nat, truncated : BOOLEAN, total : Nat, depthLimited : Nat, untracked : Nat, deduped : Nat])'
        /\ rep'.unreadable = rep.unreadable /\ rep'.untracked = rep.untracked /\ rep'.depthLimited = rep.depthLimited
    BY <1>4 DEF WalkTypes
  <2>2. WalkTold'
    BY <1>1, <1>3, <2>1 DEF WalkTold, Counted
  <2> QED
    BY <2>1, <2>2
<1> QED
  BY <1>1, <1>2, <1>3, <1>4

\* All first-level directories get their turn, or the walk ends.
LEMMA ShapeRootListed == ASSUME WalkShape, RootListed PROVE WalkShape'
<1>0. /\ WalkTypes /\ WalkOnce /\ WalkTold /\ WalkTurns
      /\ UNCHANGED <<opt, shut, gone, unread, tops, cursor, stack, cur, tracked, inodes, readFiles>> /\ stage = "root" /\ stage' # "open"
      /\ (rep' = rep \/ rep' = [rep EXCEPT !.truncated = TRUE])
  BY DEF WalkShape, RootListed, Truncate
<1>1. /\ Unfolded' = Unfolded /\ Stacked' = Stacked /\ OpenDirs' = OpenDirs /\ LookedAt' = LookedAt
      /\ WalkTold'
      /\ (rep \in [unreadable : Nat, truncated : BOOLEAN, total : Nat, depthLimited : Nat, untracked : Nat, deduped : Nat])'
  BY <1>0, NothingOpened
<1>2. WalkOnce'
  BY <1>0, <1>1 DEF WalkOnce
<1>3. CASE Truncate /\ turns' = turns
  <2>1. WalkTypes'
    BY <1>0, <1>1, <1>3 DEF WalkTypes, Truncate
  <2>2. stage' = "done" /\ rep'.truncated = TRUE
    BY <1>0, <1>3 DEF Truncate, WalkTypes
  <2>3. WalkTurns'
    BY <2>2 DEF WalkTurns
  <2> QED
    BY <1>1, <1>2, <2>1, <2>3 DEF WalkShape
<1>4. CASE unread[DiskRoot] = {} /\ stage' = "turn" /\ turns' = tops
  <2>1. tops \in Seq(Values(tops))
    <3>1. \A k \in 1..Len(tops) : tops[k] \in Values(tops)
      BY DEF Values
    <3>2. Len(tops) \in Nat /\ tops = [k \in 1..Len(tops) |-> tops[k]]
      BY <1>0 DEF WalkTypes
    <3>3. tops \in [1..Len(tops) -> Values(tops)]
      BY <3>1, <3>2
    <3> QED
      BY <3>2, <3>3
  <2>2. WalkTypes'
    BY <1>0, <1>1, <1>4, <2>1 DEF WalkTypes
  <2>3. WalkTurns'
    BY <1>0, <1>4 DEF WalkTurns
  <2> QED
    BY <1>1, <1>2, <2>2, <2>3 DEF WalkShape
<1> QED
  BY <1>3, <1>4 DEF RootListed

\* The walk ends when nobody is waiting.
LEMMA ShapeNextTurn == ASSUME WalkShape, NextTurn PROVE WalkShape'
<1>0. /\ WalkTypes /\ WalkOnce /\ WalkTold /\ WalkTurns
      /\ UNCHANGED <<opt, shut, gone, unread, tops, cursor, stack, tracked, inodes, readFiles>> /\ stage = "turn" /\ stage' # "open"
      /\ (rep' = rep \/ rep' = [rep EXCEPT !.truncated = TRUE])
  BY DEF WalkShape, NextTurn, Truncate
<1>1. /\ Unfolded' = Unfolded /\ Stacked' = Stacked /\ OpenDirs' = OpenDirs /\ LookedAt' = LookedAt
      /\ WalkTold'
      /\ (rep \in [unreadable : Nat, truncated : BOOLEAN, total : Nat, depthLimited : Nat, untracked : Nat, deduped : Nat])'
  BY <1>0, NothingOpened
<1>2. WalkOnce'
  BY <1>0, <1>1 DEF WalkOnce
<1>f. \A t : Finished(t) => Finished(t)'
  BY <1>0 DEF Finished
<1>3. CASE Truncate /\ UNCHANGED <<turns, cur>>
  <2>1. WalkTypes'
    BY <1>0, <1>1, <1>3 DEF WalkTypes, Truncate
  <2>2. stage' = "done" /\ rep'.truncated = TRUE
    BY <1>0, <1>3 DEF Truncate, WalkTypes
  <2>3. WalkTurns'
    BY <2>2 DEF WalkTurns
  <2> QED
    BY <1>1, <1>2, <2>1, <2>3 DEF WalkShape
<1>4. CASE turns = <<>> /\ stage' = "done" /\ UNCHANGED <<turns, cur>>
  <2>1. WalkTypes'
    BY <1>0, <1>1, <1>4 DEF WalkTypes
  <2>2. Values(turns) = {}
    BY <1>4 DEF Values
  <2>3. WalkTurns'
    BY <1>0, <1>4, <1>f, <2>2 DEF WalkTurns
  <2> QED
    BY <1>1, <1>2, <2>1, <2>3 DEF WalkShape
<1>5. CASE turns # <<>> /\ cur' = Head(turns) /\ turns' = Tail(turns) /\ stage' = "drain"
  <2>1. turns \in Seq(Values(tops))
    BY <1>0 DEF WalkTypes
  <2>2. /\ Tail(turns) \in Seq(Values(tops)) /\ Head(turns) \in Values(tops)
        /\ Values(turns) = {Head(turns)} \cup Values(Tail(turns))
    BY <1>5, <2>1, HeadValues
  <2>3. WalkTypes'
    BY <1>0, <1>1, <1>5, <2>2 DEF WalkTypes
  <2>4. WalkTurns'
    BY <1>0, <1>5, <1>f, <2>2 DEF WalkTurns
  <2> QED
    BY <1>1, <1>2, <2>3, <2>4 DEF WalkShape
<1> QED
  BY <1>3, <1>4, <1>5 DEF NextTurn

\* A directory that is put aside is not forgotten.
LEMMA ShapeStopReading == ASSUME WalkShape, StopReading PROVE WalkShape'
<1>0. /\ WalkTypes /\ WalkOnce /\ WalkTold /\ WalkTurns
      /\ UNCHANGED <<opt, shut, gone, unread, tops, stack, cur, tracked, inodes, readFiles>> /\ stage = "drain" /\ stage' # "open"
      /\ (rep' = rep \/ rep' = [rep EXCEPT !.truncated = TRUE])
  BY DEF WalkShape, StopReading, Truncate, Reading
<1>1. /\ Unfolded' = Unfolded /\ Stacked' = Stacked /\ OpenDirs' = OpenDirs /\ LookedAt' = LookedAt
      /\ WalkTold'
      /\ (rep \in [unreadable : Nat, truncated : BOOLEAN, total : Nat, depthLimited : Nat, untracked : Nat, deduped : Nat])'
  BY <1>0, NothingOpened
<1>s. \/ cursor' = cursor /\ Truncate /\ turns' = turns
      \/ cursor' = cursor /\ stage' = "turn" /\ turns' = Append(turns, cur)
      \/ unread[cursor[cur]] = {} /\ cursor' = [cursor EXCEPT ![cur] = NoDir] /\ UNCHANGED <<stage, turns>>
  BY DEF StopReading
<1>c. cur \in Values(tops)
  BY <1>0 DEF WalkTypes
<1>2. CASE cursor' = cursor /\ ((Truncate /\ turns' = turns) \/ (stage' = "turn" /\ turns' = Append(turns, cur)))
  <2>1. WalkOnce'
    BY <1>0, <1>1, <1>2 DEF WalkOnce
  <2>f. \A t : Finished(t) => Finished(t)'
    BY <1>0, <1>2 DEF Finished
  <2>2. CASE Truncate /\ turns' = turns
    <3>1. WalkTypes'
      BY <1>0, <1>1, <1>2, <2>2 DEF WalkTypes, Truncate
    <3>2. stage' = "done" /\ rep'.truncated = TRUE
      BY <1>0, <2>2 DEF Truncate, WalkTypes
    <3>3. WalkTurns'
      BY <3>2 DEF WalkTurns
    <3> QED
      BY <1>1, <2>1, <3>1, <3>3 DEF WalkShape
  <2>3. CASE stage' = "turn" /\ turns' = Append(turns, cur)
    <3>1. turns \in Seq(Values(tops))
      BY <1>0 DEF WalkTypes
    <3>2. Append(turns, cur) \in Seq(Values(tops)) /\ Values(Append(turns, cur)) = Values(turns) \cup {cur}
      BY <1>c, <3>1, AppendValues
    <3>3. WalkTypes'
      BY <1>0, <1>1, <1>2, <2>3, <3>2 DEF WalkTypes
    <3>4. WalkTurns'
      BY <1>0, <2>3, <2>f, <3>2 DEF WalkTurns
    <3> QED
      BY <1>1, <2>1, <3>3, <3>4 DEF WalkShape
  <2> QED
    BY <1>2, <2>2, <2>3
<1>3. CASE unread[cursor[cur]] = {} /\ cursor' = [cursor EXCEPT ![cur] = NoDir] /\ UNCHANGED <<stage, turns>>
  <2>1. /\ cursor' \in [Values(tops) -> Dirs \cup {NoDir}] /\ cursor'[cur] = NoDir
        /\ \A t \in Values(tops) : t # cur => cursor'[t] = cursor[t]
    BY <1>0, <1>3, <1>c DEF WalkTypes
  <2>2. WalkTypes'
    BY <1>0, <1>1, <1>3, <2>1 DEF WalkTypes
  <2>3. (\A d \in Dirs : unread[d] # {} => \E t \in Values(tops) : cursor[t] = d)'
    <3> SUFFICES ASSUME NEW d \in Dirs, unread'[d] # {} PROVE \E t \in Values(tops)' : cursor'[t] = d
      OBVIOUS
    <3>1. PICK t \in Values(tops) : cursor[t] = d
      BY <1>0 DEF WalkOnce
    <3>2. t # cur
      BY <1>0, <1>3, <3>1
    <3> QED
      BY <1>0, <2>1, <3>1, <3>2
  <2>4. (\A t \in Values(tops) : cursor[t] # NoDir => cursor[t] \in OpenDirs /\ t \in AncestorsOf[cursor[t]])'
    BY <1>0, <1>1, <2>1 DEF WalkOnce
  <2>5. WalkOnce'
    BY <1>0, <1>1, <2>3, <2>4 DEF WalkOnce
  <2>6. \A t \in Values(tops) : Finished(t) => Finished(t)'
    BY <1>0, <2>1 DEF Finished
  <2>7. WalkTurns'
    BY <1>0, <1>3, <2>6 DEF WalkTurns
  <2> QED
    BY <1>1, <2>2, <2>5, <2>7 DEF WalkShape
<1> QED
  BY <1>2, <1>3, <1>s

\* An entry of the directory that is being read: a directory goes on the stack.
LEMMA ReadEntryLooks ==
  ASSUME WalkShape, ReadEntry
  PROVE  \E e : /\ LooksAt(e, cursor[cur]) /\ stage = "drain" /\ cur \in Values(tops) /\ cursor[cur] \in Dirs
                /\ UNCHANGED <<stage, opt, shut, gone, tops, cursor, turns, cur, quantum, late, shutTops, usage>>
                /\ spent' = spent + 1 /\ spent < quantum /\ ~Stops
                /\ stack' \in [Values(tops) -> Seq(Dirs)] /\ stack'[cur] = stack[cur] \o Pushed(e, cursor[cur])
                /\ Values(stack'[cur]) = Values(stack[cur]) \cup Values(Pushed(e, cursor[cur])) /\ OnceEach(stack'[cur])
                /\ \A t \in Values(tops) : t # cur => stack'[t] = stack[t]
<1>0. WalkTypes /\ WalkOnce
  BY DEF WalkShape
<1> DEFINE d == cursor[cur]
<1>u. /\ stage = "drain" /\ UNCHANGED <<stage, opt, shut, gone, tops, cursor, turns, cur, quantum, late, shutTops, usage>>
      /\ spent' = spent + 1 /\ spent < quantum /\ ~Stops /\ d # NoDir
  BY DEF ReadEntry, Reading
<1>1. PICK e \in unread[d] : Absorb(e, d) /\ stack' = [stack EXCEPT ![cur] = @ \o Pushed(e, d)]
  BY DEF ReadEntry
<1>c. /\ cur \in Values(tops) /\ stack \in [Values(tops) -> Seq(Dirs)] /\ d \in Dirs /\ OnceEach(stack[cur])
      /\ stack[cur] \in Seq(Dirs)
  BY <1>0, <1>u DEF WalkTypes
<1> HIDE DEF d
<1>2. d \in Folders /\ d \in OpenDirs
  BY <1>0, <1>1, <1>c DEF WalkOnce, Folders
<1>3. e \in Entries /\ e \notin Unfolded
  <2>1. e \in Entries /\ ParentOf[e] = d
    BY <1>0, <1>1, <1>2 DEF WalkOnce, Children
  <2>2. e \notin LookedAt
    BY <1>1, <2>1 DEF LookedAt
  <2> QED
    BY <1>0, <2>1, <2>2, TreeAssumption DEF WalkOnce, Unfolded
<1>4. Values(stack[cur]) \subseteq Unfolded
  BY <1>0, <1>c, Shape
<1>5. Pushed(e, d) \in Seq(Dirs) /\ OnceEach(Pushed(e, d)) /\ Values(Pushed(e, d)) \subseteq {e}
  <2>1. <<>> \in Seq(Dirs) /\ OnceEach(<<>>) /\ OnceEach(<<e>>) /\ (e \in Dirs => <<e>> \in Seq(Dirs))
    BY DEF OnceEach
  <2> QED
    BY <1>3, <2>1, PushedIs DEF Dirs
<1> DEFINE p == Pushed(e, d)
<1> HIDE DEF p
<1>6. /\ stack[cur] \o p \in Seq(Dirs) /\ Values(stack[cur] \o p) = Values(stack[cur]) \cup Values(p)
      /\ OnceEach(stack[cur] \o p)
  <2>1. Values(stack[cur]) \cap Values(p) = {} /\ p \in Seq(Dirs) /\ OnceEach(p)
    BY <1>3, <1>4, <1>5 DEF p
  <2> QED
    BY <1>c, <2>1, ConcatValues
<1>7. /\ stack' \in [Values(tops) -> Seq(Dirs)] /\ stack'[cur] = stack[cur] \o p
      /\ \A t \in Values(tops) : t # cur => stack'[t] = stack[t]
  BY <1>1, <1>6, <1>c DEF p
<1>8. Stacked' = Stacked \cup Values(p)
  <2>1. DOMAIN stack = Values(tops) /\ DOMAIN stack' = Values(tops)
    BY <1>7, <1>c
  <2>2. \A t \in Values(tops) : Values(stack'[t]) = Values(stack[t]) \cup IF t = cur THEN Values(p) ELSE {}
    BY <1>6, <1>7
  <2>3. Stacked = UNION {Values(stack[t]) : t \in Values(tops)} /\ Stacked' = UNION {Values(stack'[t]) : t \in Values(tops)}
    BY <2>1 DEF Stacked
  <2> QED
    BY <1>c, <2>2, <2>3
<1>9. LooksAt(e, d)
  BY <1>1, <1>2, <1>8, <1>u DEF LooksAt, p
<1> QED
  BY <1>6, <1>7, <1>9, <1>c, <1>u DEF d, p

\* What is read goes on the stack of the first-level directory it is below.
LEMMA ShapeReadEntry == ASSUME WalkShape, ReadEntry PROVE WalkShape'
<1>0. WalkTypes /\ WalkOnce /\ WalkTold /\ WalkTurns
  BY DEF WalkShape
<1> DEFINE d == cursor[cur]
<1>1. PICK e :  /\ LooksAt(e, d) /\ stage = "drain" /\ cur \in Values(tops) /\ d \in Dirs
                /\ UNCHANGED <<stage, opt, shut, gone, tops, cursor, turns, cur, quantum, late, shutTops, usage>>
                /\ stack' \in [Values(tops) -> Seq(Dirs)]
                /\ Values(stack'[cur]) = Values(stack[cur]) \cup Values(Pushed(e, d)) /\ OnceEach(stack'[cur])
                /\ \A t \in Values(tops) : t # cur => stack'[t] = stack[t]
  BY ReadEntryLooks
<1>c. cur \in AncestorsOf[d] /\ d # DiskRoot /\ d # NoDir /\ \A t \in Values(tops) : Values(stack[t]) \subseteq Unfolded
  BY <1>0, <1>1, Shape DEF WalkOnce
<1> HIDE DEF d
<1>2. e \in Entries /\ ParentOf[e] = d /\ e \notin tracked /\ e \notin Unfolded /\ e # DiskRoot
  BY <1>0, <1>1, EntryNew
<1>3. /\ Unfolded' = Unfolded \cup Values(Pushed(e, d)) /\ Values(Pushed(e, d)) \subseteq {e} /\ (tracked \subseteq Folders)'
      /\ (rep \in [unreadable : Nat, truncated : BOOLEAN, total : Nat, depthLimited : Nat, untracked : Nat, deduped : Nat])'
  BY <1>0, <1>1, AbsorbDoes DEF Folders, Dirs
<1>4. /\ OpenDirs' = OpenDirs /\ (unread \in [Folders -> SUBSET Entries])'
      /\ \A x \in Folders : unread'[x] \subseteq unread[x] /\ (x # d => unread'[x] = unread[x])
      /\ (\A x \in Folders : unread[x] \subseteq Children(x) /\ (x \notin OpenDirs => unread[x] = {}))'
      /\ ((tracked \ {DiskRoot}) \cup readFiles \subseteq LookedAt)'
  BY <1>0, <1>1, AbsorbLeaves
<1>5. WalkTold'
  BY <1>0, <1>1, AbsorbTells
<1>6. WalkTurns'
  <2>1. \A t \in Values(tops) : t # cur /\ Finished(t) => Finished(t)'
    BY <1>1 DEF Finished
  <2>2. unread'[DiskRoot] = unread[DiskRoot]
    BY <1>4, <1>c DEF Folders
  <2> QED
    BY <1>0, <1>1, <2>1, <2>2 DEF WalkTurns
<1>7. WalkTypes'
  BY <1>0, <1>1, <1>3, <1>4 DEF WalkTypes
<1>8. (\A t \in Values(tops) : \A x \in Values(stack[t]) : x \in Unfolded /\ t \in AncestorsOf[x])'
  <2>1. cur \in AncestorsOf[e]
    BY <1>2, <1>c, AncestorsAre
  <2>2. ASSUME NEW t \in Values(tops), NEW x \in Values(stack'[t]) PROVE x \in Unfolded' /\ t \in AncestorsOf[x]
    <3>1. CASE x \in Values(stack[t])
      BY <1>0, <1>3, <3>1 DEF WalkOnce
    <3>2. CASE t = cur /\ x \in Values(Pushed(e, d))
      BY <1>3, <2>1, <3>2
    <3> QED
      BY <1>1, <2>2, <3>1, <3>2
  <2> QED
    BY <1>1, <2>2
<1>9. (\A t, u \in Values(tops) : t # u => Values(stack[t]) \cap Values(stack[u]) = {})'
  <2> SUFFICES ASSUME NEW t \in Values(tops), NEW u \in Values(tops), t # u
               PROVE  Values(stack'[t]) \cap Values(stack'[u]) = {}
    BY <1>1
  <2>1. Values(stack[t]) \cap Values(stack[u]) = {} /\ e \notin Values(stack[t]) /\ e \notin Values(stack[u])
    BY <1>0, <1>2, <1>c DEF WalkOnce
  <2>2. CASE t = cur
    BY <1>1, <1>3, <2>1, <2>2
  <2>3. CASE u = cur
    BY <1>1, <1>3, <2>1, <2>3
  <2>4. CASE t # cur /\ u # cur
    BY <1>1, <2>1, <2>4
  <2> QED
    BY <2>2, <2>3, <2>4
<1>10. (\A t \in Values(tops) : cursor[t] # NoDir => cursor[t] \in OpenDirs /\ t \in AncestorsOf[cursor[t]])'
  BY <1>0, <1>1, <1>4 DEF WalkOnce
<1>11. (\A x \in Dirs : unread[x] # {} => \E t \in Values(tops) : cursor[t] = x)'
  <2>1. \A x \in Dirs : unread'[x] # {} => unread[x] # {}
    BY <1>4 DEF Folders
  <2> QED
    BY <1>0, <1>1, <2>1 DEF WalkOnce
<1>12. WalkOnce'
  BY <1>4, <1>8, <1>9, <1>10, <1>11 DEF WalkOnce
<1> QED
  BY <1>5, <1>6, <1>7, <1>12 DEF WalkShape

\* A directory that leaves the stack is open, or is reported.
LEMMA ShapeOpenNext == ASSUME WalkShape, OpenNext PROVE WalkShape'
<1>0. /\ WalkTypes /\ WalkOnce /\ WalkTold /\ WalkTurns /\ stage = "drain" /\ cursor[cur] = NoDir /\ cur \in Values(tops)
      /\ UNCHANGED <<opt, shut, gone, tops, turns, cur, tracked, inodes, readFiles>>
  BY DEF WalkShape, OpenNext, WalkTypes
<1>1. CASE /\ UNCHANGED <<cursor, stack, unread>>
           /\ (stack[cur] = <<>> /\ stage' = "turn" /\ rep' = rep) \/ Truncate
  <2>0. stage' # "open" /\ (rep' = rep \/ rep' = [rep EXCEPT !.truncated = TRUE])
    BY <1>1 DEF Truncate
  <2>1. /\ Unfolded' = Unfolded /\ Stacked' = Stacked /\ OpenDirs' = OpenDirs /\ LookedAt' = LookedAt
        /\ WalkTold'
        /\ (rep \in [unreadable : Nat, truncated : BOOLEAN, total : Nat, depthLimited : Nat, untracked : Nat, deduped : Nat])'
    BY <1>0, <1>1, <2>0, NothingOpened
  <2>2. WalkOnce'
    BY <1>0, <1>1, <2>1 DEF WalkOnce
  <2>3. WalkTypes'
    BY <1>0, <1>1, <2>1 DEF WalkTypes, Truncate
  <2>4. WalkTurns'
    <3>1. CASE stack[cur] = <<>> /\ stage' = "turn"
      <4>1. Finished(cur)
        BY <1>0, <3>1 DEF Finished
      <4>2. \A t : Finished(t) => Finished(t)'
        BY <1>1 DEF Finished
      <4> QED
        BY <1>0, <1>1, <3>1, <4>1, <4>2 DEF WalkTurns
    <3>2. CASE Truncate
      <4>1. stage' = "done" /\ rep'.truncated = TRUE
        BY <1>0, <3>2 DEF Truncate, WalkTypes
      <4> QED
        BY <4>1 DEF WalkTurns
    <3> QED
      BY <1>1, <3>1, <3>2
  <2> QED
    BY <2>1, <2>2, <2>3, <2>4 DEF WalkShape
<1> DEFINE d == Last(stack[cur])
<1>2. CASE /\ stack[cur] # <<>> /\ stage' = stage /\ stack' = [stack EXCEPT ![cur] = Front(@)]
           /\ IF d \in shut THEN NoteUnreadable /\ UNCHANGED <<cursor, unread>>
              ELSE /\ cursor' = [cursor EXCEPT ![cur] = d] /\ unread' = [unread EXCEPT ![d] = Children(d)] /\ rep' = rep
  <2>0. /\ stack \in [Values(tops) -> Seq(Dirs)] /\ stack[cur] \in Seq(Dirs) /\ OnceEach(stack[cur])
        /\ rep \in [unreadable : Nat, truncated : BOOLEAN, total : Nat, depthLimited : Nat, untracked : Nat, deduped : Nat]
        /\ cursor \in [Values(tops) -> Dirs \cup {NoDir}] /\ unread \in [Folders -> SUBSET Entries]
    BY <1>0 DEF WalkTypes
  <2>1. /\ Front(stack[cur]) \in Seq(Dirs) /\ d \in Values(stack[cur]) /\ d \in Dirs
        /\ Values(Front(stack[cur])) = Values(stack[cur]) \ {d} /\ OnceEach(Front(stack[cur]))
    BY <1>2, <2>0, PopValues
  <2> HIDE DEF d
  <2>2. /\ stack' \in [Values(tops) -> Seq(Dirs)] /\ OnceEach(stack'[cur])
        /\ Values(stack'[cur]) = Values(stack[cur]) \ {d} /\ \A t \in Values(tops) : t # cur => stack'[t] = stack[t]
    BY <1>0, <1>2, <2>0, <2>1
  <2>3. /\ d \in Stacked /\ d \in Unfolded /\ d \notin OpenDirs /\ d # DiskRoot /\ d # NoDir /\ cur \in AncestorsOf[d]
        /\ DiskRoot \notin Dirs /\ NoDir \notin Dirs /\ OpenDirs \subseteq Folders /\ Folders = Dirs \cup {DiskRoot} /\ Dirs \subseteq Entries
    BY <1>0, <2>1, Shape DEF WalkOnce, Folders
  <2>4. Stacked' = Stacked \ {d}
    <3>1. DOMAIN stack = Values(tops) /\ DOMAIN stack' = Values(tops)
      BY <2>0, <2>2
    <3>2. \A t \in Values(tops) : Values(stack'[t]) = Values(stack[t]) \ {d}
      <4>1. \A t \in Values(tops) : t # cur => d \notin Values(stack[t])
        BY <1>0, <2>1 DEF WalkOnce
      <4> QED
        BY <2>2, <4>1
    <3>3. Stacked = UNION {Values(stack[t]) : t \in Values(tops)} /\ Stacked' = UNION {Values(stack'[t]) : t \in Values(tops)}
      BY <3>1 DEF Stacked
    <3> QED
      BY <3>2, <3>3
  <2>5. Unfolded' = Unfolded
    BY <1>0 DEF Unfolded
  <2>6. (\A t \in Values(tops) : \A x \in Values(stack[t]) : x \in Unfolded /\ t \in AncestorsOf[x])'
    BY <1>0, <2>2, <2>5 DEF WalkOnce
  <2>7. (\A t, u \in Values(tops) : t # u => Values(stack[t]) \cap Values(stack[u]) = {})'
    <3> SUFFICES ASSUME NEW t \in Values(tops), NEW u \in Values(tops), t # u
                 PROVE  Values(stack'[t]) \cap Values(stack'[u]) = {}
      BY <1>0
    <3>1. Values(stack[t]) \cap Values(stack[u]) = {}
      BY <1>0 DEF WalkOnce
    <3>2. Values(stack'[t]) \subseteq Values(stack[t]) /\ Values(stack'[u]) \subseteq Values(stack[u])
      BY <2>2
    <3> QED
      BY <3>1, <3>2
  <2>8. CASE d \in shut
    <3>1. rep' = [rep EXCEPT !.unreadable = @ + 1] /\ UNCHANGED <<cursor, unread>>
      BY <1>2, <2>8 DEF NoteUnreadable
    <3>2. /\ (rep \in [unreadable : Nat, truncated : BOOLEAN, total : Nat, depthLimited : Nat, untracked : Nat, deduped : Nat])'
          /\ rep'.unreadable > 0 /\ rep'.untracked = rep.untracked /\ rep'.depthLimited = rep.depthLimited
      BY <2>0, <3>1
    <3>3. OpenDirs' = OpenDirs
      BY <1>0, <1>2, <2>3, <2>4, <2>5, <2>8 DEF OpenDirs
    <3>4. LookedAt' = LookedAt
      BY <3>1, <3>3 DEF LookedAt
    <3>5. WalkTypes'
      BY <1>0, <1>2, <2>2, <2>5, <3>1, <3>2 DEF WalkTypes
    <3>6. WalkOnce'
      BY <1>0, <2>6, <2>7, <3>1, <3>3, <3>4 DEF WalkOnce
    <3>7. WalkTold'
      BY <1>0, <2>5, <3>2, <3>4 DEF WalkTold, Counted
    <3>8. WalkTurns'
      <4>1. \A t \in Values(tops) : t # cur /\ Finished(t) => Finished(t)'
        BY <2>2, <3>1 DEF Finished
      <4> QED
        BY <1>0, <1>2, <3>1, <4>1 DEF WalkTurns
    <3> QED
      BY <3>5, <3>6, <3>7, <3>8 DEF WalkShape
  <2>9. CASE d \notin shut
    <3>1. cursor' = [cursor EXCEPT ![cur] = d] /\ unread' = [unread EXCEPT ![d] = Children(d)] /\ rep' = rep
      BY <1>2, <2>9
    <3>2. /\ cursor' \in [Values(tops) -> Dirs \cup {NoDir}] /\ cursor'[cur] = d
          /\ \A t \in Values(tops) : t # cur => cursor'[t] = cursor[t]
      BY <1>0, <2>0, <2>1, <3>1
    <3>3. /\ unread' \in [Folders -> SUBSET Entries] /\ unread'[d] = Children(d)
          /\ \A x \in Folders : x # d => unread'[x] = unread[x]
      BY <2>0, <2>1, <2>3, <3>1 DEF Children
    <3>4. OpenDirs' = OpenDirs \cup {d}
      BY <1>0, <1>2, <2>3, <2>4, <2>5, <2>9 DEF OpenDirs
    <3>5. LookedAt' = LookedAt
      <4>1. ASSUME NEW e \in Entries PROVE (ParentOf[e] \in OpenDirs' /\ e \notin unread'[ParentOf[e]]) <=> (ParentOf[e] \in OpenDirs /\ e \notin unread[ParentOf[e]])
        <5>1. CASE ParentOf[e] = d
          BY <2>3, <3>3, <5>1 DEF Children
        <5>2. CASE ParentOf[e] # d
          BY <2>3, <3>3, <3>4, <5>2
        <5> QED
          BY <5>1, <5>2
      <4> QED
        BY <4>1 DEF LookedAt
    <3>6. WalkTypes'
      BY <1>0, <1>2, <2>2, <2>5, <3>1, <3>2, <3>3 DEF WalkTypes
    <3>7. (\A x \in Folders : unread[x] \subseteq Children(x) /\ (x \notin OpenDirs => unread[x] = {}))'
      BY <1>0, <3>3, <3>4 DEF WalkOnce
    <3>8. (\A x \in Dirs : unread[x] # {} => \E t \in Values(tops) : cursor[t] = x)'
      <4> SUFFICES ASSUME NEW x \in Dirs, unread'[x] # {} PROVE \E t \in Values(tops) : cursor'[t] = x
        BY <1>0
      <4>1. CASE x = d
        BY <1>0, <3>2, <4>1
      <4>2. CASE x # d
        <5>1. PICK t \in Values(tops) : cursor[t] = x
          BY <1>0, <2>3, <3>3, <4>2 DEF WalkOnce
        <5>2. t # cur
          BY <1>0, <2>3, <5>1
        <5> QED
          BY <3>2, <5>1, <5>2
      <4> QED
        BY <4>1, <4>2
    <3>9. (\A t \in Values(tops) : cursor[t] # NoDir => cursor[t] \in OpenDirs /\ t \in AncestorsOf[cursor[t]])'
      BY <1>0, <2>3, <3>2, <3>4 DEF WalkOnce
    <3>10. WalkOnce'
      BY <1>0, <2>6, <2>7, <3>5, <3>7, <3>8, <3>9 DEF WalkOnce
    <3>11. WalkTold'
      BY <1>0, <1>2, <2>4, <2>5, <2>9, <3>1, <3>5 DEF WalkTold, Counted
    <3>12. WalkTurns'
      <4>1. \A t \in Values(tops) : t # cur /\ Finished(t) => Finished(t)'
        BY <2>2, <3>2 DEF Finished
      <4>2. unread'[DiskRoot] = unread[DiskRoot]
        BY <2>3, <3>3
      <4> QED
        BY <1>0, <1>2, <4>1, <4>2 DEF WalkTurns
    <3> QED
      BY <3>6, <3>10, <3>11, <3>12 DEF WalkShape
  <2> QED
    BY <2>8, <2>9
<1> QED
  BY <1>1, <1>2 DEF OpenNext

\* The clock changes nothing of it.
LEMMA ShapeTimeIsUp == ASSUME WalkShape, TimeIsUp \/ UNCHANGED diskVars PROVE WalkShape'
<1>0. /\ WalkTypes /\ WalkOnce /\ WalkTold /\ WalkTurns
      /\ UNCHANGED <<stage, opt, shut, gone, unread, tops, cursor, stack, turns, cur, tracked, inodes, readFiles, rep>>
  BY DEF WalkShape, TimeIsUp, diskVars
<1>1. Unfolded' = Unfolded /\ Stacked' = Stacked
  BY <1>0 DEF Unfolded, Stacked
<1>2. OpenDirs' = OpenDirs
  BY <1>0, <1>1 DEF OpenDirs
<1>3. LookedAt' = LookedAt
  BY <1>0, <1>2 DEF LookedAt
<1>4. WalkTypes'
  BY <1>0, <1>1 DEF WalkTypes
<1>5. WalkOnce'
  BY <1>0, <1>1, <1>2, <1>3 DEF WalkOnce
<1>6. WalkTold'
  BY <1>0, <1>1, <1>3 DEF WalkTold, Counted
<1>7. WalkTurns'
  BY <1>0 DEF WalkTurns, Finished
<1> QED
  BY <1>4, <1>5, <1>6, <1>7 DEF WalkShape

-----------------------------------------------------------------------------
(* What is counted.                                                        *)

\* What an entry that is no new file leaves as it was.
LEMMA AbsorbCounts ==
  ASSUME WalkTypes, NEW e \in Entries, NEW d, Absorb(e, d)
  PROVE  \/ AbsorbFile(e, d) /\ e \in FilesOf
         \/ UNCHANGED <<bytes, inodes, readFiles, bigFiles, floor>> /\ rep'.total = rep.total
<1>1. rep \in [unreadable : Nat, truncated : BOOLEAN, total : Nat, depthLimited : Nat, untracked : Nat, deduped : Nat]
  BY DEF WalkTypes
<1>2. CASE AbsorbSkipped(e)
  BY <1>2 DEF AbsorbSkipped, UncountedFile
<1>3. CASE AbsorbFailed(e)
  BY <1>1, <1>3 DEF AbsorbFailed, UncountedFile, NoteUnreadable
<1>4. CASE AbsorbDir(e, d)
  BY <1>1, <1>4 DEF AbsorbDir, UncountedFile
<1>5. CASE AbsorbLinked(e)
  BY <1>1, <1>5 DEF AbsorbLinked, UncountedFile
<1>6. CASE AbsorbFile(e, d)
  BY <1>6 DEF AbsorbFile, FilesOf
<1> QED
  BY <1>2, <1>3, <1>4, <1>5, <1>6 DEF Absorb

\* A sum over files.
LEMMA SumFiles ==
  ASSUME NEW F \in SUBSET FilesOf
  PROVE  Sum(F) \in Nat /\ Sum({}) = 0 /\ \A e \in FilesOf \ F : Sum(F \cup {e}) = Sum(F) + SizeOf[e]
<1>1. \A G : Sum(G) = SumOf(SizeOf, G)
  BY DEF Sum, SumOf
<1>2. IsFiniteSet(F) /\ \A f \in F : SizeOf[f] \in Nat
  BY FilesFinite
<1>3. SumOf(SizeOf, F) \in Nat /\ SumOf(SizeOf, {}) = 0
  BY <1>2, SumIs
<1>4. ASSUME NEW e \in FilesOf \ F PROVE SumOf(SizeOf, F \cup {e}) = SumOf(SizeOf, F) + SizeOf[e]
  <2> DEFINE G == F \cup {e}
  <2>1. G \in SUBSET FilesOf /\ e \in G /\ G \ {e} = F
    OBVIOUS
  <2>2. IsFiniteSet(G) /\ \A f \in G : SizeOf[f] \in Nat
    BY <2>1, FilesFinite
  <2> HIDE DEF G
  <2>3. SumOf(SizeOf, G) = SizeOf[e] + SumOf(SizeOf, G \ {e})
    BY <2>1, <2>2, SumIs
  <2>4. SizeOf[e] \in Nat
    BY <2>1, <2>2
  <2>5. SumOf(SizeOf, G) = SizeOf[e] + SumOf(SizeOf, F)
    BY <2>1, <2>3
  <2>6. SumOf(SizeOf, G) = SumOf(SizeOf, F) + SizeOf[e]
    BY <1>3, <2>4, <2>5
  <2> QED
    BY <2>6 DEF G
<1> QED
  BY <1>1, <1>3, <1>4

\* A file that is counted adds its bytes to the directories above it.
LEMMA BytesAbsorb ==
  ASSUME WalkTypes, WalkOnce, WalkBytes, NEW e, NEW d, LooksAt(e, d)
  PROVE  WalkBytes'
<1>0. e \in Entries /\ ParentOf[e] = d /\ e \notin readFiles /\ Absorb(e, d)
  BY EntryNew DEF LooksAt
<1>1. CASE UNCHANGED <<bytes, inodes, readFiles>> /\ rep'.total = rep.total
  BY <1>1 DEF WalkBytes
<1>2. CASE AbsorbFile(e, d) /\ e \in FilesOf
  <2>1. /\ readFiles' = readFiles \cup {e} /\ InodeOf[e] \notin inodes
        /\ inodes' = IF InodeOf[e] = 0 THEN inodes ELSE inodes \cup {InodeOf[e]}
        /\ rep' = [rep EXCEPT !.total = @ + SizeOf[e]]
        /\ bytes' = [x \in DOMAIN bytes |-> bytes[x] + IF x \in AncestorsOf[d] THEN SizeOf[e] ELSE 0]
    BY <1>2 DEF AbsorbFile
  <2>2. /\ readFiles \subseteq FilesOf /\ bytes \in [Folders -> Nat] /\ rep.total = bytes[DiskRoot]
        /\ \A x \in Folders : bytes[x] = Sum(readFiles \cap Below(x))
    BY DEF WalkBytes
  <2>3. SizeOf[e] \in Nat
    BY <1>2, TreeAssumption
  <2>4. DOMAIN bytes = Folders /\ (\A x \in Folders : bytes[x] \in Nat) /\ DiskRoot \in Folders
    BY <2>2 DEF Folders
  <2>5. \A x \in Folders : bytes'[x] = bytes[x] + IF x \in AncestorsOf[d] THEN SizeOf[e] ELSE 0
    BY <2>1, <2>4
  <2>6. bytes' \in [Folders -> Nat]
    BY <2>1, <2>3, <2>4
  <2>7. ASSUME NEW x \in Folders PROVE bytes'[x] = Sum(readFiles' \cap Below(x))
    <3> DEFINE F == readFiles \cap Below(x)
    <3>1. x \in AncestorsOf[e] <=> x \in AncestorsOf[d]
      <4>1. AncestorsOf[e] = {e} \cup AncestorsOf[d] /\ x # e
        BY <1>0, <1>2, AncestorsAre, TreeAssumption DEF Folders, Dirs, FilesOf
      <4> QED
        BY <4>1
    <3>2. F \in SUBSET FilesOf /\ e \in FilesOf \ F /\ bytes[x] = Sum(F)
      BY <1>0, <1>2, <2>2
    <3>3. CASE x \in AncestorsOf[d]
      <4>1. readFiles' \cap Below(x) = F \cup {e}
        BY <1>0, <2>1, <3>1, <3>3 DEF Below
      <4> HIDE DEF F
      <4>2. Sum(F \cup {e}) = Sum(F) + SizeOf[e]
        BY <3>2, SumFiles
      <4> QED
        BY <2>5, <3>2, <3>3, <4>1, <4>2
    <3>4. CASE x \notin AncestorsOf[d]
      <4>1. readFiles' \cap Below(x) = F
        BY <1>0, <2>1, <3>1, <3>4 DEF Below
      <4>2. bytes'[x] = bytes[x]
        BY <2>4, <2>5, <3>4
      <4> QED
        BY <3>2, <4>1, <4>2
    <3> QED
      BY <3>3, <3>4
  <2>8. rep'.total = bytes'[DiskRoot]
    <3>1. DiskRoot \in AncestorsOf[d]
      BY <1>0, AllBelow, TreeAssumption
    <3>2. rep'.total = rep.total + SizeOf[e]
      BY <2>1 DEF WalkTypes
    <3> QED
      BY <2>2, <2>4, <2>5, <3>1, <3>2
  <2>9. \A f \in readFiles' : InodeOf[f] = 0 \/ InodeOf[f] \in inodes'
    BY <2>1 DEF WalkBytes
  <2>10. \A f, g \in readFiles' : f # g => InodeOf[f] = 0 \/ InodeOf[f] # InodeOf[g]
    <3> SUFFICES ASSUME NEW f \in readFiles', NEW g \in readFiles', f # g, InodeOf[f] # 0, InodeOf[f] = InodeOf[g] PROVE FALSE
      OBVIOUS
    <3>1. CASE f \in readFiles /\ g \in readFiles
      BY <3>1 DEF WalkBytes
    <3>2. CASE f = e
      BY <2>1, <3>2 DEF WalkBytes
    <3>3. CASE g = e
      BY <2>1, <3>3 DEF WalkBytes
    <3> QED
      BY <2>1, <3>1, <3>2, <3>3
  <2>11. (readFiles \subseteq FilesOf)'
    BY <1>2, <2>1, <2>2
  <2>12. (\A x \in Folders : bytes[x] = Sum(readFiles \cap Below(x)))'
    BY <2>7
  <2> QED
    BY <2>6, <2>8, <2>9, <2>10, <2>11, <2>12 DEF WalkBytes
<1> QED
  BY <1>0, <1>1, <1>2, AbsorbCounts

\* The files that are listed are among those that are at least as large as c, if there are enough of these.
LEMMA LargestAbove ==
  ASSUME NEW F \in SUBSET FilesOf, NEW n \in Nat, NEW c \in Nat, n <= Cardinality({g \in F : SizeOf[g] >= c})
  PROVE  Cardinality(Largest(F, n)) = n /\ \A g \in Largest(F, n) : SizeOf[g] >= c
<1> DEFINE T == Largest(F, n)
           G == {g \in F : SizeOf[g] >= c}
<1>1. /\ T \in SUBSET F /\ Cardinality(T) = IF Cardinality(F) < n THEN Cardinality(F) ELSE n
      /\ \A f \in F \ T, g \in T : SizeOf[f] <= SizeOf[g]
  BY LargestIs
<1>2. G \in SUBSET F
  OBVIOUS
<1>3. IsFiniteSet(F) /\ IsFiniteSet(T) /\ IsFiniteSet(G) /\ Cardinality(F) \in Nat /\ Cardinality(G) \in Nat /\ \A f \in F : SizeOf[f] \in Nat
  <2>1. T \in SUBSET FilesOf /\ G \in SUBSET FilesOf
    BY <1>1, <1>2
  <2> HIDE DEF T, G
  <2> QED
    BY <2>1, FilesFinite
<1> HIDE DEF T
<1>4. Cardinality(G) <= Cardinality(F)
  <2> HIDE DEF G
  <2> QED
    BY <1>2, <1>3, FS_Subset
<1>5. Cardinality(T) = n
  BY <1>1, <1>3, <1>4
<1>6. ASSUME NEW g \in T, ~(SizeOf[g] >= c) PROVE FALSE
  <2>1. g \in F /\ g \notin G /\ SizeOf[g] \in Nat
    BY <1>1, <1>3, <1>6
  <2>2. G \subseteq T \ {g}
    <3> SUFFICES ASSUME NEW f \in G, f \notin T PROVE FALSE
      BY <2>1
    <3>1. SizeOf[f] <= SizeOf[g] /\ SizeOf[f] >= c /\ SizeOf[f] \in Nat
      BY <1>1, <1>3
    <3> QED
      BY <1>6, <2>1, <3>1
  <2> HIDE DEF G
  <2>3. IsFiniteSet(T \ {g}) /\ Cardinality(T \ {g}) = Cardinality(T) - 1
    BY <1>3, FS_RemoveElement
  <2>4. Cardinality(G) <= Cardinality(T \ {g})
    BY <2>2, <2>3, FS_Subset
  <2> QED
    BY <1>3, <1>5, <2>3, <2>4 DEF G
<1> QED
  BY <1>5, <1>6 DEF T

\* More candidates of the size are no fewer.
LEMMA CandidatesGrow ==
  ASSUME NEW F \in SUBSET FilesOf, NEW G \in SUBSET F, NEW c \in Nat
  PROVE  /\ Cardinality(G) \in Nat /\ Cardinality(F) \in Nat /\ Cardinality(G) <= Cardinality(F)
         /\ Cardinality({g \in G : SizeOf[g] >= c}) \in Nat /\ Cardinality({g \in F : SizeOf[g] >= c}) \in Nat
         /\ Cardinality({g \in G : SizeOf[g] >= c}) <= Cardinality({g \in F : SizeOf[g] >= c})
         /\ Cardinality({g \in F : SizeOf[g] >= c}) <= Cardinality(F)
<1> DEFINE A == {g \in G : SizeOf[g] >= c}
           B == {g \in F : SizeOf[g] >= c}
<1>1. A \in SUBSET B /\ B \in SUBSET F /\ B \in SUBSET FilesOf /\ A \in SUBSET FilesOf /\ G \in SUBSET FilesOf
  OBVIOUS
<1> HIDE DEF A, B
<1>2. IsFiniteSet(F) /\ IsFiniteSet(B) /\ Cardinality(A) \in Nat /\ Cardinality(B) \in Nat /\ Cardinality(G) \in Nat /\ Cardinality(F) \in Nat
  BY <1>1, FilesFinite
<1>3. Cardinality(A) <= Cardinality(B) /\ Cardinality(B) <= Cardinality(F) /\ Cardinality(G) <= Cardinality(F)
  BY <1>1, <1>2, FS_Subset
<1> QED
  BY <1>2, <1>3 DEF A, B

\* No file that is dropped from the candidates is one of the largest.
LEMMA FilesAbsorb ==
  ASSUME WalkTypes, WalkOnce, WalkBytes, WalkFiles, NEW e, NEW d, LooksAt(e, d)
  PROVE  WalkFiles'
<1>0. e \in Entries /\ ParentOf[e] = d /\ e \notin readFiles /\ Absorb(e, d)
  BY EntryNew DEF LooksAt
<1>1. CASE UNCHANGED <<readFiles, bigFiles, floor>>
  BY <1>1 DEF WalkFiles, Eligible
<1>2. CASE AbsorbFile(e, d) /\ e \in FilesOf /\ SizeOf[e] < MinSize
  <2>1. readFiles' = readFiles \cup {e} /\ ~(SizeOf[e] >= MinSize)
    BY <1>2, BudgetAssumption, TreeAssumption DEF AbsorbFile
  <2>2. Eligible' = Eligible
    BY <2>1 DEF Eligible
  <2>3. bigFiles' = bigFiles /\ floor' = floor
    BY <1>2 DEF AbsorbFile, Candidates
  <2> QED
    BY <2>2, <2>3 DEF WalkFiles
<1>3. CASE AbsorbFile(e, d) /\ e \in FilesOf /\ SizeOf[e] >= MinSize
  <2>1. /\ Eligible' = Eligible \cup {e} /\ bigFiles' = Candidates(e).files /\ floor' = Candidates(e).floor
        /\ ~(SizeOf[e] < MinSize)
    BY <1>3, BudgetAssumption, TreeAssumption DEF AbsorbFile, Eligible
  <2> DEFINE more == bigFiles \cup {e}
             cut == Largest(more, TopCount)
             sizes == {SizeOf[f] : f \in cut}
             Enough(B, c) == TopCount <= Cardinality({g \in B : SizeOf[g] >= c})
  <2>2. /\ bigFiles \subseteq Eligible /\ Eligible \subseteq FilesOf /\ Cardinality(bigFiles) <= KeepCount /\ floor \in Nat
        /\ \A f \in Eligible \ bigFiles : SizeOf[f] <= floor
        /\ floor > 0 \/ Eligible # bigFiles => Enough(bigFiles, floor)
    BY DEF WalkFiles, WalkBytes, Eligible
  <2>3. /\ more \in SUBSET FilesOf /\ SizeOf[e] \in Nat /\ (\A f \in Eligible' : SizeOf[f] \in Nat)
        /\ Cardinality(more) \in Nat /\ Cardinality(bigFiles) \in Nat
    <3>1. more \in SUBSET FilesOf /\ bigFiles \in SUBSET FilesOf /\ Eligible' \in SUBSET FilesOf /\ e \in FilesOf
      BY <1>3, <2>1, <2>2
    <3> HIDE DEF more
    <3> QED
      BY <3>1, FilesFinite, TreeAssumption
  <2>4. TopCount \in Nat \ {0} /\ KeepCount \in Nat /\ TopCount <= KeepCount
    BY BudgetAssumption
  <2>5. CASE ~(Cardinality(bigFiles) < KeepCount \/ SizeOf[e] > floor)
    <3>1. bigFiles' = bigFiles /\ floor' = floor
      BY <2>1, <2>5 DEF Candidates
    <3>2. SizeOf[e] <= floor
      BY <2>2, <2>3, <2>5
    <3>3. Enough(bigFiles, floor)
      <4>1. CASE floor = 0
        <5>1. {g \in bigFiles : SizeOf[g] >= floor} = bigFiles
          BY <2>1, <2>2, <2>3, <4>1
        <5>2. TopCount <= Cardinality(bigFiles)
          BY <2>2, <2>3, <2>4, <2>5
        <5> QED
          BY <5>1, <5>2
      <4>2. CASE floor # 0
        <5> HIDE DEF Enough
        <5> QED
          BY <2>2, <4>2
      <4> QED
        BY <4>1, <4>2
    <3>4. (\A f \in Eligible \ bigFiles : SizeOf[f] <= floor)'
      BY <2>1, <2>2, <3>1, <3>2
    <3> QED
      BY <2>1, <2>2, <3>1, <3>3, <3>4 DEF WalkFiles
  <2>6. CASE (Cardinality(bigFiles) < KeepCount \/ SizeOf[e] > floor) /\ Cardinality(more) > KeepCount
    <3>1. bigFiles' = cut /\ floor' = Min(sizes)
      BY <2>1, <2>6 DEF Candidates
    <3>2. /\ cut \in SUBSET more /\ Cardinality(cut) = IF Cardinality(more) < TopCount THEN Cardinality(more) ELSE TopCount
          /\ \A f \in more \ cut, g \in cut : SizeOf[f] <= SizeOf[g]
      <4> HIDE DEF more
      <4> QED
        BY <2>3, <2>4, LargestIs
    <3>3. Cardinality(cut) = TopCount
      BY <2>3, <2>4, <2>6, <3>2
    <3>4. cut # {}
      <4> HIDE DEF cut
      <4> QED
        BY <2>4, <3>3, FS_EmptySet
    <3>5. sizes \subseteq Nat /\ sizes # {}
      <4> HIDE DEF cut
      <4> QED
        BY <2>1, <2>2, <2>3, <3>2, <3>4
    <3>6. Min(sizes) \in sizes /\ \A s \in sizes : Min(sizes) <= s
      <4>1. PICK m : m \in sizes
        BY <3>5
      <4> HIDE DEF sizes
      <4>2. \E k \in sizes : \A j \in sizes : k <= j
        BY <3>5, <4>1, LeastExists
      <4> QED
        BY <4>2 DEF Min
    <3>7. PICK h \in cut : floor' = SizeOf[h] /\ floor' \in Nat /\ \A g \in cut : floor' <= SizeOf[g]
      BY <3>1, <3>5, <3>6
    <3>8. floor <= floor'
      <4>1. CASE floor = 0
        BY <3>7, <4>1
      <4>2. CASE floor # 0
        <5>1. Enough(bigFiles, floor)
          <6> HIDE DEF Enough
          <6> QED
            BY <2>2, <4>2
        <5>2. TopCount <= Cardinality({g \in more : SizeOf[g] >= floor})
          <6>1. /\ Cardinality({g \in bigFiles : SizeOf[g] >= floor}) <= Cardinality({g \in more : SizeOf[g] >= floor})
                /\ Cardinality({g \in bigFiles : SizeOf[g] >= floor}) \in Nat /\ Cardinality({g \in more : SizeOf[g] >= floor}) \in Nat
            <7>1. bigFiles \in SUBSET more
              OBVIOUS
            <7> HIDE DEF more
            <7> QED
              BY <2>2, <2>3, <7>1, CandidatesGrow
          <6> QED
            BY <2>4, <5>1, <6>1
        <5>3. \A g \in cut : SizeOf[g] >= floor
          <6> HIDE DEF more
          <6> QED
            BY <2>2, <2>3, <2>4, <5>2, LargestAbove
        <5> QED
          BY <2>2, <3>7, <5>3
      <4> QED
        BY <4>1, <4>2
    <3>9. (\A f \in Eligible \ bigFiles : SizeOf[f] <= floor)'
      <4> SUFFICES ASSUME NEW f \in Eligible', f \notin cut PROVE SizeOf[f] <= floor'
        BY <3>1
      <4> HIDE DEF cut
      <4>1. CASE f \in more
        BY <3>2, <3>7, <4>1
      <4>2. CASE f \notin more
        <5>1. SizeOf[f] <= floor /\ SizeOf[f] \in Nat
          BY <2>1, <2>2, <2>3, <4>2
        <5> QED
          BY <2>2, <3>7, <3>8, <5>1
      <4> QED
        BY <4>1, <4>2
    <3>10. Enough(bigFiles', floor')
      <4>1. {g \in cut : SizeOf[g] >= floor'} = cut
        <5> HIDE DEF cut
        <5>1. \A g \in cut : SizeOf[g] \in Nat
          BY <2>1, <2>2, <2>3, <3>2
        <5> QED
          BY <3>7, <5>1
      <4>2. bigFiles' = cut
        BY <3>1
      <4> HIDE DEF cut
      <4>3. Cardinality({g \in bigFiles' : SizeOf[g] >= floor'}) = TopCount
        BY <3>3, <4>1, <4>2
      <4> QED
        BY <2>4, <4>3
    <3>11. bigFiles' \subseteq Eligible' /\ Cardinality(bigFiles') <= KeepCount
      <4> HIDE DEF cut
      <4> QED
        BY <2>1, <2>2, <2>4, <3>1, <3>2, <3>3
    <3> QED
      BY <3>7, <3>9, <3>10, <3>11 DEF WalkFiles
  <2>7. CASE (Cardinality(bigFiles) < KeepCount \/ SizeOf[e] > floor) /\ ~(Cardinality(more) > KeepCount)
    <3>1. bigFiles' = more /\ floor' = floor
      BY <2>1, <2>7 DEF Candidates
    <3>2. floor > 0 \/ Eligible' # more => Enough(more, floor)
      <4> SUFFICES ASSUME floor > 0 \/ Eligible' # more PROVE Enough(more, floor)
        OBVIOUS
      <4>1. Eligible' # more => Eligible # bigFiles
        BY <2>1
      <4>2. Enough(bigFiles, floor)
        <5> HIDE DEF Enough, more
        <5> QED
          BY <2>2, <4>1
      <4>3. /\ Cardinality({g \in bigFiles : SizeOf[g] >= floor}) <= Cardinality({g \in more : SizeOf[g] >= floor})
            /\ Cardinality({g \in bigFiles : SizeOf[g] >= floor}) \in Nat /\ Cardinality({g \in more : SizeOf[g] >= floor}) \in Nat
        <5>1. bigFiles \in SUBSET more
          OBVIOUS
        <5> HIDE DEF more
        <5> QED
          BY <2>2, <2>3, <5>1, CandidatesGrow
      <4> QED
        BY <2>4, <4>2, <4>3
    <3>3. Cardinality(more) <= KeepCount
      BY <2>3, <2>4, <2>7
    <3>4. (\A f \in Eligible \ bigFiles : SizeOf[f] <= floor)'
      BY <2>1, <2>2, <3>1
    <3>5. bigFiles' \subseteq Eligible'
      BY <2>1, <2>2, <3>1
    <3> HIDE DEF more
    <3> QED
      BY <2>2, <3>1, <3>2, <3>3, <3>4, <3>5 DEF WalkFiles
  <2> QED
    BY <2>5, <2>6, <2>7
<1>4. e \in FilesOf => SizeOf[e] < MinSize \/ SizeOf[e] >= MinSize
  BY BudgetAssumption, TreeAssumption
<1> QED
  BY <1>0, <1>1, <1>2, <1>3, <1>4, AbsorbCounts

\* What is listed in the end.
LEMMA FilesListed == ASSUME WalkBytes, WalkFiles PROVE TopFilesLargest
<1> DEFINE T == Largest(bigFiles, TopCount)
           c == Cardinality(bigFiles)
           r == Cardinality(Eligible)
<1>0. /\ bigFiles \in SUBSET FilesOf /\ Eligible \in SUBSET FilesOf /\ bigFiles \in SUBSET Eligible
      /\ floor \in Nat /\ TopCount \in Nat
      /\ \A f \in Eligible \ bigFiles : SizeOf[f] <= floor
  BY BudgetAssumption DEF WalkFiles, WalkBytes, Eligible
<1>1. /\ T \in SUBSET bigFiles /\ Cardinality(T) = IF c < TopCount THEN c ELSE TopCount
      /\ \A f \in bigFiles \ T, g \in T : SizeOf[f] <= SizeOf[g]
  BY <1>0, LargestIs
<1>2. c \in Nat /\ r \in Nat /\ c <= r /\ Cardinality({g \in bigFiles : SizeOf[g] >= floor}) <= c
      /\ Cardinality({g \in bigFiles : SizeOf[g] >= floor}) \in Nat
  <2>1. c \in Nat /\ r \in Nat /\ c <= r
    BY <1>0, CandidatesGrow
  <2>2. bigFiles \in SUBSET bigFiles
    OBVIOUS
  <2>3. Cardinality({g \in bigFiles : SizeOf[g] >= floor}) <= c /\ Cardinality({g \in bigFiles : SizeOf[g] >= floor}) \in Nat
    BY <1>0, <2>2, CandidatesGrow
  <2> QED
    BY <2>1, <2>3
<1> HIDE DEF T
<1>3. CASE Eligible = bigFiles
  BY <1>1, <1>3 DEF TopFilesLargest, TopFiles, T
<1>4. CASE Eligible # bigFiles
  <2>1. TopCount <= Cardinality({g \in bigFiles : SizeOf[g] >= floor})
    BY <1>4 DEF WalkFiles
  <2>2. \A g \in T : SizeOf[g] >= floor
    BY <1>0, <2>1, LargestAbove DEF T
  <2>3. Cardinality(T) = IF r < TopCount THEN r ELSE TopCount
    BY <1>0, <1>1, <1>2, <2>1
  <2>4. ASSUME NEW f \in Eligible \ T, NEW g \in T PROVE SizeOf[f] <= SizeOf[g]
    <3>1. CASE f \in bigFiles
      BY <1>1, <3>1
    <3>2. CASE f \notin bigFiles
      <4>1. SizeOf[f] <= floor /\ SizeOf[g] >= floor /\ SizeOf[f] \in Nat /\ SizeOf[g] \in Nat
        BY <1>0, <1>1, <2>2, <3>2, FilesFinite
      <4> QED
        BY <1>0, <4>1
    <3> QED
      BY <3>1, <3>2
  <2> QED
    BY <2>3, <2>4 DEF TopFilesLargest, TopFiles, T
<1> QED
  BY <1>3, <1>4

-----------------------------------------------------------------------------
(* Whose turn it is.                                                       *)

\* A sequence has at most as many values as places.
LEMMA FewValues ==
  ASSUME NEW S, NEW s \in Seq(S)
  PROVE  IsFiniteSet(Values(s)) /\ Cardinality(Values(s)) \in Nat /\ Cardinality(Values(s)) <= Len(s)
<1> DEFINE n == Len(s)
           f == [k \in 1..n |-> s[k]]
<1>1. n \in Nat
  OBVIOUS
<1>2. IsFiniteSet(1..n) /\ Cardinality(1..n) = n
  BY <1>1, FS_Interval
<1>3. f \in Surjection(1..n, Values(s))
  BY DEF Surjection, Values
<1> HIDE DEF f
<1>4. IsFiniteSet(Values(s)) /\ Cardinality(Values(s)) <= Cardinality(1..n)
  BY <1>2, <1>3, FS_Surjection
<1> QED
  BY <1>2, <1>4, FS_CardinalityType

\* The fresh ones are counted.
LEMMA FreshCount ==
  ASSUME WalkTypes
  PROVE  /\ IsFiniteSet(Fresh) /\ Fresh \subseteq Values(tops) /\ Cardinality(Fresh) \in Nat /\ Cardinality(Fresh) <= Len(tops)
         /\ \A T \in SUBSET Fresh : IsFiniteSet(T) /\ Cardinality(T) \in Nat /\ Cardinality(T) <= Cardinality(Fresh)
         /\ (Cardinality(Fresh) = 0 => Fresh = {}) /\ (\A x \in Fresh : Cardinality(Fresh \ {x}) = Cardinality(Fresh) - 1)
         /\ Len(tops) \in Nat /\ IsFiniteSet(Children(DiskRoot)) /\ Cardinality(Children(DiskRoot)) \in Nat /\ opt.entries \in Nat
         /\ opt.slice \in Nat \ {0}
<1>1. tops \in Seq(Dirs) /\ Fresh \subseteq Values(tops) /\ opt \in Budgets
  BY DEF WalkTypes, Fresh
<1>2. IsFiniteSet(Values(tops)) /\ Cardinality(Values(tops)) \in Nat /\ Cardinality(Values(tops)) <= Len(tops) /\ Len(tops) \in Nat
  BY <1>1, FewValues
<1>3. IsFiniteSet(Fresh) /\ Cardinality(Fresh) <= Cardinality(Values(tops))
  BY <1>1, <1>2, FS_Subset
<1>4. Cardinality(Fresh) \in Nat /\ (Cardinality(Fresh) = 0 => Fresh = {})
  BY <1>3, FS_CardinalityType, FS_EmptySet
<1>5. \A T \in SUBSET Fresh : IsFiniteSet(T) /\ Cardinality(T) \in Nat /\ Cardinality(T) <= Cardinality(Fresh)
  BY <1>3, FS_Subset, FS_CardinalityType
<1>6. \A x \in Fresh : Cardinality(Fresh \ {x}) = Cardinality(Fresh) - 1
  BY <1>3, FS_RemoveElement
<1>7. IsFiniteSet(Children(DiskRoot)) /\ Cardinality(Children(DiskRoot)) \in Nat
  BY TreeAssumption, FS_Subset, FS_CardinalityType DEF Children
<1>8. Cardinality(Fresh) <= Len(tops)
  BY <1>2, <1>3, <1>4
<1> QED
  BY <1>1, <1>2, <1>3, <1>4, <1>5, <1>6, <1>7, <1>8, BudgetAssumption

\* Nothing is fresh before the root is listed.
LEMMA FreshInit == ASSUME DiskInit PROVE WalkFresh /\ WalkShares
<1>1. Values(tops) = {} /\ turns = <<>> /\ tops = <<>> /\ OnceEach(<<>>) /\ Len(<<>>) = 0 /\ 1..0 = {}
  BY DEF DiskInit, Values, OnceEach
<1>2. stage = "open" /\ seen = 0 /\ spent = 0 /\ quantum = 0 /\ late = FALSE
  BY DEF DiskInit
<1>3. WalkFresh
  BY <1>1, <1>2 DEF WalkFresh
<1>4. WalkShares
  BY <1>2 DEF WalkShares
<1> QED
  BY <1>3, <1>4

\* The root is opened or not.
LEMMA FreshOpenRoot == ASSUME WalkShape, WalkFresh, OpenRoot PROVE WalkFresh' /\ WalkShares'
<1>0. /\ WalkTypes /\ UNCHANGED <<opt, tops, cursor, stack, turns, cur, spent, quantum, seen, late>>
      /\ stage = "open" /\ tops = <<>> /\ turns = <<>> /\ seen = 0 /\ (stage' = "done" \/ stage' = "root")
  BY DEF WalkShape, OpenRoot, WalkFresh
<1>1. Values(tops) = {} /\ OnceEach(<<>>) /\ Len(<<>>) = 0 /\ 1..0 = {}
  BY <1>0 DEF Values, OnceEach
<1>2. stage' = "root" => Cardinality(Children(DiskRoot) \ unread'[DiskRoot]) = 0
  <2>1. ASSUME stage' = "root" PROVE Children(DiskRoot) \ unread'[DiskRoot] = {}
    BY <1>0, <2>1 DEF OpenRoot, WalkTypes, Folders
  <2> QED
    BY <2>1, FS_EmptySet
<1>3. WalkFresh'
  BY <1>0, <1>1, <1>2 DEF WalkFresh
<1>4. WalkShares'
  BY <1>0, <1>1 DEF WalkShares, Fresh
<1> QED
  BY <1>3, <1>4

\* The first-level directories are fresh while the root is listed.
LEMMA FreshListRoot == ASSUME WalkShape, WalkFresh, ListRoot PROVE WalkFresh' /\ WalkShares'
<1>0. WalkTypes /\ WalkOnce
  BY DEF WalkShape
<1>1. PICK e : /\ LooksAt(e, DiskRoot) /\ stage = "root"
                /\ UNCHANGED <<stage, opt, shut, gone, turns, cur, spent, quantum, late, shutTops, usage>>
                /\ \/ /\ Pushed(e, DiskRoot) = <<>> /\ Values(Pushed(e, DiskRoot)) = {}
                      /\ tops' = tops /\ stack' = stack /\ cursor' = cursor
                   \/ /\ Pushed(e, DiskRoot) = <<e>> /\ Values(Pushed(e, DiskRoot)) = {e} /\ e \in Dirs /\ e \notin Values(tops)
                      /\ tops' = Append(tops, e) /\ tops' \in Seq(Dirs) /\ OnceEach(tops') /\ Values(tops') = Values(tops) \cup {e}
                      /\ stack' \in [Values(tops') -> Seq(Dirs)] /\ cursor' \in [Values(tops') -> Dirs \cup {NoDir}]
                      /\ stack'[e] = <<e>> /\ cursor'[e] = NoDir
                      /\ \A t \in Values(tops) : stack'[t] = stack[t] /\ cursor'[t] = cursor[t]
  BY ListRootLooks
<1>2. e \in Entries /\ ParentOf[e] = DiskRoot /\ seen' = seen + 1 /\ e \in unread[DiskRoot]
  BY <1>0, <1>1, EntryNew DEF LooksAt, Absorb
<1>3. unread'[DiskRoot] = unread[DiskRoot] \ {e}
  BY <1>0, <1>1, AbsorbLeaves
<1>4. seen' = Cardinality(Children(DiskRoot) \ unread'[DiskRoot])
  <2> DEFINE C == Children(DiskRoot) \ unread[DiskRoot]
  <2>1. Children(DiskRoot) \ unread'[DiskRoot] = C \cup {e} /\ e \notin C
    BY <1>2, <1>3 DEF Children
  <2>2. IsFiniteSet(C)
    BY <1>0, FreshCount, FS_Subset
  <2>3. seen = Cardinality(C)
    BY <1>1 DEF WalkFresh
  <2> HIDE DEF C
  <2>4. Cardinality(C \cup {e}) = Cardinality(C) + 1
    BY <2>1, <2>2, FS_AddElement
  <2> QED
    BY <1>2, <2>1, <2>3, <2>4
<1>5. (\A t \in Values(tops) : stack[t] = <<t>> /\ cursor[t] = NoDir)'
  <2>1. \A t \in Values(tops) : stack[t] = <<t>> /\ cursor[t] = NoDir
    <3>1. \A t : t \in Values(<<t>>)
      BY DEF Values
    <3> QED
      BY <1>1, <3>1 DEF WalkFresh
  <2> QED
    BY <1>1, <2>1
<1>6. turns' = <<>> /\ stage' = "root" /\ (seen \in Nat /\ spent \in Nat /\ quantum \in Nat /\ late \in BOOLEAN)'
  BY <1>1, <1>2 DEF WalkFresh
<1>7. OnceEach(<<>>) /\ Len(<<>>) = 0 /\ 1..0 = {}
  BY DEF OnceEach
<1>8. WalkFresh'
  BY <1>4, <1>5, <1>6, <1>7 DEF WalkFresh
<1>9. WalkShares'
  BY <1>6 DEF WalkShares
<1> QED
  BY <1>8, <1>9

\* All get their turn when it is.
LEMMA FreshRootListed == ASSUME WalkShape, WalkFresh, RootListed PROVE WalkFresh' /\ WalkShares'
<1>0. /\ WalkTypes /\ stage = "root"
      /\ UNCHANGED <<opt, unread, tops, cursor, stack, cur, spent, quantum, consumed, seen, late, shutTops>>
      /\ stage' \in {"turn", "done"}
  BY DEF WalkShape, RootListed, Truncate
<1>1. Fresh' = Fresh /\ Ample' = Ample /\ Visited' = Visited
  BY <1>0 DEF Fresh, Ample, Visited
<1>2. Fresh = Values(tops) /\ turns = <<>>
  BY <1>0 DEF WalkFresh, Fresh
<1>3. Ample => seen + Cardinality(Fresh) <= opt.entries /\ (seen >= opt.entries => Fresh = {})
  <2> SUFFICES ASSUME Ample PROVE seen + Cardinality(Fresh) <= opt.entries /\ (seen >= opt.entries => Fresh = {})
    OBVIOUS
  <2>1. Children(DiskRoot) \ unread[DiskRoot] = Children(DiskRoot)
    BY DEF Ample
  <2>2. seen = Cardinality(Children(DiskRoot)) /\ opt.entries >= Cardinality(Children(DiskRoot)) + Len(tops)
    BY <1>0, <2>1 DEF WalkFresh, Ample
  <2>3. /\ Cardinality(Fresh) \in Nat /\ Cardinality(Fresh) <= Len(tops) /\ Len(tops) \in Nat
        /\ Cardinality(Children(DiskRoot)) \in Nat /\ opt.entries \in Nat /\ (Cardinality(Fresh) = 0 => Fresh = {})
    BY <1>0, FreshCount
  <2> QED
    BY <2>2, <2>3
<1>4. CASE Stops /\ stage' = "done" /\ turns' = turns
  <2>1. WalkFresh'
    BY <1>0, <1>1, <1>4 DEF WalkFresh
  <2>2. Ample => Fresh = {}
    BY <1>3, <1>4 DEF Stops, OutOfEntries, Ample
  <2>3. WalkShares'
    BY <1>0, <1>1, <1>2, <1>4, <2>2 DEF WalkShares
  <2> QED
    BY <2>1, <2>3
<1>5. CASE stage' = "turn" /\ turns' = tops
  <2>1. \A i \in 1..Len(tops) : tops[i] \in Fresh
    BY <1>2 DEF Values
  <2>2. OnceEach(tops)
    BY <1>0 DEF WalkTypes
  <2>3. WalkFresh'
    BY <1>0, <1>1, <1>5, <2>1, <2>2 DEF WalkFresh
  <2>4. WalkShares'
    BY <1>0, <1>1, <1>2, <1>3, <1>5 DEF WalkShares
  <2> QED
    BY <2>3, <2>4
<1> QED
  BY <1>4, <1>5 DEF RootListed, Truncate

\* The share of one of n that are left fits, with an entry for each of the others.
LEMMA ShareFits ==
  ASSUME NEW r \in Nat \ {0}, NEW n \in Nat \ {0}, NEW s \in Nat \ {0}
  PROVE  LET q == ClampTo(r \div n, 1, s)
         IN  q \in Nat /\ q > 0 /\ (q = 1 \/ q + (n - 1) <= r)
<1> DEFINE p == r \div n
           q == ClampTo(p, 1, s)
<1>1. p \in Nat /\ p * n <= r
  OBVIOUS
<1> HIDE DEF p
<1>2. q \in Nat /\ q > 0 /\ (q = 1 \/ (1 <= q /\ q <= p))
  BY <1>1 DEF ClampTo
<1> HIDE DEF q
<1>3. ASSUME 1 <= q, q <= p PROVE q + (n - 1) <= r
  <2>1. (p - 1) * (n - 1) >= 0
    <3>1. p - 1 \in Nat /\ n - 1 \in Nat
      BY <1>1, <1>2, <1>3
    <3> QED
      BY <3>1
  <2>2. (p - 1) * (n - 1) = p * n - p - n + 1 /\ p * n \in Nat
    BY <1>1
  <2> QED
    BY <1>1, <1>2, <1>3, <2>1, <2>2
<1> QED
  BY <1>2, <1>3 DEF p, q

\* The next one gets a slice that leaves enough.
LEMMA FreshNextTurn == ASSUME WalkShape, WalkFresh, WalkShares, NextTurn PROVE WalkFresh' /\ WalkShares'
<1>0. /\ WalkTypes /\ stage = "turn"
      /\ UNCHANGED <<opt, unread, tops, cursor, stack, seen, late, shutTops>>
  BY DEF WalkShape, NextTurn
<1>1. Fresh' = Fresh /\ Ample' = Ample /\ Visited' = Visited
  BY <1>0 DEF Fresh, Ample, Visited
<1>c. Cardinality(Fresh) \in Nat /\ opt.entries \in Nat /\ (Cardinality(Fresh) = 0 => Fresh = {}) /\ seen \in Nat /\ opt.slice \in Nat \ {0}
  BY <1>0, FreshCount DEF WalkFresh
<1>s. Ample => /\ Fresh \subseteq Values(turns) /\ seen + Cardinality(Fresh) <= opt.entries
               /\ Values(tops) \ Fresh \subseteq Visited
  BY <1>0 DEF WalkShares
<1>2. CASE (turns = <<>> \/ OutOfEntries \/ late) /\ stage' = "done" /\ UNCHANGED <<turns, cur, spent, quantum>>
  <2>1. WalkFresh'
    BY <1>0, <1>1, <1>2 DEF WalkFresh
  <2>2. ASSUME Ample PROVE Fresh = {}
    <3>1. CASE turns = <<>>
      BY <1>s, <2>2, <3>1 DEF Values
    <3>2. CASE OutOfEntries
      BY <1>c, <1>s, <2>2, <3>2 DEF OutOfEntries
    <3>3. CASE late
      BY <2>2, <3>3 DEF Ample
    <3> QED
      BY <1>2, <3>1, <3>2, <3>3
  <2>3. WalkShares'
    BY <1>0, <1>1, <1>2, <1>s, <2>2 DEF WalkShares
  <2> QED
    BY <2>1, <2>3
<1>3. CASE /\ turns # <<>> /\ ~OutOfEntries /\ cur' = Head(turns) /\ turns' = Tail(turns)
           /\ quantum' = Slice /\ spent' = 0 /\ stage' = "drain"
  <2> DEFINE n == Len(turns)
             r == opt.entries - seen
             h == Head(turns)
  <2>1. turns \in Seq(Values(tops)) /\ OnceEach(turns)
    BY <1>0 DEF WalkTypes, WalkFresh
  <2>2. /\ Tail(turns) \in Seq(Values(tops)) /\ h \in Values(tops) /\ Values(turns) = {h} \cup Values(Tail(turns))
        /\ OnceEach(Tail(turns)) /\ h \notin Values(Tail(turns))
        /\ Len(Tail(turns)) = n - 1 /\ \A k \in 1..Len(Tail(turns)) : Tail(turns)[k] = turns[k + 1]
    BY <1>3, <2>1, HeadValues
  <2>n. n \in Nat \ {0} /\ h = turns[1] /\ r \in Nat \ {0}
    BY <1>3, <1>c, <2>1 DEF OutOfEntries
  <2>3. quantum' \in Nat /\ quantum' > 0 /\ (quantum' = 1 \/ quantum' + (n - 1) <= r)
    <3>1. quantum' = ClampTo(r \div n, 1, opt.slice)
      BY <1>3 DEF Slice
    <3> HIDE DEF r, n
    <3> QED
      BY <1>c, <2>n, <3>1, ShareFits
  <2>4. \A i, j \in 1..Len(Tail(turns)) : i < j /\ Tail(turns)[j] \in Fresh => Tail(turns)[i] \in Fresh
    <3> SUFFICES ASSUME NEW i \in 1..(n - 1), NEW j \in 1..(n - 1), i < j, turns[j + 1] \in Fresh PROVE turns[i + 1] \in Fresh
      BY <2>2
    <3>1. i + 1 \in 1..n /\ j + 1 \in 1..n /\ i + 1 < j + 1
      BY <2>n
    <3> QED
      BY <3>1 DEF WalkFresh
  <2>5. WalkFresh'
    BY <1>0, <1>1, <1>3, <1>c, <2>2, <2>3, <2>4 DEF WalkFresh
  <2>6. ASSUME Ample PROVE seen + Cardinality(Fresh \ {h}) + quantum' <= opt.entries
    <3>1. Cardinality(Fresh \ {h}) \in Nat /\ Cardinality(Fresh \ {h}) <= n - 1
      <4>1. Fresh \ {h} \subseteq Values(Tail(turns))
        BY <1>s, <2>2, <2>6
      <4>2. IsFiniteSet(Values(Tail(turns))) /\ Cardinality(Values(Tail(turns))) \in Nat /\ Cardinality(Values(Tail(turns))) <= n - 1
        BY <2>2, FewValues
      <4>3. Cardinality(Fresh \ {h}) <= Cardinality(Values(Tail(turns))) /\ Cardinality(Fresh \ {h}) \in Nat
        BY <4>1, <4>2, FS_Subset, FS_CardinalityType
      <4> HIDE DEF h
      <4> QED
        BY <2>n, <4>2, <4>3
    <3>2. Cardinality(Fresh \ {h}) + 1 <= r
      <4>1. CASE h \in Fresh
        <5>1. Cardinality(Fresh \ {h}) = Cardinality(Fresh) - 1
          BY <1>0, <4>1, FreshCount
        <5> QED
          BY <1>c, <1>s, <2>6, <5>1
      <4>2. CASE h \notin Fresh
        <5>1. Fresh = {}
          <6> SUFFICES ASSUME NEW t \in Fresh PROVE FALSE
            OBVIOUS
          <6>1. PICK j \in 1..n : turns[j] = t
            BY <1>s, <2>6 DEF Values
          <6>2. j # 1 /\ 1 \in 1..n /\ 1 < j
            BY <2>n, <4>2, <6>1
          <6>3. turns[1] \in Fresh
            BY <6>1, <6>2 DEF WalkFresh
          <6> QED
            BY <2>n, <4>2, <6>3
        <5>2. Cardinality(Fresh \ {h}) = 0
          <6>1. Fresh \ {h} = {}
            BY <5>1
          <6> QED
            BY <6>1, FS_EmptySet
        <5> HIDE DEF h, r
        <5> QED
          BY <2>n, <5>2
      <4> QED
        BY <4>1, <4>2
    <3>3. CASE quantum' = 1
      BY <1>c, <3>1, <3>2, <3>3
    <3>4. CASE quantum' + (n - 1) <= r
      <4>1. r = opt.entries - seen
        OBVIOUS
      <4> HIDE DEF h, n, r
      <4> QED
        BY <1>c, <2>3, <2>n, <3>1, <3>4, <4>1
    <3> QED
      BY <2>3, <3>3, <3>4
  <2>7. ASSUME Ample PROVE /\ (Fresh \ {cur} \subseteq Values(turns))' /\ (Values(tops) \ Fresh \subseteq Visited)'
                           /\ (seen + Cardinality(Fresh \ {cur}) + (quantum - spent) <= opt.entries)'
    <3>1. quantum' - spent' = quantum'
      BY <1>3, <2>3
    <3>2. Fresh \ {h} \subseteq Values(Tail(turns))
      BY <1>s, <2>2, <2>7
    <3>3. (seen + Cardinality(Fresh \ {cur}) + (quantum - spent) <= opt.entries)'
      BY <1>0, <1>1, <1>3, <2>6, <2>7, <3>1
    <3>4. (Fresh \ {cur} \subseteq Values(turns))'
      BY <1>1, <1>3, <3>2
    <3>5. (Values(tops) \ Fresh \subseteq Visited)'
      BY <1>0, <1>1, <1>s, <2>7
    <3> QED
      BY <3>3, <3>4, <3>5
  <2>8. WalkShares'
    BY <1>1, <1>3, <2>7 DEF WalkShares
  <2> QED
    BY <2>5, <2>8
<1> QED
  BY <1>2, <1>3 DEF NextTurn, Truncate

\* An entry of the slice is read: the one whose slice it is has been visited.
LEMMA FreshReadEntry == ASSUME WalkShape, WalkFresh, WalkShares, ReadEntry PROVE WalkFresh' /\ WalkShares'
<1>0. WalkTypes /\ WalkOnce
  BY DEF WalkShape
<1> DEFINE d == cursor[cur]
<1>1. PICK e :  /\ LooksAt(e, d) /\ stage = "drain" /\ cur \in Values(tops) /\ d \in Dirs
                /\ UNCHANGED <<stage, opt, shut, gone, tops, cursor, turns, cur, quantum, late, shutTops, usage>>
                /\ spent' = spent + 1 /\ spent < quantum /\ ~Stops
                /\ Values(stack'[cur]) = Values(stack[cur]) \cup Values(Pushed(e, d))
                /\ \A t \in Values(tops) : t # cur => stack'[t] = stack[t]
  BY ReadEntryLooks
<1>2. /\ e \in Entries /\ ParentOf[e] = d /\ e \notin Unfolded /\ seen' = seen + 1 /\ e \in unread[d]
  BY <1>0, <1>1, EntryNew DEF LooksAt, Absorb
<1>3. /\ unread'[d] = unread[d] \ {e} /\ \A x \in Folders \ {d} : unread'[x] = unread[x]
  BY <1>0, <1>1, AbsorbLeaves
<1>4. Values(Pushed(e, d)) \subseteq {e}
  BY <1>0, <1>1, AbsorbDoes
<1>5. d # NoDir /\ d # DiskRoot /\ DiskRoot \in Folders /\ Dirs \subseteq Folders /\ Values(tops) \subseteq Dirs
  BY <1>0, <1>1, Shape DEF Folders, WalkTypes
<1>n. seen \in Nat /\ spent \in Nat /\ quantum \in Nat
  BY DEF WalkFresh
<1>6. cur \notin Values(stack[cur]) /\ cur \notin Values(stack'[cur])
  <2>1. cur \notin Values(stack[cur])
    BY <1>1, <1>5 DEF WalkFresh
  <2>2. cur # e
    BY <1>0, <1>1, <1>2 DEF WalkTypes
  <2> QED
    BY <1>1, <1>4, <2>1, <2>2
<1> HIDE DEF d
<1>7. cur \notin Fresh /\ Fresh' = Fresh
  <2>1. \A t : t \in Values(<<t>>)
    BY DEF Values
  <2>2. cur \notin Fresh /\ stack'[cur] # <<cur>>
    BY <1>6, <2>1 DEF Fresh
  <2>3. \A t \in Values(tops) : stack'[t] = <<t>> <=> stack[t] = <<t>>
    BY <1>1, <2>2 DEF Fresh
  <2> QED
    BY <1>1, <2>2, <2>3 DEF Fresh
<1>8. Ample' = Ample
  BY <1>1, <1>3, <1>5 DEF Ample
<1>9. Visited \subseteq Visited' /\ (cursor[cur] = cur => cur \in Visited')
  <2>1. \A t \in Values(tops) : unread'[t] \subseteq unread[t]
    BY <1>1, <1>3, <1>5
  <2>2. Visited \subseteq Visited'
    BY <1>1, <2>1 DEF Visited
  <2>3. ASSUME d = cur PROVE cur \in Visited'
    BY <1>1, <1>2, <1>3, <2>3 DEF Visited, Children
  <2> QED
    BY <2>2, <2>3 DEF d
<1>10. WalkFresh'
  <2>1. (\A t \in Values(tops) : t \in Values(stack[t]) => stack[t] = <<t>> /\ cursor[t] = NoDir)'
    BY <1>1, <1>6 DEF WalkFresh
  <2>2. (seen \in Nat /\ spent \in Nat /\ quantum \in Nat /\ late \in BOOLEAN)' /\ spent' <= quantum'
    BY <1>1, <1>2, <1>n DEF WalkFresh
  <2>3. stage' = "drain" /\ turns' = turns /\ cur' = cur /\ quantum' = quantum
    BY <1>1
  <2>4. OnceEach(turns) /\ cur \notin Values(turns) /\ quantum > 0
        /\ \A i, j \in 1..Len(turns) : i < j /\ turns[j] \in Fresh => turns[i] \in Fresh
    BY <1>1 DEF WalkFresh
  <2> QED
    BY <1>7, <2>1, <2>2, <2>3, <2>4 DEF WalkFresh
<1>11. WalkShares'
  <2> SUFFICES ASSUME Ample
               PROVE  /\ (Fresh \ {cur} \subseteq Values(turns))'
                      /\ (seen + Cardinality(Fresh \ {cur}) + (quantum - spent) <= opt.entries)'
                      /\ (\A t \in Values(tops) \ Fresh : t \in Visited)'
    BY <1>1, <1>7, <1>8 DEF WalkShares
  <2>1. /\ Fresh \ {cur} \subseteq Values(turns) /\ seen + Cardinality(Fresh \ {cur}) + (quantum - spent) <= opt.entries
        /\ \A t \in Values(tops) \ Fresh : t \in Visited \/ (t = cur /\ cursor[t] = t /\ spent = 0)
    BY <1>1 DEF WalkShares
  <2>2. (\A t \in Values(tops) \ Fresh : t \in Visited)'
    BY <1>1, <1>7, <1>9, <2>1
  <2>3. (Fresh \ {cur} \subseteq Values(turns))'
    BY <1>1, <1>7, <2>1
  <2>4. (seen + Cardinality(Fresh \ {cur}) + (quantum - spent) <= opt.entries)'
    <3> DEFINE c == Cardinality(Fresh \ {cur})
    <3>1. c \in Nat /\ opt.entries \in Nat
      BY <1>0, FreshCount
    <3>2. Cardinality(Fresh' \ {cur'}) = c
      BY <1>1, <1>7
    <3> HIDE DEF c
    <3>3. (seen + 1) + c + (quantum - (spent + 1)) <= opt.entries
      BY <1>n, <2>1, <3>1 DEF c
    <3> QED
      BY <1>1, <1>2, <3>2, <3>3
  <2> QED
    BY <2>2, <2>3, <2>4
<1> QED
  BY <1>10, <1>11

\* A slice ends when it is used up or the directory is.
LEMMA FreshStopReading == ASSUME WalkShape, WalkFresh, WalkShares, StopReading PROVE WalkFresh' /\ WalkShares'
<1>0. /\ WalkTypes /\ WalkOnce /\ stage = "drain" /\ cursor[cur] # NoDir /\ cur \in Values(tops)
      /\ UNCHANGED <<opt, unread, tops, stack, cur, spent, quantum, seen, late, shutTops>>
  BY DEF WalkShape, StopReading, Reading, WalkTypes
<1>1. Fresh' = Fresh /\ Ample' = Ample /\ Visited' = Visited
  BY <1>0 DEF Fresh, Ample, Visited
<1>2. cur \notin Fresh
  <2>1. cur \in Values(<<cur>>)
    BY DEF Values
  <2> QED
    BY <1>0, <2>1 DEF WalkFresh, Fresh
<1>n. /\ seen \in Nat /\ spent \in Nat /\ quantum \in Nat /\ quantum > 0 /\ spent <= quantum /\ opt.entries \in Nat /\ Cardinality(Fresh) \in Nat
      /\ OnceEach(turns) /\ cur \notin Values(turns) /\ turns \in Seq(Values(tops))
  BY <1>0, FreshCount DEF WalkFresh, WalkTypes
<1>s. Ample => /\ Fresh \subseteq Values(turns) /\ seen + Cardinality(Fresh) + (quantum - spent) <= opt.entries
               /\ \A t \in Values(tops) \ Fresh : t \in Visited \/ (t = cur /\ cursor[t] = t /\ spent = 0)
  <2>1. Fresh \ {cur} = Fresh
    BY <1>2
  <2> QED
    BY <1>0, <2>1 DEF WalkShares
<1>3. CASE spent >= quantum /\ stage' = "turn" /\ turns' = Append(turns, cur) /\ cursor' = cursor
  <2>1. /\ Values(turns') = Values(turns) \cup {cur} /\ OnceEach(turns')
    BY <1>0, <1>3, <1>n, AppendValues
  <2>2. ASSUME NEW i \in 1..Len(turns'), NEW j \in 1..Len(turns'), i < j, turns'[j] \in Fresh PROVE turns'[i] \in Fresh
    <3>1. Len(turns') = Len(turns) + 1 /\ Len(turns) \in Nat /\ turns'[Len(turns) + 1] = cur /\ \A k \in 1..Len(turns) : turns'[k] = turns[k]
      BY <1>0, <1>3, <1>n
    <3>2. j # Len(turns) + 1
      BY <1>2, <2>2, <3>1
    <3>3. j \in 1..Len(turns) /\ i \in 1..Len(turns)
      BY <2>2, <3>1, <3>2
    <3> QED
      BY <2>2, <3>1, <3>3 DEF WalkFresh
  <2>3. WalkFresh'
    BY <1>0, <1>1, <1>3, <2>1, <2>2 DEF WalkFresh
  <2>4. ASSUME Ample PROVE seen + Cardinality(Fresh) <= opt.entries /\ Values(tops) \ Fresh \subseteq Visited
    BY <1>3, <1>n, <1>s, <2>4
  <2>5. WalkShares'
    BY <1>0, <1>1, <1>3, <1>s, <2>1, <2>4 DEF WalkShares
  <2> QED
    BY <2>3, <2>5
<1>4. CASE spent < quantum /\ Stops /\ stage' = "done" /\ UNCHANGED <<turns, cursor>>
  <2>1. WalkFresh'
    BY <1>0, <1>1, <1>4 DEF WalkFresh
  <2>2. ~Ample
    <3> SUFFICES ASSUME Ample PROVE FALSE
      OBVIOUS
    <3>1. seen >= opt.entries
      BY <1>4 DEF Stops, OutOfEntries, Ample
    <3> QED
      BY <1>4, <1>n, <1>s, <3>1
  <2>3. WalkShares'
    BY <1>1, <2>2 DEF WalkShares
  <2> QED
    BY <2>1, <2>3
<1>5. CASE unread[cursor[cur]] = {} /\ cursor' = [cursor EXCEPT ![cur] = NoDir] /\ UNCHANGED <<stage, turns>>
  <2>1. cursor'[cur] = NoDir /\ \A t \in Values(tops) : t # cur => cursor'[t] = cursor[t]
    BY <1>0, <1>5 DEF WalkTypes
  <2>2. WalkFresh'
    BY <1>0, <1>1, <1>5, <2>1 DEF WalkFresh
  <2>3. cursor[cur] = cur => cur \in Visited
    BY <1>0, <1>5 DEF Visited
  <2>4. Fresh \ {cur} = Fresh
    BY <1>2
  <2>5. WalkShares'
    BY <1>0, <1>1, <1>2, <1>5, <1>s, <2>3, <2>4 DEF WalkShares
  <2> QED
    BY <2>2, <2>5
<1> QED
  BY <1>3, <1>4, <1>5 DEF StopReading, Truncate

\* A fresh one is opened with the whole slice ahead of it.
LEMMA FreshOpenNext == ASSUME WalkShape, WalkFresh, WalkShares, OpenNext PROVE WalkFresh' /\ WalkShares'
<1>0. /\ WalkTypes /\ WalkOnce /\ stage = "drain" /\ cursor[cur] = NoDir /\ cur \in Values(tops)
      /\ UNCHANGED <<opt, tops, turns, cur, spent, quantum, seen, late>>
  BY DEF WalkShape, OpenNext, WalkTypes
<1>v. \A t : t \in Values(<<t>>)
  BY DEF Values
<1>n. /\ seen \in Nat /\ spent \in Nat /\ quantum \in Nat /\ quantum > 0 /\ spent <= quantum /\ opt.entries \in Nat /\ Cardinality(Fresh) \in Nat
      /\ (Cardinality(Fresh) = 0 => Fresh = {}) /\ (Cardinality(Fresh \ {cur}) \in Nat)
  BY <1>0, FreshCount DEF WalkFresh
<1>d. cur \in Dirs /\ NoDir \notin Dirs /\ DiskRoot \notin Dirs /\ Values(tops) \subseteq Dirs /\ Folders = Dirs \cup {DiskRoot}
  BY <1>0, Shape DEF WalkTypes, Folders
<1>s. Ample => /\ Fresh \ {cur} \subseteq Values(turns) /\ seen + Cardinality(Fresh \ {cur}) + (quantum - spent) <= opt.entries
               /\ (cur \in Fresh => spent = 0) /\ Values(tops) \ Fresh \subseteq Visited
  BY <1>0, <1>d DEF WalkShares
<1>1. CASE stack[cur] = <<>> /\ stage' = "turn" /\ UNCHANGED <<cursor, stack, unread, shutTops>>
  <2>1. Fresh' = Fresh /\ Ample' = Ample /\ Visited' = Visited
    BY <1>0, <1>1 DEF Fresh, Ample, Visited
  <2>2. cur \notin Fresh
    <3>1. Len(<<>>) = 0 /\ Len(<<cur>>) = 1
      OBVIOUS
    <3>2. stack[cur] # <<cur>>
      <4>1. Len(stack[cur]) = 0
        BY <1>1, <3>1
      <4> QED
        BY <3>1, <4>1
    <3> QED
      BY <3>2 DEF Fresh
  <2>3. Fresh \ {cur} = Fresh
    BY <2>2
  <2>4. Ample => seen + Cardinality(Fresh) <= opt.entries
    <3>1. Cardinality(Fresh \ {cur}) = Cardinality(Fresh)
      BY <2>3
    <3> QED
      BY <1>n, <1>s, <3>1
  <2>5. WalkFresh'
    BY <1>0, <1>1, <2>1 DEF WalkFresh
  <2>6. WalkShares'
    BY <1>0, <1>1, <1>s, <2>1, <2>3, <2>4 DEF WalkShares
  <2> QED
    BY <2>5, <2>6
<1>2. CASE (OutOfEntries \/ late) /\ stage' = "done" /\ UNCHANGED <<cursor, stack, unread, shutTops>>
  <2>1. Fresh' = Fresh /\ Ample' = Ample /\ Visited' = Visited
    BY <1>0, <1>2 DEF Fresh, Ample, Visited
  <2>2. ASSUME Ample PROVE Fresh = {}
    <3>1. seen >= opt.entries
      BY <1>2, <2>2 DEF OutOfEntries, Ample
    <3>2. Cardinality(Fresh \ {cur}) = 0 /\ spent > 0
      BY <1>n, <1>s, <2>2, <3>1
    <3>3. cur \notin Fresh
      BY <1>n, <1>s, <2>2, <3>2
    <3>4. Fresh \ {cur} = Fresh
      BY <3>3
    <3> QED
      BY <1>n, <3>2, <3>4
  <2>3. WalkFresh'
    BY <1>0, <1>2, <2>1 DEF WalkFresh
  <2>4. WalkShares'
    BY <1>0, <1>2, <1>s, <2>1, <2>2 DEF WalkShares
  <2> QED
    BY <2>3, <2>4
<1> DEFINE d == Last(stack[cur])
<1>3. CASE /\ stack[cur] # <<>> /\ stage' = stage /\ stack' = [stack EXCEPT ![cur] = Front(@)]
           /\ IF d \in shut THEN shutTops' = (IF d = cur THEN shutTops \cup {d} ELSE shutTops) /\ UNCHANGED <<cursor, unread>>
              ELSE cursor' = [cursor EXCEPT ![cur] = d] /\ unread' = [unread EXCEPT ![d] = Children(d)] /\ shutTops' = shutTops
  <2>0. /\ stack \in [Values(tops) -> Seq(Dirs)] /\ stack[cur] \in Seq(Dirs) /\ OnceEach(stack[cur])
        /\ cursor \in [Values(tops) -> Dirs \cup {NoDir}] /\ unread \in [Folders -> SUBSET Entries]
    BY <1>0 DEF WalkTypes
  <2>1. /\ d \in Values(stack[cur]) /\ d \in Dirs /\ Values(Front(stack[cur])) = Values(stack[cur]) \ {d}
    BY <1>3, <2>0, PopValues
  <2>2. cur \in Values(stack[cur]) => d = cur
    <3>1. ASSUME stack[cur] = <<cur>> PROVE d = cur
      BY <3>1 DEF Last
    <3> QED
      BY <1>0, <3>1 DEF WalkFresh
  <2> HIDE DEF d
  <2>3. /\ Values(stack'[cur]) = Values(stack[cur]) \ {d} /\ \A t \in Values(tops) : t # cur => stack'[t] = stack[t]
    BY <1>0, <1>3, <2>0, <2>1
  <2>4. cur \notin Values(stack'[cur])
    BY <2>2, <2>3
  <2>5. Fresh' = Fresh \ {cur}
    <3>1. stack'[cur] # <<cur>>
      BY <1>v, <2>4
    <3> QED
      BY <1>0, <2>3, <3>1 DEF Fresh
  <2>6. d \in Values(tops) => d = cur
    <3>1. cur \in AncestorsOf[d] /\ d \in AncestorsOf[d]
      BY <1>0, <2>1, AllBelow DEF WalkOnce, Dirs
    <3>2. \A t \in Values(tops) : t \in Children(DiskRoot)
      BY <1>0, <1>d DEF WalkTypes, Children, Dirs
    <3> QED
      BY <1>0, <2>1, <3>1, <3>2, OneTop DEF Dirs
  <2>7. /\ \A t \in Values(tops) : t # cur => cursor'[t] = cursor[t]
        /\ \A x \in Folders : x # d => unread'[x] = unread[x]
        /\ shutTops \subseteq shutTops'
    BY <1>0, <1>3, <2>0, <2>1
  <2>8. Ample' = Ample
    BY <1>0, <1>d, <2>1, <2>7 DEF Ample
  <2>9. \A t \in Values(tops) : t \in Visited /\ t # d => t \in Visited'
    BY <1>0, <1>d, <2>7 DEF Visited
  <2>10. d = cur => cur \in Fresh /\ (cur \in Visited' \/ cursor'[cur] = cur)
    <3> SUFFICES ASSUME d = cur PROVE cur \in Fresh /\ (cur \in Visited' \/ cursor'[cur] = cur)
      OBVIOUS
    <3>1. cur \in Fresh
      BY <1>0, <2>1 DEF WalkFresh, Fresh
    <3>2. CASE d \in shut
      <4>1. shutTops' = IF d = cur THEN shutTops \cup {d} ELSE shutTops
        BY <1>3, <3>2
      <4>2. cur \in shutTops'
        BY <4>1
      <4> QED
        BY <1>0, <3>1, <4>2 DEF Visited
    <3>3. CASE d \notin shut
      <4>1. cursor' = [cursor EXCEPT ![cur] = d]
        BY <1>3, <3>3
      <4>2. cursor'[cur] = d
        BY <1>0, <2>0, <4>1
      <4> QED
        BY <3>1, <4>2
    <3> QED
      BY <3>1, <3>2, <3>3
  <2>11. WalkFresh'
    <3>1. (\A t \in Values(tops) : t \in Values(stack[t]) => stack[t] = <<t>> /\ cursor[t] = NoDir)'
      BY <1>0, <2>3, <2>4, <2>7 DEF WalkFresh
    <3>2. OnceEach(turns) /\ cur \notin Values(turns) /\ \A i, j \in 1..Len(turns) : i < j /\ turns[j] \in Fresh => turns[i] \in Fresh
      BY <1>0 DEF WalkFresh
    <3>3. \A i, j \in 1..Len(turns) : i < j /\ turns[j] \in Fresh' => turns[i] \in Fresh'
      BY <2>5, <3>2 DEF Values
    <3>4. stage' = "drain" /\ (seen \in Nat /\ spent \in Nat /\ quantum \in Nat /\ late \in BOOLEAN)'
      BY <1>0, <1>3 DEF WalkFresh
    <3> QED
      BY <1>0, <1>n, <3>1, <3>2, <3>3, <3>4 DEF WalkFresh
  <2>12. WalkShares'
    <3> SUFFICES ASSUME Ample
                 PROVE  /\ (Fresh \ {cur} \subseteq Values(turns) /\ seen + Cardinality(Fresh \ {cur}) + (quantum - spent) <= opt.entries)'
                        /\ (\A t \in Values(tops) \ Fresh : t \in Visited \/ (t = cur /\ cursor[t] = t /\ spent = 0))'
      BY <1>0, <1>3, <2>5, <2>8 DEF WalkShares
    <3>1. Fresh' \ {cur'} = Fresh \ {cur}
      BY <1>0, <2>5
    <3>2. (Fresh \ {cur} \subseteq Values(turns) /\ seen + Cardinality(Fresh \ {cur}) + (quantum - spent) <= opt.entries)'
      BY <1>0, <1>s, <3>1
    <3>3. ASSUME NEW t \in Values(tops), t \notin Fresh' PROVE t \in Visited' \/ (t = cur' /\ cursor'[t] = t /\ spent' = 0)
      <4>1. CASE t # cur
        <5>1. t \in Visited /\ t # d
          BY <1>s, <2>5, <2>6, <3>3, <4>1
        <5> QED
          BY <2>9, <5>1
      <4>2. CASE t = cur /\ d = cur
        BY <1>0, <1>s, <2>10, <4>2
      <4>3. CASE t = cur /\ d # cur
        <5>1. cur \notin Fresh
          BY <1>v, <2>2, <4>3 DEF Fresh
        <5> QED
          BY <1>0, <1>s, <2>9, <4>3, <5>1
      <4> QED
        BY <4>1, <4>2, <4>3
    <3>4. (\A t \in Values(tops) \ Fresh : t \in Visited \/ (t = cur /\ cursor[t] = t /\ spent = 0))'
      BY <1>0, <3>3
    <3> QED
      BY <3>2, <3>4
  <2> QED
    BY <2>11, <2>12
<1> QED
  BY <1>1, <1>2, <1>3 DEF OpenNext, Truncate

\* When the time is up, nothing is promised to the fresh ones.
LEMMA FreshTimeIsUp == ASSUME WalkFresh, WalkShares, TimeIsUp \/ UNCHANGED diskVars PROVE WalkFresh' /\ WalkShares'
<1>0. /\ UNCHANGED <<stage, opt, unread, tops, cursor, stack, turns, cur, spent, quantum, seen, shutTops>>
      /\ late' = TRUE \/ late' = late
  BY DEF TimeIsUp, diskVars
<1>1. Fresh' = Fresh /\ Visited' = Visited /\ (Ample' => Ample)
  BY <1>0 DEF Fresh, Visited, Ample
<1>2. WalkFresh'
  BY <1>0, <1>1 DEF WalkFresh
<1>3. WalkShares'
  BY <1>0, <1>1 DEF WalkShares
<1> QED
  BY <1>2, <1>3

-----------------------------------------------------------------------------
(* The walk as a whole.                                                    *)

\* It starts with nothing counted.
LEMMA DiskInvInit == ASSUME DiskInit PROVE DiskInv
<1>0. readFiles = {} /\ bigFiles = {} /\ inodes = {} /\ floor = 0 /\ bytes = [d \in Folders |-> 0] /\ rep.total = 0
  BY DEF DiskInit, Folders
<1>1. WalkBytes
  <2>1. Sum({}) = 0
    BY SumFiles
  <2>2. \A d : readFiles \cap Below(d) = {}
    BY <1>0
  <2>3. \A d \in Folders : bytes[d] = Sum(readFiles \cap Below(d))
    BY <1>0, <2>1, <2>2
  <2>4. DiskRoot \in Folders /\ bytes[DiskRoot] = 0 /\ bytes \in [Folders -> Nat]
    BY <1>0 DEF Folders
  <2> QED
    BY <1>0, <2>3, <2>4 DEF WalkBytes
<1>2. WalkFiles
  BY <1>0, FS_EmptySet, BudgetAssumption DEF WalkFiles, Eligible
<1> QED
  BY <1>1, <1>2, ShapeInit, FreshInit DEF DiskInv

\* Every step keeps it.
LEMMA DiskInvStep == ASSUME DiskInv, DiskNext \/ UNCHANGED diskVars PROVE DiskInv'
<1>0. WalkShape /\ WalkTypes /\ WalkOnce /\ WalkBytes /\ WalkFiles /\ WalkFresh /\ WalkShares
  BY DEF DiskInv, WalkShape
<1>r. rep \in [unreadable : Nat, truncated : BOOLEAN, total : Nat, depthLimited : Nat, untracked : Nat, deduped : Nat]
  BY <1>0 DEF WalkTypes
<1>q. ASSUME UNCHANGED <<bytes, inodes, readFiles, bigFiles, floor>>, rep'.total = rep.total PROVE WalkBytes' /\ WalkFiles'
  BY <1>0, <1>q DEF WalkBytes, WalkFiles, Eligible
<1>1. CASE OpenRoot
  <2>1. UNCHANGED <<bytes, inodes, readFiles, bigFiles, floor>> /\ rep'.total = rep.total
    BY <1>1, <1>r DEF OpenRoot, NoteUnreadable
  <2> QED
    BY <1>0, <1>1, <1>q, <2>1, ShapeOpenRoot, FreshOpenRoot DEF DiskInv
<1>2. CASE ListRoot
  <2>1. PICK e : LooksAt(e, DiskRoot)
    BY <1>0, <1>2, ListRootLooks
  <2>2. WalkBytes' /\ WalkFiles'
    BY <1>0, <2>1, BytesAbsorb, FilesAbsorb
  <2> QED
    BY <1>0, <1>2, <2>2, ShapeListRoot, FreshListRoot DEF DiskInv
<1>3. CASE RootListed
  <2>1. UNCHANGED <<bytes, inodes, readFiles, bigFiles, floor>> /\ rep'.total = rep.total
    BY <1>3, <1>r DEF RootListed, Truncate
  <2> QED
    BY <1>0, <1>3, <1>q, <2>1, ShapeRootListed, FreshRootListed DEF DiskInv
<1>4. CASE NextTurn
  <2>1. UNCHANGED <<bytes, inodes, readFiles, bigFiles, floor>> /\ rep'.total = rep.total
    BY <1>4, <1>r DEF NextTurn, Truncate
  <2> QED
    BY <1>0, <1>4, <1>q, <2>1, ShapeNextTurn, FreshNextTurn DEF DiskInv
<1>5. CASE ReadEntry
  <2> DEFINE d == cursor[cur]
  <2>1. PICK e : LooksAt(e, d)
    BY <1>0, <1>5, ReadEntryLooks
  <2> HIDE DEF d
  <2>2. WalkBytes' /\ WalkFiles'
    BY <1>0, <2>1, BytesAbsorb, FilesAbsorb
  <2> QED
    BY <1>0, <1>5, <2>2, ShapeReadEntry, FreshReadEntry DEF DiskInv
<1>6. CASE StopReading
  <2>1. UNCHANGED <<bytes, inodes, readFiles, bigFiles, floor>> /\ rep'.total = rep.total
    BY <1>6, <1>r DEF StopReading, Truncate
  <2> QED
    BY <1>0, <1>6, <1>q, <2>1, ShapeStopReading, FreshStopReading DEF DiskInv
<1>7. CASE OpenNext
  <2>1. UNCHANGED <<bytes, inodes, readFiles, bigFiles, floor>> /\ rep'.total = rep.total
    BY <1>7, <1>r DEF OpenNext, Truncate, NoteUnreadable
  <2> QED
    BY <1>0, <1>7, <1>q, <2>1, ShapeOpenNext, FreshOpenNext DEF DiskInv
<1>8. CASE TimeIsUp \/ UNCHANGED diskVars
  <2>1. UNCHANGED <<bytes, inodes, readFiles, bigFiles, floor>> /\ rep'.total = rep.total
    BY <1>8 DEF TimeIsUp, diskVars
  <2> QED
    BY <1>0, <1>8, <1>q, <2>1, ShapeTimeIsUp, FreshTimeIsUp DEF DiskInv
<1> QED
  BY <1>1, <1>2, <1>3, <1>4, <1>5, <1>6, <1>7, <1>8 DEF DiskNext, DiskSteps

-----------------------------------------------------------------------------
(* What is reported.                                                       *)

\* What is above an entry is above those below it.
LEMMA AncestorsUp ==
  \A d \in Entries : \A x \in AncestorsOf[d] \cap Entries : ParentOf[x] \in AncestorsOf[d]
<1> DEFINE Bad == {d \in Entries : \E x \in AncestorsOf[d] \cap Entries : ParentOf[x] \notin AncestorsOf[d]}
<1> SUFFICES ASSUME Bad # {} PROVE FALSE
  OBVIOUS
<1>1. PICK d \in Bad : ParentOf[d] \notin Bad
  BY TreeAssumption
<1>2. PICK x \in AncestorsOf[d] \cap Entries : ParentOf[x] \notin AncestorsOf[d]
  BY <1>1
<1> DEFINE p == ParentOf[d]
<1>3. p \in Entries \cup {DiskRoot} /\ AncestorsOf[d] = {d} \cup AncestorsOf[p] /\ p \in AncestorsOf[p]
  BY AncestorsAre, AllBelow, TreeAssumption
<1>4. x # d
  BY <1>2, <1>3
<1>5. CASE p = DiskRoot
  <2>1. AncestorsOf[p] = {DiskRoot}
    BY <1>5, AncestorsAre
  <2> QED
    BY <1>2, <1>3, <1>4, <2>1, TreeAssumption
<1>6. CASE p \in Entries
  <2>1. x \in AncestorsOf[p] \cap Entries
    BY <1>2, <1>3, <1>4
  <2> QED
    BY <1>1, <1>2, <1>3, <1>6, <2>1
<1> QED
  BY <1>3, <1>5, <1>6

\* A directory that was looked at was left to be opened, if nothing is reported.
LEMMA DirUnfolds ==
  ASSUME WalkShape, SkippedNothing, NEW p \in LookedAt, KindOf[p] = "dir"
  PROVE  p \in Unfolded
<1>0. WalkTypes /\ WalkTold /\ rep.unreadable = 0 /\ rep.depthLimited = 0 /\ rep.untracked = 0
  BY DEF WalkShape, SkippedNothing
<1>1. p \in Entries /\ p # DiskRoot
  BY TreeAssumption DEF LookedAt
<1>2. p \notin gone
  BY <1>0 DEF WalkTold
<1>3. p \in tracked
  BY <1>0, <1>2 DEF WalkTold
<1> QED
  BY <1>0, <1>1, <1>3 DEF WalkTold

\* It was read to the end, if the first-level directory above it is finished.
LEMMA UnfoldedRead ==
  ASSUME WalkShape, SkippedNothing, NEW p \in Unfolded, \A u \in Values(tops) : u \in AncestorsOf[p] => Finished(u)
  PROVE  p \in OpenDirs /\ unread[p] = {}
<1>0. WalkTypes /\ WalkOnce /\ WalkTold /\ rep.unreadable = 0
  BY DEF WalkShape, SkippedNothing
<1>1. p \in Dirs /\ NoDir \notin Dirs
  BY <1>0, Shape
<1>2. p \notin Stacked
  <2> SUFFICES ASSUME p \in Stacked PROVE FALSE
    OBVIOUS
  <2>1. DOMAIN stack = Values(tops)
    BY <1>0 DEF WalkTypes
  <2>2. PICK u \in Values(tops) : p \in Values(stack[u])
    BY <2>1 DEF Stacked
  <2>3. stack[u] = <<>>
    BY <1>0, <2>2 DEF WalkOnce, Finished
  <2> QED
    BY <2>2, <2>3 DEF Values
<1>3. p \notin shut
  BY <1>0, <1>2 DEF WalkTold
<1>4. p \in OpenDirs
  BY <1>2, <1>3 DEF OpenDirs
<1>5. unread[p] = {}
  <2> SUFFICES ASSUME unread[p] # {} PROVE FALSE
    OBVIOUS
  <2>1. PICK u \in Values(tops) : cursor[u] = p
    BY <1>0, <1>1 DEF WalkOnce
  <2>2. u \in AncestorsOf[p]
    BY <1>0, <1>1, <2>1 DEF WalkOnce
  <2> QED
    BY <1>1, <2>1, <2>2 DEF Finished
<1> QED
  BY <1>4, <1>5

\* The way to a file, when nothing is reported: it was gone along from the first-level
\* directory t, or from the root.
LEMMA FileReached ==
  ASSUME WalkShape, stage = "done", SkippedNothing, NEW f \in FilesOf,
         \A a \in AncestorsOf[ParentOf[f]] \ {DiskRoot} : KindOf[a] = "dir",
         \/ \E t \in Values(tops) : t \in AncestorsOf[f] /\ Finished(t)
         \/ unread[DiskRoot] = {} /\ \A t \in Values(tops) : Finished(t)
  PROVE  Counted(f)
<1>0. WalkTypes /\ WalkOnce /\ WalkTold /\ rep.unreadable = 0 /\ f \in Entries /\ KindOf[f] = "file"
  BY DEF WalkShape, SkippedNothing, FilesOf
<1>d. DiskRoot \notin Entries /\ DiskRoot \notin Dirs /\ \A t \in Values(tops) : t \in Entries /\ KindOf[t] = "dir" /\ ParentOf[t] = DiskRoot /\ t \in Unfolded
  BY <1>0, Shape, TreeAssumption DEF WalkTypes, Dirs
<1>p. ASSUME NEW e \in Entries, e \in AncestorsOf[f]
      PROVE  /\ ParentOf[e] \in AncestorsOf[f] /\ ParentOf[e] \in Entries \cup {DiskRoot}
             /\ ParentOf[e] \in Entries => KindOf[ParentOf[e]] = "dir"
             /\ AncestorsOf[e] = {e} \cup AncestorsOf[ParentOf[e]]
  <2>1. ParentOf[e] \in Entries \cup {DiskRoot} /\ AncestorsOf[e] = {e} \cup AncestorsOf[ParentOf[e]] /\ ParentOf[e] \in AncestorsOf[f]
    <3>1. ParentOf[e] \in Entries \cup {DiskRoot} /\ AncestorsOf[e] = {e} \cup AncestorsOf[ParentOf[e]]
      BY <1>d, AncestorsAre, TreeAssumption
    <3>2. ParentOf[e] \in AncestorsOf[f]
      BY <1>0, <1>p, AncestorsUp
    <3> QED
      BY <3>1, <3>2
  <2>2. /\ AncestorsOf[f] = {f} \cup AncestorsOf[ParentOf[f]] /\ ParentOf[f] \in AncestorsOf[ParentOf[f]]
        /\ ParentOf[f] \in Entries \cup {DiskRoot} /\ AncestorsOf[DiskRoot] = {DiskRoot}
    BY <1>0, <1>d, AncestorsAre, AllBelow, TreeAssumption
  <2>3. ParentOf[e] \in AncestorsOf[ParentOf[f]] \/ ParentOf[e] \notin Entries
    <3>1. CASE e = f
      BY <2>2, <3>1
    <3>2. CASE e # f
      <4>1. e \in AncestorsOf[ParentOf[f]] /\ ParentOf[f] \in Entries
        BY <1>d, <1>p, <2>2, <3>2
      <4> QED
        BY <4>1, AncestorsUp
    <3> QED
      BY <3>1, <3>2
  <2> QED
    BY <1>d, <2>1, <2>3
<1>1. f \in LookedAt
  <2>1. CASE \E t \in Values(tops) : t \in AncestorsOf[f] /\ Finished(t)
    <3>1. PICK t \in Values(tops) : t \in AncestorsOf[f] /\ Finished(t)
      BY <2>1
    <3> DEFINE Bad == {e \in Entries : e \in AncestorsOf[f] /\ t \in AncestorsOf[e] /\ e # t /\ e \notin LookedAt}
    <3>2. ASSUME Bad # {} PROVE FALSE
      <4>1. Bad \in SUBSET Entries
        OBVIOUS
      <4> HIDE DEF Bad
      <4>2. PICK e \in Bad : ParentOf[e] \notin Bad
        BY <3>2, <4>1, TreeAssumption
      <4> DEFINE p == ParentOf[e]
      <4>3. e \in Entries /\ e \in AncestorsOf[f] /\ t \in AncestorsOf[e] /\ e # t /\ e \notin LookedAt
        BY <4>2 DEF Bad
      <4>4. /\ p \in AncestorsOf[f] /\ p \in Entries \cup {DiskRoot} /\ (p \in Entries => KindOf[p] = "dir")
            /\ AncestorsOf[e] = {e} \cup AncestorsOf[p] /\ AncestorsOf[DiskRoot] = {DiskRoot}
        BY <1>p, <4>3, AncestorsAre
      <4>5. t \in AncestorsOf[p] /\ p \in Entries /\ KindOf[p] = "dir"
        BY <1>d, <4>3, <4>4
      <4>6. p = t \/ p \in LookedAt
        BY <4>2, <4>4, <4>5 DEF Bad
      <4>7. p \in Unfolded
        BY <1>d, <4>5, <4>6, DirUnfolds
      <4>8. \A u \in Values(tops) : u \in AncestorsOf[p] => u = t
        BY <1>d, <4>5, OneTop DEF Children
      <4> HIDE DEF p
      <4>9. p \in OpenDirs /\ unread[p] = {}
        BY <3>1, <4>7, <4>8, UnfoldedRead
      <4> QED
        BY <4>3, <4>9 DEF LookedAt, p
    <3>3. f # t /\ f \in AncestorsOf[f]
      BY <1>0, <1>d, AllBelow
    <3> QED
      BY <1>0, <3>1, <3>2, <3>3
  <2>2. CASE unread[DiskRoot] = {} /\ \A t \in Values(tops) : Finished(t)
    <3> DEFINE Bad == {e \in Entries : e \in AncestorsOf[f] /\ e \notin LookedAt}
    <3>2. ASSUME Bad # {} PROVE FALSE
      <4>1. Bad \in SUBSET Entries
        OBVIOUS
      <4> HIDE DEF Bad
      <4>2. PICK e \in Bad : ParentOf[e] \notin Bad
        BY <3>2, <4>1, TreeAssumption
      <4> DEFINE p == ParentOf[e]
      <4>3. e \in Entries /\ e \in AncestorsOf[f] /\ e \notin LookedAt
        BY <4>2 DEF Bad
      <4>4. p \in AncestorsOf[f] /\ p \in Entries \cup {DiskRoot} /\ (p \in Entries => KindOf[p] = "dir")
        BY <1>p, <4>3
      <4>5. CASE p = DiskRoot
        <5>1. DiskRoot \notin shut
          BY <1>0 DEF WalkTold
        <5>2. DiskRoot \in OpenDirs
          BY <5>1 DEF OpenDirs
        <5> QED
          BY <2>2, <4>3, <4>5, <5>2 DEF LookedAt
      <4>6. CASE p \in Entries
        <5>1. p \in LookedAt
          BY <4>2, <4>4, <4>6 DEF Bad
        <5>2. p \in Unfolded
          BY <4>4, <4>6, <5>1, DirUnfolds
        <5> HIDE DEF p
        <5>3. p \in OpenDirs /\ unread[p] = {}
          BY <2>2, <5>2, UnfoldedRead
        <5> QED
          BY <4>3, <5>3 DEF LookedAt, p
      <4> QED
        BY <4>4, <4>5, <4>6
    <3>3. f \in AncestorsOf[f]
      BY <1>0, AllBelow
    <3> QED
      BY <1>0, <3>2, <3>3
  <2> QED
    BY <2>1, <2>2
<1> QED
  BY <1>0, <1>1 DEF WalkTold

\* The report is true.
LEMMA DiskInvTells == ASSUME DiskInv PROVE WalkHonest /\ BytesAddUp /\ EveryTopVisited /\ TopFilesLargest
<1>0. WalkShape /\ WalkTypes /\ WalkTurns /\ WalkBytes /\ WalkFiles /\ WalkFresh /\ WalkShares
  BY DEF DiskInv, WalkShape
<1>t. ToSet(tops) = Values(tops)
  BY <1>0 DEF ToSet, Values, WalkTypes
<1>1. WalkHonest
  <2> SUFFICES ASSUME stage = "done", SkippedNothing
               PROVE  /\ \A t \in Values(tops) : Finished(t) => \A f \in Reachable(t) : Counted(f)
                      /\ ~rep.truncated => \A f \in Reachable(DiskRoot) : Counted(f)
    BY <1>t DEF WalkHonest, IncompleteTops
  <2>1. ASSUME NEW t \in Values(tops), Finished(t), NEW f \in Reachable(t) PROVE Counted(f)
    <3>1. f \in FilesOf /\ t \in AncestorsOf[f] /\ \A a \in AncestorsOf[ParentOf[f]] \ {DiskRoot} : KindOf[a] = "dir"
      BY DEF Reachable, Below
    <3> QED
      BY <1>0, <2>1, <3>1, FileReached
  <2>2. ASSUME ~rep.truncated, NEW f \in Reachable(DiskRoot) PROVE Counted(f)
    <3>1. f \in FilesOf /\ \A a \in AncestorsOf[ParentOf[f]] \ {DiskRoot} : KindOf[a] = "dir"
      BY DEF Reachable
    <3>2. unread[DiskRoot] = {} /\ \A t \in Values(tops) : Finished(t)
      BY <1>0, <2>2 DEF WalkTurns, SkippedNothing
    <3> QED
      BY <1>0, <3>1, <3>2, FileReached
  <2> QED
    BY <2>1, <2>2
<1>2. BytesAddUp
  BY <1>0 DEF WalkBytes, BytesAddUp, Folders
<1>3. EveryTopVisited
  <2> SUFFICES ASSUME stage = "done", Ample, NEW t \in Values(tops), t \notin shutTops, Children(t) # {}
               PROVE  Children(t) \ unread[t] # {} /\ stack[t] # <<t>>
    BY <1>t DEF EveryTopVisited, Ample
  <2>1. Fresh = {} /\ t \in Visited
    BY <1>0 DEF WalkShares
  <2> QED
    BY <2>1 DEF Fresh, Visited
<1>4. TopFilesLargest
  BY <1>0, FilesListed
<1> QED
  BY <1>1, <1>2, <1>3, <1>4

-----------------------------------------------------------------------------
(* The disk investigation, among the topics.                               *)

\* The invariant of the walk, when that is what runs.
ReportInv == topic = "disk" => DiskInv

\* What the disk investigation reports is true: what it does not name as unfinished or unreadable
\* was read to the last file, bytes add up with every inode once, no first-level directory goes
\* without an entry while the budget has one for each, and the files it lists are the largest
\* (drain_round_robin, absorb, finish in investigate_disk.rs), for every tree, every budget and
\* every order in which directories are returned.
THEOREM DiskReportTrueHolds == ScansSpec => []DiskReportTrue
<1>1. ScansInit => ReportInv
  BY DiskInvInit DEF ScansInit, ReportInv
<1>2. ReportInv /\ [ScansNext]_scanVars => ReportInv'
  <2> SUFFICES ASSUME ReportInv, [ScansNext]_scanVars, topic' = "disk" PROVE DiskInv'
    BY DEF ReportInv
  <2>1. topic' = topic /\ (DiskNext \/ UNCHANGED diskVars)
    <3>1. CASE Scan
      BY <3>1 DEF Scan, StillDisk
    <3>2. CASE Answer
      BY <3>2 DEF Answer, StillAll, StillDisk
    <3>3. CASE UNCHANGED scanVars
      BY <3>3 DEF scanVars
    <3> QED
      BY <3>1, <3>2, <3>3 DEF ScansNext
  <2>2. DiskInv
    BY <2>1 DEF ReportInv
  <2> QED
    BY <2>1, <2>2, DiskInvStep
<1>3. ReportInv => DiskReportTrue
  BY DiskInvTells DEF ReportInv, DiskReportTrue
<1> QED
  BY <1>1, <1>2, <1>3, PTL DEF ScansSpec
=============================================================================
