---------------------------- MODULE AccountsScan ----------------------------
(***************************************************************************)
(* The accounts investigation (investigate_accounts.rs): who may log in    *)
(* and who may become root, from /etc/passwd, shadow, sudoers with its     *)
(* includes, authorized_keys and sshd_config with its includes.  Every     *)
(* source can be read, is denied, or is absent.  Includes form a graph     *)
(* that may have cycles; it is walked one file per step.                   *)
(***************************************************************************)
EXTENDS Investigate, SequencesExt

CONSTANTS
    AccountHosts,     \* hosts: passwd, users, shadow, sudo, sudoDirs, keys, sshd
    SudoMain,         \* /etc/sudoers
    SshdMain,         \* /etc/ssh/sshd_config
    MaxIncludeDepth,  \* MAX_INCLUDE_DEPTH
    AccountTop        \* request.top

VARIABLES
    apc,        \* section being worked on
    acct,       \* the host
    sudoDoc,    \* rules and aliases merged so far
    sudoFiles, sudoDirs,  \* includes still to be read, a stack each
    sudoSeen,   \* files and directories already visited
    sudoTally,
    sshFrames,  \* sshd files being read: file, next line, depth
    sshValues,  \* directive -> value in force
    sshSeen,
    acctFindings

accountVars == <<apc, acct, sudoDoc, sudoFiles, sudoDirs, sudoSeen, sudoTally, sshFrames, sshValues, sshSeen, acctFindings>>

sudoVars == <<sudoDoc, sudoFiles, sudoDirs, sudoSeen, sudoTally>>
sshVars == <<sshFrames, sshValues, sshSeen>>

SystemUidMax == 1000

-----------------------------------------------------------------------------
(* Accounts and passwords.                                                 *)

\* parse_passwd: comments, NIS lines and broken lines are no accounts.
Accounts == {u \in acct.users : u.wellFormed}

LoginShell(u) == u.shell \notin {"nologin", "false", "sync", ""}

RootAliases == {u \in Accounts : u.uid = 0 /\ u.name # "root"}
SystemLogins == {u \in Accounts : u.uid # 0 /\ u.uid < SystemUidMax /\ LoginShell(u)}

UidsFinding ==
    LET tally == TallyRead(NoTally, acct.passwd)
        status == CASE acct.passwd # "ok" -> "unknown"
                    [] acct.passwd = "ok" /\ RootAliases # {} -> "fail"
                    [] acct.passwd = "ok" /\ RootAliases = {} /\ SystemLogins # {} -> "warn"
                    [] OTHER -> "ok"
    IN  Covered(Finding("uids", status, IF acct.passwd = "ok" THEN Cardinality(RootAliases \cup SystemLogins) ELSE 0),
                tally, AccountTop)

\* An empty field lets anybody in, a leading ! or * nobody.
ClassifyPassword(field) == CASE field = "" -> "none" [] field \in {"!", "*"} -> "locked" [] OTHER -> "set"

\* Accounts with a shell by the kind of their password; LDAP accounts have no record.
PasswordKind(u) == IF u.name \in DOMAIN acct.shadow.fields THEN ClassifyPassword(acct.shadow.fields[u.name]) ELSE "no-record"

PasswordsFinding ==
    LET logins == {u \in Accounts : LoginShell(u)}
        empty == {u \in logins : PasswordKind(u) = "none"}
        source == IF acct.passwd # "ok" THEN acct.passwd ELSE acct.shadow.state
        status == CASE source # "ok" -> "unknown" [] source = "ok" /\ empty # {} -> "fail" [] OTHER -> "ok"
    IN  Covered(Finding("passwords", status, IF source = "ok" THEN Cardinality(logins) ELSE 0),
                TallyRead(NoTally, source), AccountTop)

-----------------------------------------------------------------------------
(* sudoers.                                                                *)

NoDoc == [specs |-> {}, aliases |-> 0, includes |-> <<>>, dirs |-> <<>>]

\* One statement: an include, an alias, a default, or a rule.  An assignment
\* of ALL with NOPASSWD is what matters; aliases are counted, not expanded.
SudoStatement(doc, line) ==
    CASE line.kind = "include" -> [doc EXCEPT !.includes = Append(@, line.path)]
      [] line.kind = "includedir" -> [doc EXCEPT !.dirs = Append(@, line.path)]
      [] line.kind = "alias" -> [doc EXCEPT !.aliases = @ + 1]
      [] line.kind = "rule" -> [doc EXCEPT !.specs = @ \cup {[who |-> line.who, nopasswd |-> line.nopasswd, all |-> line.all]}]
      [] OTHER -> doc

ParseSudoers(lines) == FoldLeft(SudoStatement, NoDoc, lines)

SudoFile(path) == IF path \in DOMAIN acct.sudo THEN acct.sudo[path] ELSE [state |-> "absent", lines |-> <<>>]

MergeSudoers(doc, more) == [doc EXCEPT !.specs = @ \cup more.specs, !.aliases = @ + more.aliases]

\* State of the expansion, for the steps that read several files.
Expansion == [doc |-> sudoDoc, files |-> sudoFiles, dirs |-> sudoDirs, seen |-> sudoSeen, tally |-> sudoTally]

\* One file is read unless it was before: its rules are merged, its includes queued.
VisitSudoFile(x, path) ==
    LET file == SudoFile(path)
        doc == ParseSudoers(file.lines)
        read == [x EXCEPT !.seen = @ \cup {path}, !.tally = TallyRead(@, file.state)]
    IN  IF path \in x.seen THEN x
        ELSE IF file.state # "ok" THEN read
        ELSE [read EXCEPT !.doc = MergeSudoers(@, doc), !.files = @ \o doc.includes, !.dirs = @ \o doc.dirs]

SetExpansion(x) ==
    /\ sudoDoc' = x.doc /\ sudoFiles' = x.files /\ sudoDirs' = x.dirs
    /\ sudoSeen' = x.seen /\ sudoTally' = x.tally

\* sudo ignores names with a dot and backups.
SudoDirFiles(dir) == SelectSeq(acct.sudoDirs[dir].files, LAMBDA f : f \notin acct.ignored)

\* A sudoers file that is not there means no sudo; one that is denied is unknown.
StartSudoers ==
    /\ apc = "sudoers"
    /\ LET file == SudoFile(SudoMain)
           doc == ParseSudoers(file.lines)
           tally == TallyRead(NoTally, file.state)
           finding == Covered(Finding("sudoers", IF file.state = "denied" THEN "unknown" ELSE "ok", 0), tally, AccountTop)
       IN  IF file.state = "ok"
           THEN /\ SetExpansion([doc |-> MergeSudoers(NoDoc, doc), files |-> doc.includes, dirs |-> doc.dirs, seen |-> {}, tally |-> tally])
                /\ apc' = "expand" /\ acctFindings' = acctFindings
           ELSE /\ acctFindings' = Append(acctFindings, finding)
                /\ apc' = "keys" /\ UNCHANGED sudoVars
    /\ UNCHANGED <<acct, sshVars>>

ExpandInclude ==
    /\ apc = "expand" /\ sudoFiles # <<>>
    /\ SetExpansion(VisitSudoFile([Expansion EXCEPT !.files = Front(@)], Last(sudoFiles)))
    /\ UNCHANGED <<apc, acct, sshVars, acctFindings>>

\* Mutant: the includes of files found in a directory are not followed.
ExpandDirLeaves ==
    /\ apc = "expand" /\ sudoFiles = <<>> /\ sudoDirs # <<>>
    /\ LET dir == Last(sudoDirs)
           x == [Expansion EXCEPT !.dirs = Front(@)]
           listed == [x EXCEPT !.seen = @ \cup {dir}, !.tally = TallyRead(@, acct.sudoDirs[dir].state)]
           leaf(y, f) == [VisitSudoFile(y, f) EXCEPT !.files = y.files]
       IN  SetExpansion(IF dir \in x.seen THEN x
                        ELSE IF acct.sudoDirs[dir].state # "ok" THEN listed
                        ELSE FoldLeft(leaf, listed, SudoDirFiles(dir)))
    /\ UNCHANGED <<apc, acct, sshVars, acctFindings>>

\* Directories only when no include waits; their files may queue more of both.
ExpandDir ==
    /\ apc = "expand" /\ sudoFiles = <<>> /\ sudoDirs # <<>>
    /\ LET dir == Last(sudoDirs)
           x == [Expansion EXCEPT !.dirs = Front(@)]
           listed == [x EXCEPT !.seen = @ \cup {dir}, !.tally = TallyRead(@, acct.sudoDirs[dir].state)]
       IN  SetExpansion(IF dir \in x.seen THEN x
                        ELSE IF acct.sudoDirs[dir].state # "ok" THEN listed
                        ELSE FoldLeft(VisitSudoFile, listed, SudoDirFiles(dir)))
    /\ UNCHANGED <<apc, acct, sshVars, acctFindings>>

Risky(specs) == {s \in specs : s.nopasswd /\ s.all /\ s.who # "root"}

SudoersFinding ==
    Covered(Finding("sudoers", IF Risky(sudoDoc.specs) # {} THEN "warn" ELSE "ok",
                    Cardinality({s \in sudoDoc.specs : s.all})), sudoTally, AccountTop)

SudoersDone ==
    /\ apc = "expand" /\ sudoFiles = <<>> /\ sudoDirs = <<>>
    /\ acctFindings' = Append(acctFindings, SudoersFinding)
    /\ apc' = "keys"
    /\ UNCHANGED <<acct, sudoVars, sshVars>>

-----------------------------------------------------------------------------
(* Authorized keys.                                                        *)

\* What is found at a home: a link is evidence and is not followed, a file
\* that is too large is skipped, most users have none; "denied" is a file that
\* is seen and cannot be read (metadata_of sees none in a home it may not enter).
KeyFile(u) == IF u.home /\ u.name \in DOMAIN acct.keys THEN acct.keys[u.name] ELSE [kind |-> "none", recent |-> FALSE]

KeysFinding ==
    LET of(kind) == {u \in Accounts : KeyFile(u).kind = kind}
        recent == {u \in of("keys") : KeyFile(u).recent}
        tally == [checked |-> Cardinality({u \in Accounts : u.home}), denied |-> Cardinality(of("denied")),
                  skipped |-> Cardinality(of("large"))]
        status == CASE acct.passwd # "ok" -> "unknown"
                    [] acct.passwd = "ok" /\ of("symlink") \cup recent # {} -> "warn"
                    [] OTHER -> "ok"
    IN  IF acct.passwd # "ok" THEN Covered(Finding("keys", status, 0), TallyRead(NoTally, acct.passwd), AccountTop)
        ELSE Covered(Finding("keys", status, Cardinality(of("symlink") \cup of("keys"))), tally, AccountTop)

-----------------------------------------------------------------------------
(* sshd_config.                                                            *)

SshdFile(path) == IF path \in DOMAIN acct.sshd THEN acct.sshd[path] ELSE [state |-> "absent", lines |-> <<>>]

\* Files an Include names, sorted, to be read in this order before the next line.
ExpandIncludes(line, depth) == [i \in DOMAIN line.files |-> [file |-> line.files[i], at |-> 0, depth |-> depth + 1]]

\* collect_sshd: a file is read once, and not below the depth limit.
OpenSshdFile ==
    /\ apc = "sshd" /\ sshFrames # <<>> /\ Head(sshFrames).at = 0
    /\ LET f == Head(sshFrames)
       IN  IF f.depth > MaxIncludeDepth \/ f.file \in sshSeen
           THEN sshFrames' = Tail(sshFrames) /\ sshSeen' = sshSeen
           ELSE /\ sshSeen' = sshSeen \cup {f.file}
                /\ sshFrames' = IF SshdFile(f.file).state = "ok" THEN <<[f EXCEPT !.at = 1]>> \o Tail(sshFrames)
                                ELSE Tail(sshFrames)
    /\ UNCHANGED <<apc, acct, sudoVars, sshValues, acctFindings>>

\* The first value of a directive is in force.
TakeValue(line) == [k \in DOMAIN sshValues \cup {line.key} |-> IF k \in DOMAIN sshValues THEN sshValues[k] ELSE line.value]

\* apply_sshd_text: a Match ends what is global, an Include is read in its place.
ReadSshdLine ==
    /\ apc = "sshd" /\ sshFrames # <<>> /\ Head(sshFrames).at > 0
    /\ LET f == Head(sshFrames)
           lines == SshdFile(f.file).lines
           line == lines[f.at]
           next == <<[f EXCEPT !.at = @ + 1]>> \o Tail(sshFrames)
       IN  \/ f.at > Len(lines) /\ sshFrames' = Tail(sshFrames) /\ sshValues' = sshValues
           \/ f.at <= Len(lines) /\ line.key = "match" /\ sshFrames' = Tail(sshFrames) /\ sshValues' = sshValues
           \/ f.at <= Len(lines) /\ line.key = "include" /\ sshFrames' = ExpandIncludes(line, f.depth) \o next /\ sshValues' = sshValues
           \/ f.at <= Len(lines) /\ line.key \notin {"match", "include"} /\ sshFrames' = next /\ sshValues' = TakeValue(line)
    /\ UNCHANGED <<apc, acct, sudoVars, sshSeen, acctFindings>>

Lookup(key, default) == IF key \in DOMAIN sshValues THEN sshValues[key] ELSE default

SshFinding ==
    LET status == CASE DOMAIN sshValues = {} -> "unknown"
                    [] DOMAIN sshValues # {} /\ Lookup("permitemptypasswords", "no") = "yes" -> "fail"
                    [] DOMAIN sshValues # {} /\ Lookup("permitemptypasswords", "no") # "yes"
                          /\ Lookup("permitrootlogin", "prohibit-password") = "yes" -> "warn"
                    [] OTHER -> "ok"
    IN  IF SshdFile(SshdMain).state = "absent" THEN Finding("ssh", "ok", 0)
        ELSE Covered(Finding("ssh", status, IF status = "unknown" THEN 0 ELSE 4),
                     FoldSet(LAMBDA f, t : TallyRead(t, SshdFile(f).state), NoTally, sshSeen), AccountTop)

SshdDone ==
    /\ apc = "sshd" /\ sshFrames = <<>>
    /\ acctFindings' = Append(acctFindings, SshFinding)
    /\ apc' = "done"
    /\ UNCHANGED <<acct, sudoVars, sshVars>>

-----------------------------------------------------------------------------
(* The investigation.                                                      *)

StartAccounts ==
    /\ apc = "start"
    /\ acctFindings' = <<UidsFinding, PasswordsFinding>>
    /\ apc' = "sudoers"
    /\ UNCHANGED <<acct, sudoVars, sshVars>>

ListKeys ==
    /\ apc = "keys"
    /\ acctFindings' = Append(acctFindings, KeysFinding)
    /\ sshFrames' = IF SshdFile(SshdMain).state = "absent" THEN <<>> ELSE <<[file |-> SshdMain, at |-> 0, depth |-> 0]>>
    /\ apc' = "sshd"
    /\ UNCHANGED <<acct, sudoVars, sshValues, sshSeen>>

AccountsInit ==
    /\ apc = "start" /\ acct \in AccountHosts
    /\ sudoDoc = NoDoc /\ sudoFiles = <<>> /\ sudoDirs = <<>> /\ sudoSeen = {} /\ sudoTally = NoTally
    /\ sshFrames = <<>> /\ sshValues = <<>> /\ sshSeen = {} /\ acctFindings = <<>>

AccountsNext ==
    StartAccounts \/ StartSudoers \/ ExpandInclude \/ ExpandDir \/ SudoersDone \/ ListKeys
    \/ OpenSshdFile \/ ReadSshdLine \/ SshdDone

-----------------------------------------------------------------------------
(* Properties.                                                             *)

\* sudoers files reached from the main one through readable files and directories.
SudoEdges(path) ==
    LET doc == ParseSudoers(SudoFile(path).lines)
        dirs == {d \in ToSet(doc.dirs) : acct.sudoDirs[d].state = "ok"}
    IN  IF SudoFile(path).state # "ok" THEN {}
        ELSE ToSet(doc.includes) \cup UNION {ToSet(SudoDirFiles(d)) : d \in dirs}

SudoReached ==
    LET grow[n \in Nat] == IF n = 0 THEN {SudoMain} ELSE grow[n - 1] \cup UNION {SudoEdges(p) : p \in grow[n - 1]}
    IN  grow[Cardinality(DOMAIN acct.sudo) + 1]

\* Lines in the order in which sshd reads them; a file does not include itself.
SshdPaths == DOMAIN acct.sshd \cup {SshdMain}
InOrder[path \in SshdPaths, above \in SUBSET SshdPaths] ==
    LET file == SshdFile(path)
        ends == {i \in DOMAIN file.lines : file.lines[i].key = "match"}
        upto == IF ends = {} THEN Len(file.lines) ELSE (CHOOSE i \in ends : \A j \in ends : i <= j) - 1
        named(a, f) == IF f \in SshdPaths THEN a \o InOrder[f, above \cup {path}] ELSE a
        expand(acc, line) ==
            IF line.key # "include" THEN Append(acc, line) ELSE acc \o FoldLeft(named, <<>>, line.files)
    IN  IF file.state # "ok" \/ path \in above THEN <<>> ELSE FoldLeft(expand, <<>>, SubSeq(file.lines, 1, upto))

\* The report on sudo rests on every rule of every readable file that sudo would
\* read, whatever includes what, and the one on sshd on the value sshd would use:
\* that of the first line in reading order (expand_sudoers, collect_sshd).
IncludesFollowed ==
    /\ apc = "keys" /\ SudoFile(SudoMain).state = "ok" =>
          sudoDoc.specs = UNION {ParseSudoers(SudoFile(p).lines).specs : p \in {q \in SudoReached : SudoFile(q).state = "ok"}}
    /\ apc = "done" =>
          LET order == InOrder[SshdMain, {}]
              first(k) == CHOOSE i \in DOMAIN order : order[i].key = k /\ \A j \in 1..(i - 1) : order[j].key # k
          IN  /\ DOMAIN sshValues = {order[i].key : i \in DOMAIN order}
              /\ \A k \in DOMAIN sshValues : sshValues[k] = order[first(k)].value
=============================================================================
