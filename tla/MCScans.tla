------------------------------- MODULE MCScans -------------------------------
(***************************************************************************)
(* Small hosts for the investigations and the diagnosis.  Deviations from  *)
(* a base host are enumerated one or two at a time.                        *)
(***************************************************************************)
EXTENDS Scans, TLC

TreeEntries == {"a", "b", "c", "f0", "a1", "a2", "a3", "m", "b1", "b2"}
TreeParent == [a |-> "/", b |-> "/", c |-> "/", f0 |-> "/", a1 |-> "a", a2 |-> "a", a3 |-> "a2", m |-> "a2",
               b1 |-> "b", b2 |-> "b"]
TreeKind == [a |-> "dir", b |-> "dir", c |-> "dir", f0 |-> "file", a1 |-> "file", a2 |-> "dir", a3 |-> "file",
             m |-> "mount", b1 |-> "file", b2 |-> "file"]
TreeSize == [f0 |-> 2, a1 |-> 5, a3 |-> 3, b1 |-> 4, b2 |-> 4]
TreeInode == [f0 |-> 0, a1 |-> 0, a3 |-> 0, b1 |-> 7, b2 |-> 7]
ShutSets == {{}, {"b"}, {"a2"}, {"/"}}
GoneSets == {{}, {"a3"}}
WalkBudgets == {[entries |-> 6, slice |-> 2, depth |-> 3, tracked |-> 9], [entries |-> 8, slice |-> 1, depth |-> 3, tracked |-> 9],
   [entries |-> 20, slice |-> 4, depth |-> 3, tracked |-> 9], [entries |-> 20, slice |-> 2, depth |-> 1, tracked |-> 9],
   [entries |-> 20, slice |-> 2, depth |-> 3, tracked |-> 3]}
DiskUsages == {[used |-> 20, total |-> 100, isMount |-> TRUE, minGap |-> 4, inodes |-> 1, inodeTotal |-> 10]}
AgentDirs == {[size |-> 1, unreadable |-> 0]}

LGroupOf == [p1 |-> "g1", p2 |-> "g1", p3 |-> "g2", p4 |-> "nogroup"]
LLabel == [g1 |-> "web", g2 |-> "db"]
LExe == [p1 |-> "nginx", p2 |-> "nginx", p3 |-> "pg", p4 |-> "web"]
LHosts == {[cores |-> 2, load |-> 250, cpu |-> 40, busiest |-> 97, memory |-> 30, swap |-> 60, stat |-> <<[total |-> 10, idle |-> 5, iowait |-> 1], [total |-> 20, idle |-> 9, iowait |-> n]>>, psiSome |-> 0,
            psiFull |-> 0, dState |-> 0, window |-> 500, warnCpu |-> 1, failCpu |-> 2] : n \in {1, 5}}

User(n, u, s) == [name |-> n, uid |-> u, wellFormed |-> TRUE, shell |-> s, home |-> TRUE]
Text(lines) == [state |-> "ok", lines |-> lines]
Shut == [state |-> "denied", lines |-> <<>>]
Rule(who) == [kind |-> "rule", who |-> who, nopasswd |-> TRUE, all |-> TRUE]
Inc(path) == [kind |-> "include", path |-> path]
IncDir(path) == [kind |-> "includedir", path |-> path]
Set(k, v) == [key |-> k, value |-> v]
Includes(files) == [key |-> "include", files |-> files]

\* The files of sudoers.d include each other and the main file.
SudoCycle == ("sudoers" :> Text(<<[Rule("root") EXCEPT !.nopasswd = FALSE], Inc("x"), IncDir("sudoers.d")>>))
             @@ ("x" :> Text(<<Inc("y"), Rule("amy")>>)) @@ ("y" :> Text(<<Inc("x"), IncDir("more.d")>>))
             @@ ("d1" :> Text(<<Inc("z"), [kind |-> "alias"]>>)) @@ ("d2" :> Text(<<Rule("ops")>>))
             @@ ("z" :> Text(<<Rule("zed"), Inc("d1")>>)) @@ ("old~" :> Text(<<Rule("bob")>>))
SudoDirsOf == ("sudoers.d" :> [state |-> "ok", files |-> <<"d1", "d2", "old~">>]) @@ ("more.d" :> [state |-> "denied", files |-> <<>>])
SshdCycle == ("sshd_config" :> Text(<<Includes(<<"s1", "s2">>), Set("permitrootlogin", "no"), Set("port", "22"), [key |-> "match"], Set("permitemptypasswords", "yes")>>))
             @@ ("s1" :> Text(<<Set("port", "99"), Includes(<<"s2">>)>>)) @@ ("s2" :> Text(<<Set("permitrootlogin", "yes"), Includes(<<"sshd_config">>)>>))

BaseAccounts ==
    [passwd |-> "ok", users |-> {User("root", 0, "bash"), User("amy", 1001, "bash"), User("bin", 2, "nologin")},
     shadow |-> [state |-> "ok", fields |-> [root |-> "x", amy |-> "!"]], sudo |-> SudoCycle, sudoDirs |-> SudoDirsOf,
     ignored |-> {"old~"}, keys |-> [amy |-> [kind |-> "keys", recent |-> FALSE]], sshd |-> SshdCycle]

QuietSudo == "sudoers" :> Text(<<[Rule("root") EXCEPT !.nopasswd = FALSE]>>)
QuietSshd == "sshd_config" :> Text(<<Set("permitrootlogin", "no")>>)
QuietAccounts == [BaseAccounts EXCEPT !.sudo = QuietSudo, !.sshd = QuietSshd]

AccountsSet ==
    {[h EXCEPT !.passwd = p, !.shadow = [state |-> sh, fields |-> [root |-> f, amy |-> "!"]], !.users = @ \cup us, !.keys = [amy |-> [kind |-> k, recent |-> TRUE]]] :
        h \in {BaseAccounts, QuietAccounts}, p \in {"ok", "denied"}, sh \in {"ok", "denied"}, f \in {"x", ""},
        us \in {{}, {User("toor", 0, "bash")}}, k \in {"none", "keys", "symlink", "denied"}}
    \cup {[QuietAccounts EXCEPT !.sudo = "sudoers" :> s, !.sshd = d] :
             s \in {Shut, Text(<<Inc("nofile"), IncDir("more.d")>>)}, d \in {<<>>, "sshd_config" :> Shut, QuietSshd}}

Timed(n, d) == [name |-> n, days |-> d]
Unit(n, ts, l, f, d) == [name |-> n, targets |-> ts, link |-> l, linkDays |-> d, fragment |-> f, fileDays |-> d]
Cron(n, st, ls, d) == [name |-> n, plain |-> TRUE, state |-> st, lines |-> ls, days |-> d]
BasePersistence ==
    [unitsDir |-> "ok", units |-> {Unit("sshd", {"multi"}, "unit", "none", 90)}, deniedTargets |-> {},
     cronFiles |-> {Cron("crontab", "ok", <<"assign", "job">>, 90)}, cronDirs |-> {}, periodicDirs |-> {},
     preload |-> [state |-> "absent", libs |-> 0, days |-> 0], rcLocal |-> [state |-> "absent", days |-> 0],
     profile |-> [state |-> "ok", files |-> {Timed("lang.sh", 90)}]]
PersistenceSet ==
    {[BasePersistence EXCEPT !.unitsDir = d, !.units = @ \cup us, !.cronDirs = cs, !.preload = p, !.rcLocal = r] :
        d \in {"ok", "denied", "absent"},
        us \in {{}, {Unit("loose", {}, "none", "file", 1)}, {Unit("gone", {"multi"}, "devnull", "none", 1)}},
        cs \in {{}, {[state |-> "ok", files |-> {Cron("job", "ok", <<"download">>, 2)}]},
                {[state |-> "denied", files |-> {}]}, {[state |-> "ok", files |-> {Cron("user", "denied", <<"download">>, 2)}]}},
        p \in {[state |-> "absent", libs |-> 0, days |-> 0], [state |-> "ok", libs |-> 1, days |-> 90], [state |-> "denied", libs |-> 1, days |-> 90]},
        r \in {[state |-> "absent", days |-> 0], [state |-> "ok", days |-> 1]}}

Sock(pr, a, l, i) == [proto |-> pr, addr |-> a, port |-> 80, uid |-> 0, inode |-> i, listening |-> l]
ExposureSet ==
    {[tables |-> [tcp |-> t, udp |-> u], sockets |-> ss, fds |-> <<[inode |-> 1], [inode |-> 2], [inode |-> 3]>>,
      root |-> r, containers |-> r] :
        t \in {"ok", "denied"}, u \in {"ok", "absent"}, r \in BOOLEAN,
        ss \in {{}, {Sock("tcp", "0.0.0.0", TRUE, 1), Sock("udp", "127.0.0.1", FALSE, 3)}}}

Input(cp, sz, off, age, pr, sp) ==
    [plainId |-> TRUE, checkpoint |-> cp, size |-> sz, offset |-> off, age |-> age, presence |-> pr, files |-> 1, spool |-> sp]
TelemetrySet ==
    {[config |-> c, work |-> w, inputs |-> ins, seq |-> q, output |-> o] :
        c \in {"ok", "denied"}, w \in {"ok", "none"}, q \in {"ok", "broken"}, o \in BOOLEAN,
        ins \in {{}} \cup {{Input(cp, 9, 3, age, pr, sp), Input("ok", 3, 3, 0, "present", 0)} :
                    cp \in {"ok", "denied", "absent"}, age \in {-1, 0, 5, 9}, pr \in {"present", "missing", "denied"}, sp \in {-1, 0, 3, 9}}}

Healthy ==
    [config |-> "ok", control |-> "ok", tls |-> "https", paths |-> "ok", identity |-> "registered", credential |-> TRUE,
     cert |-> "valid", terminal |-> "none", service |-> "running", held |-> TRUE, agentBin |-> TRUE, exec |-> TRUE,
     upgrader |-> "same", missingTools |-> FALSE, sources |-> "ok", dns |-> TRUE, tcp |-> TRUE, certName |-> "covers",
     uplink |-> "granted", target |-> "ok", snapGrant |-> "none", snapLocal |-> TRUE,
     output |-> [kind |-> "file", enabled |-> TRUE], work |-> "active", inputs |-> "ok", spool |-> "ok", upgrade |-> "none",
     beat |-> "fresh"]
\* Facets deviate from the healthy machine, before the diagnosis or during it.
Deviations ==
    [config |-> {"denied", "broken"}, control |-> {"off", "noendpoint", "bad"}, tls |-> {"none"}, paths |-> {"bad"},
     inputs |-> {"bad"}, target |-> {"bad"}, identity |-> {"broken", "unregistered"}, credential |-> {FALSE}, held |-> {FALSE},
     agentBin |-> {FALSE}, exec |-> {FALSE}, dns |-> {FALSE}, tcp |-> {FALSE}, snapLocal |-> {FALSE}, cert |-> {"expired", "none"},
     terminal |-> {"set", "broken"}, service |-> {"stopped", "none", "unsupported"}, certName |-> {"other", "unread", "garbled"},
     uplink |-> {"standby", "undispatched", "rejected", "failed"}, upgrade |-> {"running", "succeeded", "failed", "rejected"},
     beat |-> {"stale"}, work |-> {"none", "paused"}, missingTools |-> {TRUE}, sources |-> {"off"}, spool |-> {"large"},
     snapGrant |-> {"on"}, upgrader |-> {"other"}]

\* Facets that change back: the daemon, the gateway or the upgrader goes on.
MCChanges == [f \in DOMAIN Deviations |-> Deviations[f] \cup {Healthy[f]}]
MCMachines ==
    {Healthy} \cup UNION {{[Healthy EXCEPT ![f] = v] : v \in Deviations[f]} : f \in DOMAIN Deviations}
    \cup {[Healthy EXCEPT !.upgrade = "running", !.beat = "stale"], [Healthy EXCEPT !.service = "none", !.held = FALSE],
          [Healthy EXCEPT !.service = "stopped", !.agentBin = FALSE]}

AskedFor == {[topic |-> "empty"], [topic |-> "nonsense"]} \cup
    {[topic |-> t, absolute |-> FALSE, path |-> "p", top |-> n, depth |-> 0, seconds |-> 999] : t \in Topics, n \in {0, 10, 99}}
=============================================================================
