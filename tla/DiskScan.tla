------------------------------ MODULE DiskScan ------------------------------
(***************************************************************************)
(* The disk investigation (investigate_disk.rs): a bounded walk over a     *)
(* directory tree.  The first level is listed, then the first-level        *)
(* directories take turns in spending the budget of entries; the walk also *)
(* ends when its time is up.  Directories are returned in any order, some  *)
(* cannot be opened, some entries vanish before they are looked at.  The   *)
(* report must say what it did not see.                                    *)
(***************************************************************************)
EXTENDS Investigate, SequencesExt

CONSTANTS
    DiskRoot,     \* the scan root
    Entries,      \* all other files and directories
    ParentOf,     \* entry -> directory
    KindOf,       \* entry -> "dir" | "file" | "link" | "mount"
    SizeOf,       \* file -> bytes allocated
    InodeOf,      \* file -> inode if it has several names, else 0
    Shuts,        \* sets of directories that cannot be opened
    Vanishing,    \* sets of entries that cannot be looked at
    Budgets,      \* options of a walk: entries, slice, depth, tracked
    CheckEvery,   \* TIME_CHECK_EVERY
    TopCount,     \* request.top
    MinSize,      \* request.min_size: smaller files are not listed
    KeepCount,    \* size at which the candidates for the largest files are cut
    Usages,       \* usage of the file system: used, total, isMount, minGap, inodes
    OtherDirs     \* the agent's directories outside the scan root: size and unreadable

VARIABLES
    stage,      \* "open" | "root" | "turn" | "drain" | "done"
    opt,        \* WalkOptions
    shut, gone, \* directories and entries that cannot be read in this run
    unread,     \* open directory -> entries its cursor has not returned yet
    tops,       \* first-level directories, in the order they were found
    cursor,     \* first-level directory -> the directory being read, or NoDir
    stack,      \* first-level directory -> directories still to be opened
    turns,      \* first-level directories waiting for their next slice
    cur,        \* the one that spends its slice
    spent, quantum, consumed,  \* entries of this slice, its size, entries of this cursor's turn
    seen,       \* entries looked at
    late,       \* the time is up
    tracked,    \* directories with a node
    bytes,      \* directory -> bytes accumulated below it
    inodes,     \* inodes already counted
    readFiles,  \* files whose bytes were counted
    bigFiles, floor,  \* candidates for the largest files, least size that counts
    rep,        \* counters of WalkReport
    shutTops,   \* first-level directories that could not be opened
    usage       \* the file system of the scan root

diskVars == <<stage, opt, shut, gone, unread, tops, cursor, stack, turns, cur, spent, quantum, consumed,
              seen, late, tracked, bytes, inodes, readFiles, bigFiles, floor, rep, shutTops, usage>>

NoDir == "none"
Dirs == {e \in Entries : KindOf[e] = "dir"}
FilesOf == {e \in Entries : KindOf[e] = "file"}
Children(d) == {e \in Entries : ParentOf[e] = d}

\* A finite tree, with the sizes of its files: going up from an entry ends at the root.
ASSUME TreeAssumption ==
    /\ IsFiniteSet(Entries) /\ DiskRoot \notin Entries /\ NoDir \notin Entries
    /\ \A e \in Entries : ParentOf[e] \in Entries \cup {DiskRoot}
    /\ \A S \in SUBSET Entries : S # {} => \E e \in S : ParentOf[e] \notin S
    /\ \A e \in FilesOf : SizeOf[e] \in Nat

\* A walk has a budget; more candidates are kept than are listed.
ASSUME BudgetAssumption ==
    /\ \A o \in Budgets : o.entries \in Nat /\ o.tracked \in Nat /\ o.slice \in Nat \ {0}
    /\ TopCount \in Nat \ {0} /\ KeepCount \in Nat /\ TopCount <= KeepCount /\ MinSize \in Nat

\* The chain of directories from d up to the scan root, d included.
AncestorsOf[d \in Entries \cup {DiskRoot}] ==
    IF d = DiskRoot THEN {DiskRoot} ELSE {d} \cup AncestorsOf[ParentOf[d]]

Depth(d) == Cardinality(AncestorsOf[d]) - 1
Below(d) == {e \in Entries : d \in AncestorsOf[e]}
Sum(S) == MapThenSumSet(LAMBDA e : SizeOf[e], S)

OutOfEntries == seen >= opt.entries
Stops == OutOfEntries \/ (consumed % CheckEvery = 0 /\ late)

-----------------------------------------------------------------------------
(* One entry.                                                              *)

NoteUnreadable == rep' = [rep EXCEPT !.unreadable = @ + 1]

UncountedFile == UNCHANGED <<bytes, inodes, readFiles, bigFiles, floor>>

\* Links are not followed, other file systems are not entered.
AbsorbSkipped(e) ==
    /\ e \notin gone /\ KindOf[e] \in {"link", "mount"}
    /\ rep' = rep /\ tracked' = tracked /\ UncountedFile

AbsorbFailed(e) ==
    /\ e \in gone
    /\ NoteUnreadable /\ tracked' = tracked /\ UncountedFile

\* A directory gets a node while there is room, and is expanded while the depth allows it.
AbsorbDir(e, d) ==
    /\ e \notin gone /\ KindOf[e] = "dir"
    /\ IF Cardinality(tracked) >= opt.tracked
       THEN tracked' = tracked /\ rep' = [rep EXCEPT !.untracked = @ + 1]
       ELSE /\ tracked' = tracked \cup {e}
            /\ rep' = IF Depth(d) < opt.depth THEN rep ELSE [rep EXCEPT !.depthLimited = @ + 1]
    /\ UncountedFile

\* The second name of a file adds no bytes.
AbsorbLinked(e) ==
    /\ e \notin gone /\ KindOf[e] = "file" /\ InodeOf[e] \in inodes
    /\ rep' = [rep EXCEPT !.deduped = @ + SizeOf[e]]
    /\ tracked' = tracked /\ UncountedFile

\* sort_files and truncate: the n largest; of files of one size the path decides, in an
\* order that does not matter here.
Largest(files, n) ==
    CHOOSE T \in SUBSET files :
        /\ Cardinality(T) = IF Cardinality(files) < n THEN Cardinality(files) ELSE n
        /\ \A f \in files \ T, g \in T : SizeOf[f] <= SizeOf[g]

\* Files of the least size are candidates, cut to the largest TopCount whenever
\* they get too many.
Candidates(e) ==
    LET more == bigFiles \cup {e}
        cut == Largest(more, TopCount)
    IN  IF SizeOf[e] < MinSize \/ ~(Cardinality(bigFiles) < KeepCount \/ SizeOf[e] > floor)
        THEN [files |-> bigFiles, floor |-> floor]
        ELSE IF Cardinality(more) > KeepCount THEN [files |-> cut, floor |-> Min({SizeOf[f] : f \in cut})]
        ELSE [files |-> more, floor |-> floor]

AbsorbFile(e, d) ==
    /\ e \notin gone /\ KindOf[e] = "file" /\ InodeOf[e] \notin inodes
    /\ inodes' = IF InodeOf[e] = 0 THEN inodes ELSE inodes \cup {InodeOf[e]}
    /\ readFiles' = readFiles \cup {e}
    /\ rep' = [rep EXCEPT !.total = @ + SizeOf[e]]
    /\ bytes' = [x \in DOMAIN bytes |-> bytes[x] + IF x \in AncestorsOf[d] THEN SizeOf[e] ELSE 0]
    /\ bigFiles' = Candidates(e).files /\ floor' = Candidates(e).floor
    /\ tracked' = tracked

Absorb(e, d) ==
    /\ \/ AbsorbSkipped(e) \/ AbsorbFailed(e) \/ AbsorbDir(e, d) \/ AbsorbLinked(e) \/ AbsorbFile(e, d)
    /\ unread' = [unread EXCEPT ![d] = @ \ {e}]
    /\ seen' = seen + 1
    /\ consumed' = consumed + 1

\* Directories that AbsorbDir(e, d) leaves to be opened.
Pushed(e, d) ==
    IF e \notin gone /\ KindOf[e] = "dir" /\ Cardinality(tracked) < opt.tracked /\ Depth(d) < opt.depth
    THEN <<e>> ELSE <<>>

-----------------------------------------------------------------------------
(* The walk.                                                               *)

Truncate == rep' = [rep EXCEPT !.truncated = TRUE] /\ stage' = "done"

OpenRoot ==
    /\ stage = "open"
    /\ IF DiskRoot \in shut THEN NoteUnreadable /\ stage' = "done" /\ unread' = unread
       ELSE stage' = "root" /\ unread' = [unread EXCEPT ![DiskRoot] = Children(DiskRoot)] /\ rep' = rep
    /\ UNCHANGED <<opt, shut, gone, tops, cursor, stack, turns, cur, spent, quantum, consumed, seen, late,
                   tracked, bytes, inodes, readFiles, bigFiles, floor, shutTops, usage>>

\* The first level is listed in one go, before any directory spends a slice.
ListRoot ==
    /\ stage = "root" /\ ~Stops
    /\ \E e \in unread[DiskRoot] :
          /\ Absorb(e, DiskRoot)
          /\ tops' = tops \o Pushed(e, DiskRoot)
          /\ stack' = [d \in DOMAIN stack \cup ToSet(Pushed(e, DiskRoot)) |->
                          IF d \in DOMAIN stack THEN stack[d] ELSE <<d>>]
          /\ cursor' = [d \in DOMAIN cursor \cup ToSet(Pushed(e, DiskRoot)) |->
                          IF d \in DOMAIN cursor THEN cursor[d] ELSE NoDir]
    /\ UNCHANGED <<stage, opt, shut, gone, turns, cur, spent, quantum, late, shutTops, usage>>

RootListed ==
    /\ stage = "root"
    /\ \/ Stops /\ Truncate /\ turns' = turns
       \/ ~Stops /\ unread[DiskRoot] = {} /\ stage' = "turn" /\ turns' = tops /\ rep' = rep
    /\ UNCHANGED <<opt, shut, gone, unread, tops, cursor, stack, cur, spent, quantum, consumed, seen, late,
                   tracked, bytes, inodes, readFiles, bigFiles, floor, shutTops, usage>>

\* Mutant: a share may be nothing when there are more directories than budget.
SliceZero == ClampTo((opt.entries - seen) \div Len(turns), 0, opt.slice)

\* The rest of the budget is shared evenly, within the limit of a slice.
Slice == ClampTo((opt.entries - seen) \div Len(turns), 1, opt.slice)

NextTurn ==
    /\ stage = "turn"
    /\ \/ /\ turns = <<>> /\ stage' = "done" /\ rep' = rep
          /\ UNCHANGED <<turns, cur, spent, quantum>>
       \/ /\ turns # <<>> /\ (OutOfEntries \/ late) /\ Truncate
          /\ UNCHANGED <<turns, cur, spent, quantum>>
       \/ /\ turns # <<>> /\ ~OutOfEntries /\ ~late
          /\ cur' = Head(turns) /\ turns' = Tail(turns)
          /\ quantum' = Slice /\ spent' = 0
          /\ stage' = "drain" /\ rep' = rep
    /\ consumed' = 0
    /\ UNCHANGED <<opt, shut, gone, unread, tops, cursor, stack, seen, late, tracked, bytes, inodes,
                   readFiles, bigFiles, floor, shutTops, usage>>

Reading == stage = "drain" /\ cursor[cur] # NoDir

ReadEntry ==
    /\ Reading /\ spent < quantum /\ ~Stops
    /\ \E e \in unread[cursor[cur]] :
          /\ Absorb(e, cursor[cur])
          /\ stack' = [stack EXCEPT ![cur] = @ \o Pushed(e, cursor[cur])]
    /\ spent' = spent + 1
    /\ UNCHANGED <<stage, opt, shut, gone, tops, cursor, turns, cur, quantum, late, shutTops, usage>>

\* Mutant: a directory whose slice is used up is not put back.
PauseForgets ==
    /\ Reading
    /\ \/ /\ spent >= quantum
          /\ stage' = "turn" /\ UNCHANGED <<turns, cursor, rep>>
       \/ /\ spent < quantum /\ Stops
          /\ Truncate /\ UNCHANGED <<turns, cursor>>
       \/ /\ spent < quantum /\ ~Stops /\ unread[cursor[cur]] = {}
          /\ cursor' = [cursor EXCEPT ![cur] = NoDir]
          /\ UNCHANGED <<stage, turns, rep>>
    /\ UNCHANGED <<opt, shut, gone, unread, tops, stack, cur, spent, quantum, consumed, seen, late,
                   tracked, bytes, inodes, readFiles, bigFiles, floor, shutTops, usage>>

\* The slice is used up, the budget ends, or the directory does.
StopReading ==
    /\ Reading
    /\ \/ /\ spent >= quantum
          /\ stage' = "turn" /\ turns' = Append(turns, cur) /\ UNCHANGED <<cursor, rep>>
       \/ /\ spent < quantum /\ Stops
          /\ Truncate /\ UNCHANGED <<turns, cursor>>
       \/ /\ spent < quantum /\ ~Stops /\ unread[cursor[cur]] = {}
          /\ cursor' = [cursor EXCEPT ![cur] = NoDir]
          /\ UNCHANGED <<stage, turns, rep>>
    /\ UNCHANGED <<opt, shut, gone, unread, tops, stack, cur, spent, quantum, consumed, seen, late,
                   tracked, bytes, inodes, readFiles, bigFiles, floor, shutTops, usage>>

\* The next directory of the subtree is opened, unless the budget has ended.
OpenNext ==
    /\ stage = "drain" /\ cursor[cur] = NoDir
    /\ \/ /\ stack[cur] = <<>>
          /\ stage' = "turn" /\ UNCHANGED <<cursor, stack, unread, rep, shutTops>>
       \/ /\ stack[cur] # <<>> /\ (OutOfEntries \/ late)
          /\ Truncate /\ UNCHANGED <<cursor, stack, unread, shutTops>>
       \/ /\ stack[cur] # <<>> /\ ~OutOfEntries /\ ~late
          /\ LET d == Last(stack[cur])
             IN  /\ stack' = [stack EXCEPT ![cur] = Front(@)]
                 /\ IF d \in shut
                    THEN /\ NoteUnreadable
                         /\ shutTops' = IF d = cur THEN shutTops \cup {d} ELSE shutTops
                         /\ UNCHANGED <<cursor, unread>>
                    ELSE /\ cursor' = [cursor EXCEPT ![cur] = d]
                         /\ unread' = [unread EXCEPT ![d] = Children(d)]
                         /\ UNCHANGED <<rep, shutTops>>
          /\ stage' = stage
    /\ consumed' = 0
    /\ UNCHANGED <<opt, shut, gone, tops, turns, cur, spent, quantum, seen, late, tracked, bytes, inodes,
                   readFiles, bigFiles, floor, usage>>

TimeIsUp ==
    /\ stage # "done" /\ ~late
    /\ late' = TRUE
    /\ UNCHANGED <<stage, opt, shut, gone, unread, tops, cursor, stack, turns, cur, spent, quantum, consumed,
                   seen, tracked, bytes, inodes, readFiles, bigFiles, floor, rep, shutTops, usage>>

DiskInit ==
    /\ stage = "open" /\ opt \in Budgets /\ shut \in Shuts /\ gone \in Vanishing
    /\ unread = [d \in Dirs \cup {DiskRoot} |-> {}]
    /\ tops = <<>> /\ cursor = <<>> /\ stack = <<>> /\ turns = <<>> /\ cur = NoDir
    /\ spent = 0 /\ quantum = 0 /\ consumed = 0 /\ seen = 0 /\ late = FALSE
    /\ tracked = {DiskRoot} /\ bytes = [d \in Dirs \cup {DiskRoot} |-> 0] /\ inodes = {}
    /\ readFiles = {} /\ bigFiles = {} /\ floor = 0 /\ shutTops = {} /\ usage \in Usages
    /\ rep = [unreadable |-> 0, truncated |-> FALSE, total |-> 0, depthLimited |-> 0, untracked |-> 0, deduped |-> 0]

DiskSteps == OpenRoot \/ ListRoot \/ RootListed \/ NextTurn \/ ReadEntry \/ StopReading \/ OpenNext

DiskNext == DiskSteps \/ TimeIsUp

-----------------------------------------------------------------------------
(* The report.                                                             *)

Finished(t) == cursor[t] = NoDir /\ stack[t] = <<>>
IncompleteTops == {t \in ToSet(tops) : ~Finished(t)}

TopFiles == Largest(bigFiles, TopCount)

\* The chain of directories that each hold 60 % of the one above.
HotPath[d \in Dirs \cup {DiskRoot}] ==
    LET subs == {x \in tracked \ {DiskRoot} : ParentOf[x] = d}
        best == CHOOSE x \in subs : \A y \in subs : bytes[x] >= bytes[y]
    IN  IF subs # {} /\ bytes[best] > 0 /\ bytes[best] * 100 >= bytes[d] * 60
        THEN <<d>> \o HotPath[best] ELSE <<d>>

\* A directory within 5 % of a listed one below it says nothing new.
Redundant(d, kept) == \E k \in kept : d \in AncestorsOf[k] /\ bytes[k] * 100 >= bytes[d] * 95

PruneAncestors[rest \in SUBSET Dirs, kept \in SUBSET Dirs] ==
    IF rest = {} \/ Cardinality(kept) >= TopCount THEN kept
    ELSE LET first(x, y) == bytes[x] > bytes[y] \/ (bytes[x] = bytes[y] /\ Depth(x) >= Depth(y))
             d == CHOOSE x \in rest : \A y \in rest : first(x, y)
         IN  PruneAncestors[rest \ {d}, IF Redundant(d, kept) THEN kept ELSE kept \cup {d}]

LargestDirs == PruneAncestors[{d \in tracked \ {DiskRoot} : bytes[d] > 0}, {}]

ClassifyDisk(used, total) ==
    CASE used * 100 >= total * 95 -> "fail"
      [] used * 100 < total * 95 /\ used * 100 >= total * 85 -> "warn"
      [] OTHER -> "ok"

FilesystemFinding ==
    Finding("filesystems", Worse(ClassifyDisk(usage.used, usage.total), ClassifyDisk(usage.inodes, usage.inodeTotal)), 1)

LargestDirsFinding == Finding("largest_dirs", "ok", Cardinality(LargestDirs))

\* A directory that could not be opened has a row of its own.
TopDirsFinding ==
    LET listed == {t \in ToSet(tops) : bytes[t] > 0}
    IN  Finding("top_dirs", "ok", IF listed = {} THEN 0 ELSE Cardinality(listed \cup shutTops))

TopFilesFinding == Finding("top_files", "ok", Cardinality(TopFiles))

Gap == IF usage.used > rep.total THEN usage.used - rep.total ELSE 0

\* A large gap is only meaningful for a whole file system that was walked to the end.
UnattributedFinding ==
    Finding("unattributed",
            IF usage.isMount /\ Gap >= usage.minGap /\ Gap * 100 >= usage.total * 5 /\ ~rep.truncated
            THEN "warn" ELSE "ok", 0)

AgentLimits == [warn |-> 10, fail |-> 100]

\* Sizes that are not complete lead to no judgement but a warning.
AgentDirsFinding ==
    LET dirs == {[size |-> rep.total, unreadable |-> rep.unreadable]} \cup OtherDirs
        judge(d) == CASE d.size >= AgentLimits.fail -> "fail"
                      [] d.size < AgentLimits.fail /\ d.size >= AgentLimits.warn -> "warn"
                      [] OTHER -> "ok"
        measured == {d \in dirs : d.unreadable = 0}
        partial == IF dirs # measured THEN {"warn"} ELSE {}
    IN  Finding("agent_dirs", WorstOf({judge(d) : d \in measured} \cup partial), Cardinality(dirs))

ScanFinding == Finding("scan", IF rep.truncated \/ rep.unreadable > 0 THEN "warn" ELSE "ok", 0)

DiskFindings ==
    <<FilesystemFinding, LargestDirsFinding, TopDirsFinding, TopFilesFinding, AgentDirsFinding,
      UnattributedFinding, ScanFinding>>

-----------------------------------------------------------------------------
(* Properties.                                                             *)

\* Files of the scan root's own file system, whether the walk reached them or not.
Reachable(d) == {f \in FilesOf \cap Below(d) : \A a \in AncestorsOf[ParentOf[f]] \ {DiskRoot} : KindOf[a] = "dir"}

SkippedNothing == rep.unreadable = 0 /\ rep.depthLimited = 0 /\ rep.untracked = 0

Counted(f) == f \in readFiles \/ InodeOf[f] \in inodes \ {0}

\* A first-level directory the report does not name as unfinished or unreadable
\* was read to its last file, and a report that names nothing has the true
\* total, every inode once, whichever slices the budget was cut into
\* (drain_round_robin, finish).
WalkHonest ==
    stage = "done" /\ SkippedNothing =>
        /\ \A t \in ToSet(tops) \ IncompleteTops : \A f \in Reachable(t) : Counted(f)
        /\ ~rep.truncated => \A f \in Reachable(DiskRoot) : Counted(f)

\* The bytes of a directory are those of the files counted below it, a file with
\* several names once (absorb).
BytesAddUp ==
    /\ \A d \in Dirs \cup {DiskRoot} : bytes[d] = Sum(readFiles \cap Below(d))
    /\ rep.total = bytes[DiskRoot]
    /\ \A f, g \in readFiles : f # g => InodeOf[f] = 0 \/ InodeOf[f] # InodeOf[g]

\* While the budget allows it every first-level directory gets a slice: none is
\* reported without one of its entries read because another one used it all up.
EveryTopVisited ==
    stage = "done" /\ ~late /\ unread[DiskRoot] = {} /\ opt.entries >= Cardinality(Children(DiskRoot)) + Len(tops) =>
        \A t \in ToSet(tops) \ shutTops : Children(t) # {} => Children(t) \ unread[t] # {} /\ stack[t] # <<t>>

\* Files that were counted and are large enough to be listed.
Eligible == {f \in readFiles : SizeOf[f] >= MinSize}

\* The files listed as the largest are the largest of all that were counted and
\* are not below the size asked for.
TopFilesLargest ==
    stage = "done" =>
        /\ Cardinality(TopFiles) = IF Cardinality(Eligible) < TopCount THEN Cardinality(Eligible) ELSE TopCount
        /\ \A f \in Eligible \ TopFiles : \A g \in TopFiles : SizeOf[f] <= SizeOf[g]
=============================================================================
