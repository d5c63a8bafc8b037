------------------------------ MODULE LogInput ------------------------------
(***************************************************************************)
(* One log input of wist-agentd: the processor that reads a file, or a     *)
(* family of files, from the checkpoint on, folds lines into records,      *)
(* numbers them, sends or spools them and commits the checkpoint, beside   *)
(* applications that write, rotate and truncate the files, a data plane    *)
(* that may be away, and crashes of the daemon between any two writes.     *)
(*                                                                         *)
(* A line is a number, 0 the banner with which an application may begin    *)
(* every file; an offset counts lines, a fingerprint is the first line, a  *)
(* probe the line before the offset.  A file is an inode.                  *)
(***************************************************************************)
EXTENDS Naturals, Sequences, FiniteSets, Places

CONSTANTS
  Inode,        \* inodes of the log directory; a freed one is reused
  Chains,       \* rotation chains: <<p, p1, p2>>, p is written to, p1 is its last rotation
  Order,        \* the paths in the order a BTreeMap keeps them
  Kinds,        \* processors to explore: "single" (FileInputProcessor), "family"
  Glob,         \* paths the pattern of a family matches
  Startup,      \* startup_position: "head" or "tail"
  Banner,       \* TRUE: every fresh file begins with the banner line
  Multiline,    \* TRUE: multiline_mode = indented
  Cont,         \* lines that continue the record of the line before
  Noise,        \* lines that drop_if_contains matches
  MaxRecord,    \* FOLD_LIMITS: lines of a record
  MaxLines,     \* read_limits.max_lines of one batch
  Room,         \* records that fit in_memory_budget_bytes
  MaxTracked,   \* max_files
  Quiet,        \* steps of the processor during which no file is cut
  Still,        \* steps of the processor during which no file is renamed
  MaxWritten,   \* bound: lines written
  MaxTurns,     \* bound: rotations and truncations
  MaxOutages,   \* bound: sends that fail
  MaxOther,     \* bound: frames of other origin (metrics, facts) between batches
  MaxCrashes    \* bound: crashes of the daemon

Paths == {Order[k] : k \in DOMAIN Order}
Sources == {c[1] : c \in Chains}
Source == CHOOSE p \in Sources : \A q \in Sources : q = p \/ Len(CHOOSE c \in Chains : c[1] = q) = 1
Gone == "gone"
NoFile == 0
Line == 0..MaxWritten


ASSUME LogAssumption ==
  /\ Inode \subseteq Nat \ {NoFile} /\ IsFiniteSet(Inode)
  /\ Order \in Seq(Paths) /\ Source \in Paths
  /\ \A c \in Chains : c \in Seq(Paths) /\ Len(c) > 0
  /\ Gone \notin Paths /\ "none" \notin Paths
  /\ Kinds \subseteq {"single", "family"} /\ Glob \subseteq Paths /\ Startup \in {"head", "tail"}
  /\ Banner \in BOOLEAN /\ Multiline \in BOOLEAN
  /\ Cont \subseteq Nat \ {0} /\ Noise \subseteq Nat \ {0}
  /\ MaxRecord \in Nat \ {0} /\ MaxLines \in Nat \ {0} /\ Room \in Nat /\ MaxTracked \in Nat \ {0}
  /\ MaxWritten \in Nat /\ MaxTurns \in Nat /\ MaxOutages \in Nat /\ MaxOther \in Nat /\ MaxCrashes \in Nat

VARIABLES
  \* the file system
  name,      \* name[i]: the path of inode i, or Gone
  text,      \* text[i]: its lines
  \* the daemon's files
  cp,        \* checkpoint file: tracked entries, pending block, scanned before
  seqDisk,   \* seq.json
  spool,     \* spool of the input
  \* the data plane
  arrived,   \* frames it received
  \* the daemon
  kind,      \* the processor of this input
  pc, next,  \* where it is; next_seq of the tick
  b,         \* the batch in hand
  \* bookkeeping
  written, turns, outages, others, crashes,
  waived     \* lines left out on purpose: noise, oversized, headless, skipped by "tail"

fs == <<name, text, written, turns>>
disk == <<cp, seqDisk, spool>>
plane == <<arrived, outages, others>>
vars == <<name, text, cp, seqDisk, spool, arrived, kind, pc, next, b,
          written, turns, outages, others, crashes, waived>>

-----------------------------------------------------------------------------
(* The file system. *)

FileAt(p) == IF \E i \in Inode : name[i] = p THEN CHOOSE i \in Inode : name[i] = p ELSE NoFile
Upto(s, n) == SubSeq(s, 1, IF n < Len(s) THEN n ELSE Len(s))

Fingerprint(i) == Upto(text[i], 1)
Identity(i) == [ino |-> i, fp |-> Fingerprint(i), size |-> Len(text[i])]

\* checkpoint_probe: the content just before the offset, <<>> when it cannot be read
Probe(p, off) ==
  IF off = 0 \/ FileAt(p) = NoFile \/ off > Len(text[FileAt(p)]) THEN <<>>
  ELSE <<text[FileAt(p)][off]>>

Fresh == IF Banner THEN <<0>> ELSE <<>>

\* an application appends to the file it writes
Append1(p) ==
  /\ FileAt(p) # NoFile /\ written < MaxWritten
  /\ written' = written + 1
  /\ text' = [text EXCEPT ![FileAt(p)] = Append(@, written + 1)]
  /\ UNCHANGED <<name, turns, disk, plane, kind, pc, next, b, crashes, waived>>

\* a file cut since it was read and renamed before the next read: the drain goes by inode
\* alone and starts at the old offset
CutUnseen(i) ==
  LET old == {[off |-> e.off, fp |-> e.fp] : e \in {cp.files[k] : k \in {k \in DOMAIN cp.files : cp.files[k].ino = i}}}
             \cup {[off |-> u.off, fp |-> u.id.fp] : u \in {b.ups[k] : k \in {k \in DOMAIN b.ups : b.ups[k].id.ino = i}}}
      stale == {o \in old : o.off > Len(text[i]) \/ o.fp # Fingerprint(i)}
  IN {text[i][j] : j \in {j \in 1..Len(text[i]) : \E o \in stale : j <= o.off}}

\* rotation by renaming along the chain; the last of the chain is removed
Rotate(c) ==
  /\ FileAt(c[1]) # NoFile /\ turns < MaxTurns /\ pc \notin Still
  /\ turns' = turns + 1
  /\ name' = [i \in Inode |->
                IF \E k \in DOMAIN c : name[i] = c[k]
                THEN LET k == CHOOSE k \in DOMAIN c : name[i] = c[k]
                     IN IF k < Len(c) THEN c[k + 1] ELSE Gone
                ELSE name[i]]
  /\ waived' = waived \cup CutUnseen(FileAt(c[1]))
  /\ UNCHANGED <<text, written, disk, plane, kind, pc, next, b, crashes>>

\* the application opens its file anew (not between the rename and the read that was to find
\* the old file)
Create(c, i) ==
  /\ FileAt(c[1]) = NoFile /\ name[i] = Gone /\ pc \notin Quiet \ Still
  /\ \A j \in Inode : name[j] = Gone => i <= j
  /\ name' = [name EXCEPT ![i] = c[1]] /\ text' = [text EXCEPT ![i] = Fresh]
  /\ UNCHANGED <<written, turns, disk, plane, kind, pc, next, b, crashes, waived>>

\* copytruncate: what was not read is gone with the content
Truncate(p) ==
  /\ FileAt(p) # NoFile /\ turns < MaxTurns /\ pc \notin Quiet
  /\ turns' = turns + 1
  /\ text' = [text EXCEPT ![FileAt(p)] = Fresh]
  /\ UNCHANGED <<name, written, disk, plane, kind, pc, next, b, crashes, waived>>

-----------------------------------------------------------------------------
(* Checkpoints: a sequence of entries, in the order they were added. *)

NoPending == [src |-> "none", lines |-> <<>>]
Entry == [path : Paths, real : Paths, ino : Inode, fp : Seq(Line), off : Nat,
          probe : Seq(Line), size : Nat, pend : [src : Paths \cup {"none"}, lines : Seq(Line)]]

\* the first of these places of a sequence, 0 when there is none
First(places) == IF places = {} THEN 0 ELSE CHOOSE k \in places : \A j \in places : k <= j

\* checkpoint_for_path: the index of the first entry with this path, 0 when there is none
Tracked(files, p) == First({k \in DOMAIN files : files[k].path = p})

\* relocate_checkpoint_path
Relocated(files, prev, p) ==
  LET k == First({j \in DOMAIN files : files[j].ino = prev.ino \/ files[j].path = prev.path})
  IN IF k = 0 THEN files ELSE [files EXCEPT ![k].path = p]

\* find_rotated_path: another name of the directory with the inode of the entry
RotatedPath(base, prev) ==
  IF \E i \in Inode : i = prev.ino /\ name[i] \notin {Gone, base} THEN name[prev.ino] ELSE Gone

\* keep_only_newest_at_path: entry at place k, and no other entry with its path
KeptAtPath(files, k, entry) ==
  LET kept[j \in 0..Len(files)] ==
        IF j = 0 THEN <<>>
        ELSE IF j = k THEN Append(kept[j - 1], entry)
        ELSE IF files[j].path = entry.path THEN kept[j - 1]
        ELSE Append(kept[j - 1], files[j])
  IN kept[Len(files)]

\* upsert_checkpoint: in place for the same inode (or path and fingerprint), else added;
\* another entry with the same path gives way
Upsert(files, u) ==
  LET k == First({j \in DOMAIN files : \/ files[j].ino = u.id.ino
                                       \/ files[j].path = u.path /\ files[j].fp = u.id.fp})
      entry == [path |-> IF k = 0 THEN u.path ELSE files[k].path, real |-> u.path,
                ino |-> u.id.ino, fp |-> u.id.fp, off |-> u.off,
                probe |-> Probe(u.path, u.off), size |-> u.id.size, pend |-> u.pend]
  IN IF k = 0 THEN Append(KeptAtPath(files, 0, entry), entry) ELSE KeptAtPath(files, k, entry)

FingerprintsMatch(prev, cur) == prev.fp = cur.fp \/ (prev.size = 0 /\ cur.size > 0)

\* mutant of ProbeMatches: the inode and the first line are taken for the file
ProbeIgnored(base, prev) == TRUE

ProbeMatches(base, prev) == prev.off = 0 \/ prev.probe = <<>> \/ Probe(base, prev.off) = prev.probe

\* decide_resume
Resume(base, cur, files, k, startup) ==
  IF k = 0 THEN [start |-> IF startup = "head" THEN 0 ELSE cur.size, turn |-> "none"]
  ELSE LET prev == files[k] IN
    IF prev.ino = cur.ino /\ FingerprintsMatch(prev, cur)
    THEN IF prev.off > cur.size \/ ~ProbeMatches(base, prev)
         THEN [start |-> 0, turn |-> "truncated"]
         ELSE [start |-> prev.off, turn |-> "none"]
    ELSE [start |-> 0, turn |-> "rotated"]

\* mutant of ReadLines: the offset of the last line read instead of the one after it
ReadLinesShort(i, start, budget) ==
  LET from == IF start > Len(text[i]) THEN Len(text[i]) ELSE start
      end == IF from + budget > Len(text[i]) THEN Len(text[i]) ELSE from + budget
  IN [lines |-> SubSeq(text[i], from + 1, end), end |-> IF end > from THEN end - 1 ELSE end, id |-> Identity(i)]

\* read_from_offset: whole lines from the offset, at most the budget
ReadLines(i, start, budget) ==
  LET from == IF start > Len(text[i]) THEN Len(text[i]) ELSE start
      end == IF from + budget > Len(text[i]) THEN Len(text[i]) ELSE from + budget
  IN [lines |-> SubSeq(text[i], from + 1, end), end |-> end, id |-> Identity(i)]

-----------------------------------------------------------------------------
(* Lines to numbered records. *)

LinesOf(rs) == UNION {{r[j] : j \in DOMAIN r} : r \in {rs[k] : k \in DOMAIN rs}}

\* one line of records_from_read: a line without a head is not sent, a record over the limit
\* is withheld
FoldLine(s, l) ==
  IF ~Multiline
  THEN [s EXCEPT !.out = Append(s.out, <<l>>)]
  ELSE IF l \notin Cont
  THEN [s EXCEPT !.open = <<l>>,
                 !.out = IF s.open = <<>> THEN s.out ELSE Append(s.out, s.open)]
  ELSE IF s.open = <<>> THEN [s EXCEPT !.left = @ \cup {l}]
  ELSE IF Len(s.open) = MaxRecord
  THEN [s EXCEPT !.open = <<>>, !.left = @ \cup {l} \cup LinesOf(<<s.open>>)]
  ELSE [s EXCEPT !.open = Append(@, l)]

\* records_from_read: the lines one after the other, from the block that is open
Folded(lines, open) ==
  LET step[k \in 0..Len(lines)] ==
        IF k = 0 THEN [open |-> open, out |-> <<>>, left |-> {}]
        ELSE FoldLine(step[k - 1], lines[k])
  IN step[Len(lines)]

\* admit_with_noise_filter, UplinkGate::admit, parse_delimited_records: noise takes no number
IsNoise(body) == \E j \in DOMAIN body : body[j] \in Noise
Admitted(bodies) == {k \in DOMAIN bodies : ~IsNoise(bodies[k])}

\* mutant of Numbered: numbers start one too low
NumberedLow(bodies, n) ==
  LET kept == At(bodies, Admitted(bodies))
  IN [k \in DOMAIN kept |-> [no |-> n + k - 2, body |-> kept[k], life |-> crashes]]

Numbered(bodies, n) ==
  LET kept == At(bodies, Admitted(bodies))
  IN [k \in DOMAIN kept |-> [no |-> n + k - 1, body |-> kept[k], life |-> crashes]]
NoiseOf(bodies) == UNION {LinesOf(<<body>>) : body \in {r \in {bodies[k] : k \in DOMAIN bodies} : IsNoise(r)}}

\* records_from_pending
Sealed(pend) == IF pend.lines = <<>> THEN <<>> ELSE <<pend.lines>>

\* the batch with the records of these bodies
With(batch, bodies) ==
  [batch EXCEPT !.recs = @ \o Numbered(bodies, next + Len(@)), !.drop = @ \cup NoiseOf(bodies)]

-----------------------------------------------------------------------------
(* The processor. *)

NoEntry == [path |-> "none"]
NoBatch == [todo |-> <<>>, files |-> <<>>, pend |-> NoPending, prev |-> NoEntry,
            cur |-> [ino |-> NoFile, fp |-> <<>>, size |-> 0], start |-> 0, turn |-> "none",
            matched |-> {}, scan |-> FALSE, first |-> FALSE, budget |-> 0, read |-> FALSE,
            recs |-> <<>>, ups |-> <<>>, drop |-> {}, err |-> FALSE]

Init ==
  /\ \E f \in [Sources -> Inode] :
       /\ \A p, q \in Sources : p # q => f[p] # f[q]
       /\ \A p \in Sources : \A i \in Inode : (\A q \in Sources : f[q] # i) => f[p] < i
       /\ \A k, l \in DOMAIN Order : k < l /\ {Order[k], Order[l]} \subseteq Sources => f[Order[k]] < f[Order[l]]
       /\ name = [i \in Inode |-> IF \E p \in Sources : f[p] = i
                                  THEN CHOOSE p \in Sources : f[p] = i ELSE Gone]
  /\ text = [i \in Inode |-> IF name[i] = Gone THEN <<>> ELSE Fresh]
  /\ cp = [files |-> <<>>, pend |-> NoPending, scanned |-> FALSE]
  /\ seqDisk = 0 /\ spool = <<>> /\ arrived = {}
  /\ kind \in Kinds
  /\ pc = "idle" /\ next = 0 /\ b = NoBatch
  /\ written = 0 /\ turns = 0 /\ outages = 0 /\ others = 0 /\ crashes = 0
  /\ waived = {}

\* run_once reads seq.json at the start of every tick
BeginTick ==
  /\ pc = "idle"
  /\ pc' = "tick" /\ next' = seqDisk
  /\ UNCHANGED <<fs, disk, plane, kind, b, crashes, waived>>

\* a frame of other origin (a discovery snapshot, facts, metrics): its number is
\* stored before it is sent
OtherFrame ==
  /\ pc = "tick" /\ others < MaxOther
  /\ others' = others + 1
  /\ arrived' = arrived \cup {[no |-> next, body |-> <<MaxWritten + others + 1>>, life |-> crashes]}
  /\ seqDisk' = next + 1 /\ next' = next + 1
  /\ UNCHANGED <<fs, cp, spool, kind, pc, b, outages, crashes, waived>>

\* deliver_investigation, send_investigation_frame: a scan that has ended is sent
\* between two ticks, under a number read from seq.json and stored before it is used
InvestigationFrame ==
  /\ pc = "idle" /\ others < MaxOther
  /\ others' = others + 1
  /\ arrived' = arrived \cup {[no |-> seqDisk, body |-> <<MaxWritten + others + 1>>, life |-> crashes]}
  /\ seqDisk' = seqDisk + 1
  /\ UNCHANGED <<fs, cp, spool, kind, pc, next, b, outages, crashes, waived>>

Frames(rs) == {rs[k] : k \in DOMAIN rs}

\* mutant of ReplaySpool: the last batch is not flushed before the spool is removed
ReplayAllButLast ==
  /\ pc = "tick" /\ spool # <<>>
  /\ arrived' = arrived \cup Frames(SubSeq(spool, 1, Len(spool) - 1)) /\ spool' = <<>>
  /\ pc' = "load"
  /\ UNCHANGED <<fs, cp, seqDisk, kind, next, b, outages, others, crashes, waived>>

\* replay_spool_if_present: all of it, then the spool is removed
ReplaySpool ==
  /\ pc = "tick" /\ spool # <<>>
  /\ arrived' = arrived \cup Frames(spool) /\ spool' = <<>>
  /\ pc' = "load"
  /\ UNCHANGED <<fs, cp, seqDisk, kind, next, b, outages, others, crashes, waived>>

\* the sink fails after some of the spool: the source is not read (paused, or an error)
ReplayFails ==
  /\ pc = "tick" /\ spool # <<>> /\ outages < MaxOutages
  /\ outages' = outages + 1
  /\ \E k \in 0..Len(spool) : arrived' = arrived \cup Frames(SubSeq(spool, 1, k))
  /\ pc' = "idle" /\ next' = 0
  /\ UNCHANGED <<fs, disk, kind, b, others, crashes, waived>>

NothingSpooled ==
  /\ pc = "tick" /\ spool = <<>>
  /\ pc' = "load"
  /\ UNCHANGED <<fs, disk, plane, kind, next, b, crashes, waived>>

Idle == pc' = "idle" /\ next' = 0 /\ b' = NoBatch

\* process_telemetry_input: a single path that does not exist is not read
SourceMissing ==
  /\ pc = "load" /\ kind = "single" /\ FileAt(Source) = NoFile
  /\ Idle
  /\ UNCHANGED <<fs, disk, plane, kind, crashes, waived>>

LoadSingle ==
  /\ pc = "load" /\ kind = "single" /\ FileAt(Source) # NoFile
  /\ b' = [NoBatch EXCEPT !.todo = <<Source>>, !.files = cp.files, !.pend = cp.pend, !.budget = MaxLines]
  /\ pc' = "inspect"
  /\ UNCHANGED <<fs, disk, plane, kind, next, crashes, waived>>

\* resolve_family_paths and the working set: what is tracked, then what is new, up to max_files
TrackedPaths(files) == {files[k].path : k \in DOMAIN files}
Working(files, matched) ==
  LET old == TrackedPaths(files)
      real == {files[k].real : k \in DOMAIN files}
      new == At(Order, {k \in DOMAIN Order : Order[k] \in matched \ (old \cup real)})
      left == IF Cardinality(old) >= MaxTracked THEN 0 ELSE MaxTracked - Cardinality(old)
      taken == Upto(new, left)
  IN At(Order, {k \in DOMAIN Order : Order[k] \in old \/ \E j \in DOMAIN taken : taken[j] = Order[k]})

\* load_runtime_state and the scan, which is due or not (rescan_interval_ms)
ScanFamily(scan) ==
  /\ pc = "load" /\ kind = "family" /\ (~cp.scanned => scan)
  /\ LET matched == IF scan THEN {p \in Glob : FileAt(p) # NoFile} ELSE {}
     IN b' = [NoBatch EXCEPT !.todo = Working(cp.files, matched), !.files = cp.files, !.budget = MaxLines,
                             !.first = (cp.files = <<>> /\ ~cp.scanned), !.scan = scan, !.matched = matched]
  /\ pc' = "inspect"
  /\ UNCHANGED <<fs, disk, plane, kind, next, crashes, waived>>

Path == Head(b.todo)
Base == IF kind = "family" /\ b.prev # NoEntry THEN b.prev.real ELSE Path

\* the open block the read starts with: of the input, or of the file in a family
PendingAt(k) == IF kind = "single" THEN b.pend ELSE IF k = 0 THEN NoPending ELSE b.files[k].pend

\* inspect_path and decide_resume; a truncated file seals the pending block
InspectFile ==
  /\ pc = "inspect" /\ b.todo # <<>> /\ b.budget > 0 /\ FileAt(Path) # NoFile
  /\ LET k == Tracked(b.files, Path)
         cur == Identity(FileAt(Path))
         base == IF kind = "family" /\ k # 0 THEN b.files[k].real ELSE Path
         startup == IF kind = "family" /\ k = 0 /\ ~b.first THEN "head" ELSE Startup
         r == Resume(base, cur, b.files, k, startup)
         pend == PendingAt(k)
         seen == [b EXCEPT !.prev = IF k = 0 THEN NoEntry ELSE b.files[k], !.cur = cur,
                           !.start = r.start, !.turn = r.turn, !.pend = pend]
     IN /\ b' = IF r.turn = "truncated" THEN [With(seen, Sealed(pend)) EXCEPT !.pend = NoPending] ELSE seen
        /\ pc' = IF r.turn = "rotated" THEN "rotated" ELSE "read"
        /\ waived' = waived \cup IF k = 0 THEN {text[cur.ino][j] : j \in 1..r.start} ELSE {}
  /\ UNCHANGED <<fs, disk, plane, kind, next, crashes>>

\* the path vanished: an error for the single processor, a drain for the family
InspectMissing ==
  /\ pc = "inspect" /\ b.todo # <<>> /\ b.budget > 0 /\ FileAt(Path) = NoFile
  /\ LET k == Tracked(b.files, Path) IN
     CASE kind = "single" -> Idle
       [] kind = "family" /\ k = 0 -> b' = [b EXCEPT !.todo = Tail(@)] /\ UNCHANGED <<pc, next>>
       [] OTHER -> /\ b' = [b EXCEPT !.prev = b.files[k], !.pend = b.files[k].pend, !.turn = "vanished"]
                   /\ pc' = "rotated" /\ UNCHANGED next
  /\ UNCHANGED <<fs, disk, plane, kind, crashes, waived>>

\* lines read at this path are folded; an idle block may be sealed when nothing was read
FoldInto(batch, rd, idle, quiet) ==
  LET f == Folded(rd.lines, batch.pend.lines)
      flush == idle /\ quiet /\ rd.lines = <<>>
      bodies == IF flush /\ f.open # <<>> THEN Append(f.out, f.open) ELSE f.out
      open == IF flush THEN <<>> ELSE f.open
  IN [With(batch, bodies) EXCEPT
        !.pend = [src |-> IF open = <<>> THEN "none" ELSE Path, lines |-> open],
        !.drop = @ \cup f.left,
        !.read = @ \/ rd.lines # <<>>,
        !.budget = IF kind = "family" THEN @ - Len(rd.lines) ELSE @]

\* collect_rotated_tail: the batch with the tail of the renamed file and its checkpoint
TailRead(to, rd, got) ==
  LET up == [path |-> to, id |-> rd.id, off |-> rd.end,
             pend |-> IF kind = "single" THEN NoPending
                      ELSE [got.pend EXCEPT !.src = IF @ = "none" THEN @ ELSE to]]
      done == [got EXCEPT !.files = Relocated(b.files, b.prev, to), !.ups = Append(@, up)]
  IN IF kind = "single" THEN With(done, Sealed(got.pend)) ELSE done

\* the renamed file is gone: its open block is sealed, and a family forgets the entry
TailLost ==
  [With(b, Sealed(b.pend)) EXCEPT
     !.files = CASE kind = "single" -> @
                 [] b.turn = "vanished" -> [k \in DOMAIN @ |-> IF k = Tracked(@, Path)
                                              THEN [@[k] EXCEPT !.pend = NoPending] ELSE @[k]]
                 [] OTHER -> At(@, {k \in DOMAIN @ : @[k].path # Path})]

\* drain_rotated: the tail of the renamed file, once
DrainRotated(idle) ==
  /\ pc = "rotated"
  /\ LET to == RotatedPath(Base, b.prev)
         rd == ReadLines(b.prev.ino, b.prev.off, b.budget)
         got == FoldInto(b, rd, idle, kind = "family")
         out == [(IF to = Gone THEN TailLost ELSE TailRead(to, rd, got)) EXCEPT !.pend = NoPending]
         full == [out EXCEPT !.ups = Append(@, [path |-> Path, id |-> b.cur, off |-> 0, pend |-> NoPending])]
     IN /\ b' = CASE b.turn = "vanished" -> [out EXCEPT !.todo = Tail(@)]
                  [] b.turn # "vanished" /\ out.budget = 0 -> [full EXCEPT !.todo = Tail(@)]
                  [] OTHER -> out
        /\ pc' = IF b.turn = "vanished" \/ out.budget = 0 THEN "inspect" ELSE "read"
  /\ UNCHANGED <<fs, disk, plane, kind, next, crashes, waived>>

\* read_from_offset on the path, from the offset decided before
Unchanged(batch, end, pend) ==
  /\ kind = "family" /\ batch.prev # NoEntry
  /\ batch.prev.off = end /\ batch.prev.pend = pend /\ batch.prev.real = Path

\* the checkpoint of an active read; the block of a single input is kept beside it
ActiveUp(rd, pend) ==
  [path |-> Path, id |-> rd.id, off |-> rd.end, pend |-> IF kind = "single" THEN NoPending ELSE pend]

ReadActive(idle) ==
  /\ pc = "read" /\ FileAt(Path) # NoFile
  /\ LET rd == ReadLines(FileAt(Path), b.start, b.budget)
         got == FoldInto(b, rd, idle, kind = "family" \/ ~b.read)
     IN b' = [got EXCEPT !.ups = IF Unchanged(b, rd.end, got.pend) THEN @ ELSE Append(@, ActiveUp(rd, got.pend)),
                         !.todo = Tail(@)]
  /\ pc' = "inspect"
  /\ UNCHANGED <<fs, disk, plane, kind, next, crashes, waived>>

\* the path vanished after it was inspected
ReadFails ==
  /\ pc = "read" /\ FileAt(Path) = NoFile
  /\ IF kind = "single" THEN Idle
     ELSE b' = [b EXCEPT !.todo = Tail(@)] /\ pc' = "inspect" /\ UNCHANGED next
  /\ UNCHANGED <<fs, disk, plane, kind, crashes, waived>>

\* prune_family_state: entries that match no more and were read to the end they had then
Pruned(files, matched) ==
  At(files, {k \in DOMAIN files : \/ files[k].path \in matched \/ files[k].pend # NoPending
                                 \/ files[k].off < files[k].size})

FilesDone ==
  /\ pc = "inspect" /\ (b.todo = <<>> \/ b.budget = 0)
  /\ b' = [b EXCEPT !.files = IF b.scan THEN Pruned(@, b.matched) ELSE @, !.todo = <<>>]
  /\ pc' = "overflow"
  /\ UNCHANGED <<fs, disk, plane, kind, next, crashes, waived>>

-----------------------------------------------------------------------------
(* Delivery and commit. *)

\* TelemetryBuffer::stage_all
Staged == Upto(b.recs, Room)
Overflowed == SubSeq(b.recs, Room + 1, Len(b.recs))

\* deliver_fresh: what does not fit is spooled first
SpoolOverflow ==
  /\ pc = "overflow"
  /\ spool' = spool \o Overflowed /\ pc' = "send"
  /\ UNCHANGED <<fs, cp, seqDisk, plane, kind, next, b, crashes, waived>>

AfterSend == IF b.recs = <<>> THEN "commit" ELSE "seq"

SendStaged ==
  /\ pc = "send"
  /\ arrived' = arrived \cup Frames(Staged) /\ pc' = AfterSend
  /\ UNCHANGED <<fs, disk, kind, next, b, outages, others, crashes, waived>>

\* mutant of SendFails: what could not be sent is not spooled
SendFailsDrops ==
  /\ pc = "send" /\ Staged # <<>> /\ outages < MaxOutages
  /\ outages' = outages + 1
  /\ pc' = AfterSend /\ b' = [b EXCEPT !.err = TRUE]
  /\ UNCHANGED <<fs, disk, kind, arrived, next, others, crashes, waived>>

\* some of the staged records may have arrived; all of them are spooled
SendFails ==
  /\ pc = "send" /\ Staged # <<>> /\ outages < MaxOutages
  /\ outages' = outages + 1
  /\ \E k \in 0..Len(Staged) : arrived' = arrived \cup Frames(SubSeq(Staged, 1, k))
  /\ spool' = spool \o Staged /\ pc' = AfterSend
  /\ b' = [b EXCEPT !.err = TRUE]
  /\ UNCHANGED <<fs, cp, seqDisk, kind, next, others, crashes, waived>>

\* mutant of StoreSeq: the counter moves in memory only
KeepSeqInMemory ==
  /\ pc = "seq"
  /\ next' = next + Len(b.recs)
  /\ pc' = "commit"
  /\ UNCHANGED <<fs, cp, seqDisk, spool, plane, kind, b, crashes, waived>>

StoreSeq ==
  /\ pc = "seq"
  /\ next' = next + Len(b.recs) /\ seqDisk' = next'
  /\ pc' = "commit"
  /\ UNCHANGED <<fs, cp, spool, plane, kind, b, crashes, waived>>

\* commit_log_state, commit_family_state: the checkpoints of the batch in order
Committed(files, ups) ==
  LET put[k \in 0..Len(ups)] == IF k = 0 THEN files ELSE Upsert(put[k - 1], ups[k])
  IN put[Len(ups)]

\* made_progress: another batch in the same tick, if the catch-up budget allows it
Progress(batch) == batch.read /\ ~batch.err

CommitState(again) ==
  /\ pc = "commit"
  /\ cp' = [files |-> Committed(b.files, b.ups), pend |-> IF kind = "single" THEN b.pend ELSE NoPending,
            scanned |-> cp.scanned \/ b.scan]
  /\ waived' = waived \cup b.drop
  /\ again => Progress(b)
  /\ pc' = IF again THEN "tick" ELSE "idle"
  /\ next' = IF again THEN next ELSE 0
  /\ b' = NoBatch
  /\ UNCHANGED <<fs, seqDisk, spool, plane, kind, crashes>>

\* the daemon goes away; what it had in memory is lost
Crash ==
  /\ pc # "idle" /\ crashes < MaxCrashes
  /\ crashes' = crashes + 1
  /\ Idle
  /\ UNCHANGED <<fs, disk, plane, kind, waived>>

Daemon ==
  \/ BeginTick \/ ReplaySpool \/ NothingSpooled \/ SourceMissing \/ LoadSingle
  \/ \E scan \in BOOLEAN : ScanFamily(scan)
  \/ InspectFile \/ InspectMissing
  \/ \E idle \in BOOLEAN : DrainRotated(idle) \/ ReadActive(idle)
  \/ ReadFails \/ FilesDone \/ SpoolOverflow \/ SendStaged \/ StoreSeq
  \/ \E again \in BOOLEAN : CommitState(again)

Environment ==
  \/ \E p \in Sources : Append1(p) \/ Truncate(p)
  \/ \E c \in Chains : Rotate(c) \/ \E i \in Inode : Create(c, i)
  \/ OtherFrame \/ InvestigationFrame \/ ReplayFails \/ SendFails \/ Crash

Next == Daemon \/ Environment

Spec == Init /\ [][Next]_vars

\* The daemon's loop goes on, and a block that grows no more is found idle at last.
FairSpec == Spec /\ WF_vars(Daemon) /\ SF_vars(ReadActive(TRUE)) /\ SF_vars(\E scan \in {TRUE} : ScanFamily(scan))

-----------------------------------------------------------------------------
(* Properties. *)

\* The files, the checkpoint and the frames hold the values the code can give them.
TypeOK ==
  /\ name \in [Inode -> Paths \cup {Gone}] /\ text \in [Inode -> Seq(Line)]
  /\ cp.files \in Seq(Entry) /\ seqDisk \in Nat /\ next \in Nat
  /\ \A f \in arrived \cup Frames(spool) : f.no \in Nat

Delivered == UNION {LinesOf(<<f.body>>) : f \in arrived \cup Frames(spool)}
Held == UNION {LinesOf(<<cp.files[k].pend.lines>>) : k \in DOMAIN cp.files} \cup LinesOf(<<cp.pend.lines>>)

\* the lines of a file that the next read of this entry would leave behind it
NextStart(e) ==
  IF FileAt(e.path) = e.ino
  THEN Resume(e.path, Identity(e.ino), <<e>>, 1, Startup).start
  ELSE e.off
Passed(e) == {text[e.ino][j] : j \in {j \in 1..Len(text[e.ino]) : j <= NextStart(e)}}

\* No line is skipped in silence: a line that the committed checkpoint has passed was
\* received, is spooled, waits in the pending block, or was left out by a rule
\* (drop_if_contains, the record limit, a missing head, startup at the tail).
NoLineSkipped ==
  \A k \in DOMAIN cp.files :
    name[cp.files[k].ino] # Gone => Passed(cp.files[k]) \subseteq {0} \cup Delivered \cup Held \cup waived

\* In one life of the daemon a sequence number names one frame: the data plane drops a second
\* frame with a number it has seen (process_once, "seq").
OneFramePerNumber ==
  \A f, g \in arrived \cup Frames(spool) : f.no = g.no /\ f.life = g.life => f.body = g.body

\* In one life of the daemon the input of a single file sends a line under one number, through
\* rotation, truncation and outage: the same bytes are not read twice (collect_read_batch).
ReadOnce ==
  kind = "single" => \A f, g \in arrived \cup Frames(spool) :
    /\ f.life = g.life
    /\ (LinesOf(<<f.body>>) \cap LinesOf(<<g.body>>)) \ {0} # {}
    => f.no = g.no

\* The state of an input is well formed, no line is skipped in silence and none is read twice.
LinesKept == TypeOK /\ NoLineSkipped /\ ReadOnce

Received == UNION {LinesOf(<<f.body>>) : f \in arrived}
ActiveLines(p) == IF FileAt(p) = NoFile THEN {} ELSE {text[FileAt(p)][j] : j \in DOMAIN text[FileAt(p)]}

\* A line of a file that stays in place reaches the data plane, whatever was spooled, cut
\* short or sealed on the way.
LineReceived ==
  \A p \in Sources : \A l \in 1..MaxWritten :
    (l \in ActiveLines(p) /\ (kind = "single" => p = Source)) ~> (l \in Received \cup waived \/ l \notin ActiveLines(p))
=============================================================================
