--------------------------- MODULE LogInputProofs ---------------------------
(***************************************************************************)
(* A sequence number names one frame: OneFramePerNumber for every set of   *)
(* files, every record and batch limit, and any number of lines, turns,    *)
(* outages, foreign frames and crashes.                                    *)
(***************************************************************************)
EXTENDS LogInput, SequenceLemmas, SequenceTheorems

-----------------------------------------------------------------------------
(* The operators on sequences.                                             *)

\* The first place is one of them, or 0.
LEMMA FirstType ==
  ASSUME NEW T, T \subseteq Nat
  PROVE  First(T) = 0 \/ First(T) \in T
<1>1. CASE T = {}
  BY <1>1 DEF First
<1>2. CASE T # {}
  <2>1. PICK m : m \in T
    BY <1>2
  <2>2. \E k \in T : \A j \in T : k <= j
    BY <2>1, LeastExists
  <2> QED
    BY <1>2, <2>2 DEF First
<1> QED
  BY <1>1, <1>2

\* The first lines of a sequence.
LEMMA UptoType ==
  ASSUME NEW S, NEW s \in Seq(S), NEW n \in Nat
  PROVE  /\ Upto(s, n) \in Seq(S) /\ Len(Upto(s, n)) <= Len(s)
         /\ \A k \in DOMAIN Upto(s, n) : k \in DOMAIN s /\ Upto(s, n)[k] = s[k]
<1> DEFINE m == IF n < Len(s) THEN n ELSE Len(s)
<1>1. Len(s) \in Nat /\ DOMAIN s = 1..Len(s) /\ m \in Int /\ 1 \in Int /\ m <= Len(s)
  OBVIOUS
<1>2. \A i \in 1..m : s[i] \in S
  BY <1>1
<1>3. Upto(s, n) = SubSeq(s, 1, m)
  BY DEF Upto
<1> HIDE DEF m
<1>4. /\ SubSeq(s, 1, m) \in Seq(S)
      /\ Len(SubSeq(s, 1, m)) = IF 1 <= m THEN m - 1 + 1 ELSE 0
      /\ \A i \in 1 .. m - 1 + 1 : SubSeq(s, 1, m)[i] = s[1 + i - 1]
  BY <1>1, <1>2, SubSeqProperties
<1>5. DOMAIN SubSeq(s, 1, m) = 1..Len(SubSeq(s, 1, m))
  BY <1>4
<1>6. ASSUME NEW k \in DOMAIN SubSeq(s, 1, m) PROVE k \in DOMAIN s /\ SubSeq(s, 1, m)[k] = s[k]
  <2>1. k \in 1..m /\ k \in 1 .. m - 1 + 1 /\ 1 + k - 1 = k
    BY <1>1, <1>4, <1>5
  <2> QED
    BY <1>1, <1>4, <2>1
<1> QED
  BY <1>1, <1>3, <1>4, <1>6
-----------------------------------------------------------------------------
(* Lines to records.                                                       *)

Block == Seq(Line)
FoldState == [open : Block, out : Seq(Block), left : SUBSET Line]

LEMMA LinesOfBlock == ASSUME NEW r \in Block PROVE LinesOf(<<r>>) \subseteq Line
<1>1. DOMAIN <<r>> = {1} /\ <<r>>[1] = r
  OBVIOUS
<1>2. \A j \in DOMAIN r : r[j] \in Line
  BY DEF Block
<1> QED
  BY <1>1, <1>2 DEF LinesOf

LEMMA OneLine == ASSUME NEW l \in Line PROVE <<l>> \in Block /\ <<>> \in Block
BY DEF Block

LEMMA FoldLineType ==
  ASSUME NEW s \in FoldState, NEW l \in Line
  PROVE  FoldLine(s, l) \in FoldState
<1> DEFINE open == s.open
           out == s.out
           left == s.left
<1>1. s = [open |-> open, out |-> out, left |-> left] /\ open \in Block /\ out \in Seq(Block) /\ left \subseteq Line
  BY DEF FoldState
<1>2. \A x \in Block : Append(out, x) \in Seq(Block)
  BY <1>1
<1>3. Append(open, l) \in Block
  BY <1>1 DEF Block
<1>4. left \cup {l} \subseteq Line /\ left \cup {l} \cup LinesOf(<<open>>) \subseteq Line
  BY <1>1, LinesOfBlock
<1>5. <<l>> \in Block /\ <<>> \in Block
  BY OneLine
<1> HIDE DEF open, out, left
<1>6. \E o \in Block, x \in Seq(Block), f \in SUBSET Line : FoldLine(s, l) = [open |-> o, out |-> x, left |-> f]
  <2>1. CASE ~Multiline
    <3>1. FoldLine(s, l) = [open |-> open, out |-> Append(out, <<l>>), left |-> left]
      BY <1>1, <2>1 DEF FoldLine
    <3> QED
      BY <1>1, <1>2, <1>5, <3>1
  <2>2. CASE Multiline /\ l \notin Cont
    <3>1. FoldLine(s, l) = [open |-> <<l>>, out |-> IF open = <<>> THEN out ELSE Append(out, open), left |-> left]
      BY <1>1, <2>2 DEF FoldLine
    <3>2. (IF open = <<>> THEN out ELSE Append(out, open)) \in Seq(Block)
      BY <1>1, <1>2
    <3> QED
      BY <1>1, <1>5, <3>1, <3>2
  <2>3. CASE Multiline /\ l \in Cont /\ open = <<>>
    <3>1. FoldLine(s, l) = [open |-> open, out |-> out, left |-> left \cup {l}]
      BY <1>1, <2>3 DEF FoldLine
    <3> QED
      BY <1>1, <1>4, <3>1
  <2>4. CASE Multiline /\ l \in Cont /\ open # <<>> /\ Len(open) = MaxRecord
    <3>1. FoldLine(s, l) = [open |-> <<>>, out |-> out, left |-> left \cup {l} \cup LinesOf(<<open>>)]
      BY <1>1, <2>4 DEF FoldLine
    <3> QED
      BY <1>1, <1>4, <1>5, <3>1
  <2>5. CASE Multiline /\ l \in Cont /\ open # <<>> /\ Len(open) # MaxRecord
    <3>1. FoldLine(s, l) = [open |-> Append(open, l), out |-> out, left |-> left]
      BY <1>1, <2>5 DEF FoldLine
    <3> QED
      BY <1>1, <1>3, <3>1
  <2> QED
    BY <2>1, <2>2, <2>3, <2>4, <2>5
<1> QED
  BY <1>6 DEF FoldState

LEMMA FoldedType ==
  ASSUME NEW lines \in Block, NEW open \in Block
  PROVE  Folded(lines, open) \in FoldState
<1> DEFINE n == Len(lines)
           v0 == [open |-> open, out |-> <<>>, left |-> {}]
           Rec(f) == f = [k \in 0..n |-> IF k = 0 THEN v0 ELSE FoldLine(f[k - 1], lines[k])]
           g == [k \in 1..n |-> [v \in FoldState |-> FoldLine(v, lines[k])]]
           h == CHOOSE f : Rec(f)
<1>0. n \in Nat /\ v0 \in FoldState /\ \A k \in 1..n : lines[k] \in Line
  <2>1. <<>> \in Seq(Block)
    OBVIOUS
  <2> QED
    BY <2>1 DEF Block, FoldState
<1>1. g \in [1..n -> [FoldState -> FoldState]] /\ \A k \in 1..n : \A v \in FoldState : g[k][v] = FoldLine(v, lines[k])
  BY <1>0, FoldLineType
<1>2. Folded(lines, open) = h[n]
  BY DEF Folded
<1> HIDE DEF g, n, v0
<1>3. \E f : Rec(f)
  <2>1. PICK f : Steps(f, FoldState, n, g, v0)
    BY <1>0, <1>1, StepsExist
  <2>2. f \in [0..n -> FoldState] /\ f[0] = v0 /\ \A k \in 1..n : f[k] = g[k][f[k - 1]]
    BY <2>1 DEF Steps
  <2>3. \A k \in 0..n : f[k] = IF k = 0 THEN v0 ELSE FoldLine(f[k - 1], lines[k])
    <3> SUFFICES ASSUME NEW k \in 0..n, k # 0 PROVE f[k] = FoldLine(f[k - 1], lines[k])
      BY <2>2
    <3>1. k \in 1..n /\ k - 1 \in 0..n
      BY <1>0
    <3> QED
      BY <1>1, <2>2, <3>1
  <2>4. Rec(f)
    <3>1. f = [k \in 0..n |-> f[k]]
      BY <2>2
    <3> QED
      BY <2>3, <3>1
  <2> QED
    BY <2>4
<1>4. Rec(h)
  BY <1>3
<1> HIDE DEF h
<1>5. h[0] = v0
  <2>1. h[0] = IF 0 = 0 THEN v0 ELSE FoldLine(h[0 - 1], lines[0])
    BY <1>0, <1>4
  <2> QED
    BY <2>1
<1>6. ASSUME NEW k \in 1..n, h[k - 1] \in FoldState PROVE h[k] \in FoldState
  <2>1. k \in 0..n /\ k # 0
    BY <1>0
  <2>2. h[k] = FoldLine(h[k - 1], lines[k])
    BY <1>4, <2>1
  <2> QED
    BY <1>0, <1>6, <2>2, FoldLineType
<1>7. h[n] \in FoldState
  BY <1>0, <1>5, <1>6, StepsStay
<1> QED
  BY <1>2, <1>7

\* The numbers of the records follow one another from the first.
LEMMA NumberedType ==
  ASSUME NEW bodies \in Seq(Block), NEW n \in Nat, crashes \in Nat
  PROVE  /\ Numbered(bodies, n) \in Seq([no : Nat, body : Block, life : Nat])
         /\ \A k \in DOMAIN Numbered(bodies, n) :
              Numbered(bodies, n)[k].no = n + k - 1 /\ Numbered(bodies, n)[k].life = crashes
<1> DEFINE kept == At(bodies, Admitted(bodies))
           R == [no : Nat, body : Block, life : Nat]
           out == [k \in DOMAIN kept |-> [no |-> n + k - 1, body |-> kept[k], life |-> crashes]]
<1>1. kept \in Seq(Block)
  BY AtType
<1>2. Numbered(bodies, n) = out
  BY DEF Numbered
<1> HIDE DEF kept
<1>3. Len(kept) \in Nat /\ DOMAIN kept = 1..Len(kept) /\ \A k \in 1..Len(kept) : kept[k] \in Block
  BY <1>1
<1>4. ASSUME NEW k \in 1..Len(kept)
      PROVE  out[k] \in R /\ out[k].no = n + k - 1 /\ out[k].life = crashes
  <2>1. n + k - 1 \in Nat
    BY <1>3
  <2>2. kept[k] \in Block
    BY <1>3
  <2>3. out[k] = [no |-> n + k - 1, body |-> kept[k], life |-> crashes]
    BY <1>3
  <2> QED
    BY <2>1, <2>2, <2>3
<1>5. out \in Seq(R)
  <2>1. out \in [1..Len(kept) -> R]
    <3>1. DOMAIN out = 1..Len(kept) /\ out = [k \in 1..Len(kept) |-> out[k]]
      BY <1>3
    <3> HIDE DEF out, R
    <3> QED
      BY <1>4, <3>1
  <2> HIDE DEF out, R
  <2> QED
    BY <1>3, <2>1
<1>6. DOMAIN out = 1..Len(kept)
  BY <1>3
<1> QED
  BY <1>2, <1>4, <1>5, <1>6
-----------------------------------------------------------------------------
(* The invariant.                                                          *)

Pend == [src : Paths \cup {"none"}, lines : Block]
FileId == [ino : Inode, fp : Block, size : Nat]
Up == [path : Paths, id : FileId, off : Nat, pend : Pend]
Record == [no : Nat, body : Block, life : Nat]
Frame == [no : Nat, body : Seq(Nat), life : Nat]
Turns == {"none", "truncated", "rotated", "vanished"}
Stages == {"idle", "tick", "load", "inspect", "rotated", "read", "overflow", "send", "seq", "commit"}

\* The batch in hand.
Batch ==
  [todo : Seq(Paths), files : Seq(Entry), pend : Pend, prev : Entry \cup {NoEntry},
   cur : [ino : Inode \cup {NoFile}, fp : Block, size : Nat], start : Nat, turn : Turns,
   matched : SUBSET Paths, scan : BOOLEAN, first : BOOLEAN, budget : Nat, read : BOOLEAN,
   recs : Seq(Record), ups : Seq(Up), drop : SUBSET Line, err : BOOLEAN]

HostTypes ==
  /\ name \in [Inode -> Paths \cup {Gone}] /\ text \in [Inode -> Block]
  /\ written \in 0..MaxWritten

DiskTypes ==
  /\ cp \in [files : Seq(Entry), pend : Pend, scanned : BOOLEAN]
  /\ seqDisk \in Nat /\ next \in Nat /\ crashes \in Nat /\ others \in Nat
  /\ spool \in Seq(Frame) /\ arrived \subseteq Frame
  /\ kind \in {"single", "family"} /\ pc \in Stages

\* What the steps on one path find in the batch: the path, the entry of the file
\* that was renamed, and the file now at its path unless that vanished.
StageOK ==
  /\ pc \in {"rotated", "read"} => b.todo # <<>>
  /\ pc = "rotated" => b.prev # NoEntry /\ (b.turn # "vanished" => b.cur.ino # NoFile)

\* The records of the batch have the numbers that follow the stored one.
RecsOK(batch) == \A k \in DOMAIN batch.recs : batch.recs[k].no = next + k - 1 /\ batch.recs[k].life = crashes
NumbersOK ==
  /\ pc # "idle" => next = seqDisk
  /\ pc \in {"inspect", "rotated", "read", "overflow", "send", "seq"} => RecsOK(b)

\* A frame that left in this life has a number below the stored one, or is of the batch
\* whose numbers are not stored yet.
LeftOK ==
  \A f \in arrived \cup Frames(spool) :
    /\ f.life <= crashes
    /\ f.life = crashes => f.no < seqDisk \/ (pc \in {"send", "seq"} /\ f \in Frames(b.recs))

Types == HostTypes /\ DiskTypes /\ b \in Batch /\ StageOK
LogInv == Types /\ NumbersOK /\ LeftOK /\ OneFramePerNumber

-----------------------------------------------------------------------------
(* Files and checkpoints.                                                  *)

LEMMA Names == \A i \in Inode : i \in Nat /\ i # NoFile
BY LogAssumption DEF NoFile

LEMMA FileAtType == ASSUME NEW p PROVE FileAt(p) = NoFile \/ (FileAt(p) \in Inode /\ name[FileAt(p)] = p)
BY DEF FileAt

LEMMA NoPendType == NoPending \in Pend
<1>1. <<>> \in Block
  BY DEF Block
<1> QED
  BY <1>1 DEF NoPending, Pend

LEMMA EntryShape == Entry = [path : Paths, real : Paths, ino : Inode, fp : Block, off : Nat,
                             probe : Block, size : Nat, pend : Pend]
BY DEF Entry, Block, Pend

LEMMA NoEntryIsNone == NoEntry \notin Entry
BY LogAssumption DEF NoEntry, Entry

LEMMA IdentityType ==
  ASSUME HostTypes, NEW i \in Inode
  PROVE  Identity(i) \in FileId /\ Identity(i).ino = i
<1>1. text[i] \in Block /\ Len(text[i]) \in Nat
  BY DEF HostTypes, Block
<1>2. Upto(text[i], 1) \in Block
  BY <1>1, UptoType DEF Block
<1> QED
  BY <1>1, <1>2 DEF Identity, Fingerprint, FileId

LEMMA ProbeType == ASSUME HostTypes, NEW p, NEW off \in Nat PROVE Probe(p, off) \in Block
<1>1. CASE off = 0 \/ FileAt(p) = NoFile \/ off > Len(text[FileAt(p)])
  BY <1>1 DEF Probe, Block
<1>2. CASE ~(off = 0 \/ FileAt(p) = NoFile \/ off > Len(text[FileAt(p)]))
  <2>1. FileAt(p) \in Inode
    BY <1>2, FileAtType
  <2>2. text[FileAt(p)] \in Seq(Line)
    BY <2>1 DEF HostTypes, Block
  <2>3. off \in 1..Len(text[FileAt(p)])
    BY <1>2, <2>2
  <2>4. text[FileAt(p)][off] \in Line
    BY <2>2, <2>3
  <2> QED
    BY <1>2, <2>4, OneLine DEF Probe
<1> QED
  BY <1>1, <1>2

\* A read returns at most the lines the budget allows, and where it ended.
LEMMA ReadLinesType ==
  ASSUME HostTypes, NEW i \in Inode, NEW start \in Nat, NEW budget \in Nat
  PROVE  /\ ReadLines(i, start, budget).lines \in Block
         /\ Len(ReadLines(i, start, budget).lines) <= budget
         /\ ReadLines(i, start, budget).end \in Nat
         /\ ReadLines(i, start, budget).id \in FileId
<1> DEFINE s == text[i]
           from == IF start > Len(text[i]) THEN Len(text[i]) ELSE start
           end == IF from + budget > Len(text[i]) THEN Len(text[i]) ELSE from + budget
<1>1. s \in Seq(Line) /\ Len(s) \in Nat
  BY DEF HostTypes, Block
<1>2. from \in Nat /\ end \in Nat /\ end <= Len(s) /\ end <= from + budget
  BY <1>1
<1>3. ReadLines(i, start, budget) = [lines |-> SubSeq(s, from + 1, end), end |-> end, id |-> Identity(i)]
  BY DEF ReadLines
<1> HIDE DEF s, from, end
<1>4. from + 1 \in Int /\ end \in Int /\ \A k \in (from + 1)..end : s[k] \in Line
  BY <1>1, <1>2
<1>5. /\ SubSeq(s, from + 1, end) \in Seq(Line)
      /\ Len(SubSeq(s, from + 1, end)) = IF from + 1 <= end THEN end - (from + 1) + 1 ELSE 0
  BY <1>4, SubSeqProperties
<1>6. Len(SubSeq(s, from + 1, end)) <= budget
  BY <1>2, <1>5
<1> QED
  BY <1>2, <1>3, <1>5, <1>6, IdentityType DEF Block

\* The index of an entry is one of the sequence, or 0.
LEMMA PlaceType ==
  ASSUME NEW files \in Seq(Entry), NEW T, T \subseteq DOMAIN files
  PROVE  First(T) \in Nat /\ (First(T) # 0 => First(T) \in DOMAIN files /\ files[First(T)] \in Entry)
<1>1. DOMAIN files \subseteq Nat /\ \A k \in DOMAIN files : files[k] \in Entry
  OBVIOUS
<1>2. T \subseteq Nat
  BY <1>1
<1>3. First(T) = 0 \/ First(T) \in T
  BY <1>2, FirstType
<1> QED
  BY <1>1, <1>2, <1>3

LEMMA TrackedType ==
  ASSUME NEW files \in Seq(Entry), NEW p
  PROVE  Tracked(files, p) \in Nat /\ (Tracked(files, p) # 0 => Tracked(files, p) \in DOMAIN files /\ files[Tracked(files, p)] \in Entry)
<1> DEFINE T == {k \in DOMAIN files : files[k].path = p}
<1>1. T \subseteq DOMAIN files /\ Tracked(files, p) = First(T)
  BY DEF Tracked
<1> HIDE DEF T
<1> QED
  BY <1>1, PlaceType

LEMMA RelocatedType ==
  ASSUME NEW files \in Seq(Entry), NEW prev, NEW p \in Paths
  PROVE  Relocated(files, prev, p) \in Seq(Entry)
<1> DEFINE T == {j \in DOMAIN files : files[j].ino = prev.ino \/ files[j].path = prev.path}
           k == First(T)
<1>1. T \subseteq DOMAIN files
  OBVIOUS
<1>2. Relocated(files, prev, p) = IF k = 0 THEN files ELSE [files EXCEPT ![k].path = p]
  BY DEF Relocated
<1> HIDE DEF T
<1>3. k # 0 => k \in DOMAIN files /\ files[k] \in Entry
  BY <1>1, PlaceType
<1> HIDE DEF k
<1>4. CASE k = 0
  BY <1>2, <1>4
<1>5. CASE k # 0
  <2> DEFINE e == [files[k] EXCEPT !.path = p]
  <2>1. e \in Entry
    BY <1>3, <1>5 DEF Entry
  <2>2. Relocated(files, prev, p) = [files EXCEPT ![k] = e]
    BY <1>2, <1>5
  <2>3. k \in 1..Len(files)
    BY <1>3, <1>5
  <2> HIDE DEF e
  <2> QED
    BY <2>1, <2>2, <2>3, ExceptSeq
<1> QED
  BY <1>4, <1>5
\* An entry put in its place, the others with its path gone: still entries.
LEMMA KeptType ==
  ASSUME NEW files \in Seq(Entry), NEW at, NEW entry \in Entry
  PROVE  KeptAtPath(files, at, entry) \in Seq(Entry)
<1> DEFINE n == Len(files)
           V == Seq(Entry)
           v0 == <<>>
           Step(j, v) == IF j = at THEN Append(v, entry) ELSE IF files[j].path = entry.path THEN v ELSE Append(v, files[j])
           Rec(f) == f = [j \in 0..n |->
                            IF j = 0 THEN <<>>
                            ELSE IF j = at THEN Append(f[j - 1], entry)
                            ELSE IF files[j].path = entry.path THEN f[j - 1]
                            ELSE Append(f[j - 1], files[j])]
           g == [j \in 1..n |-> [v \in V |-> Step(j, v)]]
           h == CHOOSE f : Rec(f)
<1>0. n \in Nat /\ v0 \in V /\ \A j \in 1..n : files[j] \in Entry
  OBVIOUS
<1>1. \A j \in 1..n : \A v \in V : Step(j, v) \in V
  <2>1. \A v \in V, e \in Entry : Append(v, e) \in V
    OBVIOUS
  <2> HIDE DEF V, n
  <2> QED
    BY <1>0, <2>1
<1>2. KeptAtPath(files, at, entry) = h[n]
  BY DEF KeptAtPath
<1>3. g \in [1..n -> [V -> V]] /\ \A j \in 1..n : \A v \in V : g[j][v] = Step(j, v)
  <2> HIDE DEF V, n, Step
  <2> QED
    BY <1>1
<1> HIDE DEF g, n, V
<1>4. \E f : Rec(f)
  <2>1. PICK f : Steps(f, V, n, g, v0)
    BY <1>0, <1>3, StepsExist
  <2>2. f \in [0..n -> V] /\ f[0] = v0 /\ \A j \in 1..n : f[j] = g[j][f[j - 1]]
    BY <2>1 DEF Steps
  <2>3. \A j \in 0..n : f[j] = IF j = 0 THEN <<>> ELSE Step(j, f[j - 1])
    <3> SUFFICES ASSUME NEW j \in 0..n, j # 0 PROVE f[j] = Step(j, f[j - 1])
      BY <2>2
    <3>1. j \in 1..n /\ j - 1 \in 0..n
      BY <1>0
    <3>2. f[j - 1] \in V
      BY <2>2, <3>1
    <3>3. f[j] = g[j][f[j - 1]]
      BY <2>2, <3>1
    <3> HIDE DEF Step
    <3> QED
      BY <1>3, <3>1, <3>2, <3>3
  <2>4. Rec(f)
    <3>1. f = [j \in 0..n |-> f[j]]
      BY <2>2
    <3> QED
      BY <2>3, <3>1
  <2> QED
    BY <2>4
<1>5. Rec(h)
  BY <1>4
<1> HIDE DEF h
<1>6. h[0] = v0
  <2>1. h[0] = IF 0 = 0 THEN v0 ELSE Step(0, h[0 - 1])
    BY <1>0, <1>5
  <2> QED
    BY <2>1
<1>7. ASSUME NEW j \in 1..n, h[j - 1] \in V PROVE h[j] \in V
  <2>1. j \in 0..n /\ j # 0
    BY <1>0
  <2>2. h[j] = Step(j, h[j - 1])
    BY <1>5, <2>1
  <2> HIDE DEF Step
  <2> QED
    BY <1>1, <1>7, <2>2
<1>8. h[n] \in V
  <2> HIDE DEF v0
  <2> QED
    BY <1>0, <1>6, <1>7, StepsStay
<1> QED
  BY <1>2, <1>8 DEF V

LEMMA UpsertType ==
  ASSUME HostTypes, NEW files \in Seq(Entry), NEW u \in Up
  PROVE  Upsert(files, u) \in Seq(Entry)
<1> DEFINE T == {j \in DOMAIN files : \/ files[j].ino = u.id.ino
                                      \/ files[j].path = u.path /\ files[j].fp = u.id.fp}
           k == First(T)
           entry == [path |-> IF k = 0 THEN u.path ELSE files[k].path, real |-> u.path,
                     ino |-> u.id.ino, fp |-> u.id.fp, off |-> u.off,
                     probe |-> Probe(u.path, u.off), size |-> u.id.size, pend |-> u.pend]
<1>1. T \subseteq DOMAIN files
  OBVIOUS
<1>2. Upsert(files, u) = IF k = 0 THEN Append(KeptAtPath(files, 0, entry), entry) ELSE KeptAtPath(files, k, entry)
  BY DEF Upsert
<1> HIDE DEF T
<1>3. k # 0 => files[k] \in Entry
  BY <1>1, PlaceType
<1> HIDE DEF k
<1>4. entry \in Entry
  <2>1. u.path \in Paths /\ u.off \in Nat /\ u.pend \in Pend /\ u.id \in FileId
    BY DEF Up
  <2>2. u.id.ino \in Inode /\ u.id.fp \in Block /\ u.id.size \in Nat
    BY <2>1 DEF FileId
  <2>3. Probe(u.path, u.off) \in Block
    BY <2>1, ProbeType
  <2>4. (IF k = 0 THEN u.path ELSE files[k].path) \in Paths
    BY <1>3, <2>1 DEF Entry
  <2> QED
    BY <2>1, <2>2, <2>3, <2>4, EntryShape
<1> HIDE DEF entry
<1>5. KeptAtPath(files, 0, entry) \in Seq(Entry) /\ KeptAtPath(files, k, entry) \in Seq(Entry)
  BY <1>4, KeptType
<1> QED
  BY <1>2, <1>4, <1>5

LEMMA CommittedType ==
  ASSUME HostTypes, NEW files \in Seq(Entry), NEW ups \in Seq(Up)
  PROVE  Committed(files, ups) \in Seq(Entry)
<1> DEFINE n == Len(ups)
           V == Seq(Entry)
           Rec(f) == f = [k \in 0..n |-> IF k = 0 THEN files ELSE Upsert(f[k - 1], ups[k])]
           g == [k \in 1..n |-> [v \in V |-> Upsert(v, ups[k])]]
           h == CHOOSE f : Rec(f)
<1>0. n \in Nat /\ files \in V /\ \A k \in 1..n : ups[k] \in Up
  OBVIOUS
<1>1. \A k \in 1..n : \A v \in V : Upsert(v, ups[k]) \in V
  BY <1>0, UpsertType
<1>2. Committed(files, ups) = h[n]
  BY DEF Committed
<1>3. g \in [1..n -> [V -> V]] /\ \A k \in 1..n : \A v \in V : g[k][v] = Upsert(v, ups[k])
  <2> HIDE DEF V, n
  <2> QED
    BY <1>1
<1> HIDE DEF g, n, V
<1>4. \E f : Rec(f)
  <2>1. PICK f : Steps(f, V, n, g, files)
    BY <1>0, <1>3, StepsExist
  <2>2. f \in [0..n -> V] /\ f[0] = files /\ \A k \in 1..n : f[k] = g[k][f[k - 1]]
    BY <2>1 DEF Steps
  <2>3. \A k \in 0..n : f[k] = IF k = 0 THEN files ELSE Upsert(f[k - 1], ups[k])
    <3> SUFFICES ASSUME NEW k \in 0..n, k # 0 PROVE f[k] = Upsert(f[k - 1], ups[k])
      BY <2>2
    <3>1. k \in 1..n /\ k - 1 \in 0..n
      BY <1>0
    <3> QED
      BY <1>3, <2>2, <3>1
  <2>4. Rec(f)
    <3>1. f = [k \in 0..n |-> f[k]]
      BY <2>2
    <3> QED
      BY <2>3, <3>1
  <2> QED
    BY <2>4
<1>5. Rec(h)
  BY <1>4
<1> HIDE DEF h
<1>6. h[0] = files
  <2>1. h[0] = IF 0 = 0 THEN files ELSE Upsert(h[0 - 1], ups[0])
    BY <1>0, <1>5
  <2> QED
    BY <2>1
<1>7. ASSUME NEW k \in 1..n, h[k - 1] \in V PROVE h[k] \in V
  <2>1. k \in 0..n /\ k # 0
    BY <1>0
  <2>2. h[k] = Upsert(h[k - 1], ups[k])
    BY <1>5, <2>1
  <2> QED
    BY <1>1, <1>7, <2>2
<1>8. h[n] \in V
  BY <1>0, <1>6, <1>7, StepsStay
<1> QED
  BY <1>2, <1>8 DEF V

LEMMA WorkingType ==
  ASSUME NEW files, NEW matched
  PROVE  Working(files, matched) \in Seq(Paths)
BY AtType, LogAssumption DEF Working

LEMMA PrunedType ==
  ASSUME NEW files \in Seq(Entry), NEW matched
  PROVE  Pruned(files, matched) \in Seq(Entry)
BY AtType DEF Pruned

\* Where a read starts and what was found.
LEMMA ResumeType ==
  ASSUME NEW base, NEW cur, cur.size \in Nat, NEW files \in Seq(Entry), NEW k,
         k # 0 => k \in DOMAIN files, NEW startup
  PROVE  /\ Resume(base, cur, files, k, startup).start \in Nat
         /\ Resume(base, cur, files, k, startup).turn \in {"none", "truncated", "rotated"}
         /\ k = 0 => Resume(base, cur, files, k, startup).turn = "none"
<1>1. CASE k = 0
  BY <1>1 DEF Resume
<1>2. CASE k # 0
  <2>1. files[k] \in Entry
    BY <1>2
  <2>2. files[k].off \in Nat
    BY <2>1 DEF Entry
  <2> QED
    BY <1>2, <2>2 DEF Resume
<1> QED
  BY <1>1, <1>2
-----------------------------------------------------------------------------
(* What the steps do to the batch.                                         *)

\* The fields the folding of lines does not touch.
SameFile(p, q) ==
  /\ p.todo = q.todo /\ p.files = q.files /\ p.prev = q.prev /\ p.cur = q.cur
  /\ p.turn = q.turn /\ p.ups = q.ups

LEMMA SealedType == ASSUME NEW pend \in Pend PROVE Sealed(pend) \in Seq(Block)
BY DEF Sealed, Pend

LEMMA NoiseType == ASSUME NEW bodies \in Seq(Block) PROVE NoiseOf(bodies) \subseteq Line
<1>1. \A k \in DOMAIN bodies : bodies[k] \in Block
  OBVIOUS
<1>2. \A k \in DOMAIN bodies : LinesOf(<<bodies[k]>>) \subseteq Line
  BY <1>1, LinesOfBlock
<1> QED
  BY <1>2 DEF NoiseOf

\* The records of these bodies are numbered after those of the batch.
LEMMA WithType ==
  ASSUME next \in Nat, crashes \in Nat, NEW p \in Batch, RecsOK(p), NEW bodies \in Seq(Block)
  PROVE  /\ With(p, bodies) \in Batch /\ RecsOK(With(p, bodies)) /\ SameFile(With(p, bodies), p)
         /\ With(p, bodies).budget = p.budget /\ With(p, bodies).pend = p.pend
<1> DEFINE old == p.recs
           new == Numbered(bodies, next + Len(p.recs))
           drop == p.drop \cup NoiseOf(bodies)
           q == [p EXCEPT !.recs = old \o new, !.drop = drop]
<1>1. old \in Seq(Record) /\ Len(old) \in Nat /\ DOMAIN old = 1..Len(old) /\ p.drop \subseteq Line
  BY DEF Batch
<1>2. next + Len(p.recs) \in Nat
  BY <1>1
<1>3. /\ new \in Seq(Record)
      /\ \A k \in DOMAIN new : new[k].no = (next + Len(p.recs)) + k - 1 /\ new[k].life = crashes
  BY <1>2, NumberedType DEF Record
<1>4. Len(new) \in Nat /\ DOMAIN new = 1..Len(new)
  BY <1>3
<1>5. drop \subseteq Line
  BY <1>1, NoiseType
<1>6. With(p, bodies) = q
  BY DEF With, Batch
<1> HIDE DEF new, drop
<1>7. /\ old \o new \in Seq(Record) /\ Len(old \o new) = Len(old) + Len(new)
      /\ \A i \in 1 .. Len(old) + Len(new) : (old \o new)[i] = IF i <= Len(old) THEN old[i] ELSE new[i - Len(old)]
  BY <1>1, <1>3, ConcatProperties
<1>8. ASSUME NEW k \in DOMAIN (old \o new)
      PROVE  (old \o new)[k].no = next + k - 1 /\ (old \o new)[k].life = crashes
  <2>1. k \in 1..(Len(old) + Len(new)) /\ k \in Nat
    BY <1>7
  <2>2. CASE k <= Len(old)
    <3>1. k \in DOMAIN old /\ (old \o new)[k] = old[k]
      BY <1>1, <1>7, <2>1, <2>2
    <3> QED
      BY <3>1 DEF RecsOK
  <2>3. CASE ~(k <= Len(old))
    <3>1. k - Len(old) \in DOMAIN new
      BY <1>1, <1>4, <2>1, <2>3
    <3>2. (old \o new)[k] = new[k - Len(old)]
      BY <1>7, <2>1, <2>3
    <3>3. (next + Len(p.recs)) + (k - Len(old)) - 1 = next + k - 1
      <4>1. \A n, m, l \in Nat : (n + m) + (l - m) - 1 = n + l - 1
        OBVIOUS
      <4>2. Len(p.recs) = Len(old)
        OBVIOUS
      <4> HIDE DEF old
      <4> QED
        BY <1>1, <2>1, <4>1, <4>2
    <3> QED
      BY <1>3, <3>1, <3>2, <3>3
  <2> QED
    BY <2>2, <2>3
<1> DEFINE recs == old \o new
<1>9. recs \in Seq(Record) /\ q = [p EXCEPT !.recs = recs, !.drop = drop]
  BY <1>7
<1>10. \A k \in DOMAIN recs : recs[k].no = next + k - 1 /\ recs[k].life = crashes
  BY <1>8
<1> HIDE DEF recs, q, old
<1>11. q \in Batch
  BY <1>5, <1>9 DEF Batch
<1>12. /\ q.recs = recs /\ q.todo = p.todo /\ q.files = p.files /\ q.prev = p.prev /\ q.cur = p.cur
       /\ q.turn = p.turn /\ q.ups = p.ups /\ q.budget = p.budget /\ q.pend = p.pend
  BY <1>9 DEF Batch
<1>13. RecsOK(q)
  BY <1>10, <1>12 DEF RecsOK
<1> QED
  BY <1>6, <1>11, <1>12, <1>13 DEF SameFile

\* Fields that the numbers do not depend on.
LEMMA SameRecs == ASSUME NEW p, NEW q, RecsOK(p), q.recs = p.recs PROVE RecsOK(q)
BY DEF RecsOK

\* Lines that were read are folded, and the records numbered.
LEMMA FoldIntoType ==
  ASSUME next \in Nat, crashes \in Nat, NEW p \in Batch, RecsOK(p), Path \in Paths,
         NEW rd, rd.lines \in Block, Len(rd.lines) <= p.budget,
         NEW idle \in BOOLEAN, NEW quiet \in BOOLEAN
  PROVE  /\ FoldInto(p, rd, idle, quiet) \in Batch /\ RecsOK(FoldInto(p, rd, idle, quiet))
         /\ SameFile(FoldInto(p, rd, idle, quiet), p)
<1> DEFINE f == Folded(rd.lines, p.pend.lines)
           flush == idle /\ quiet /\ rd.lines = <<>>
           bodies == IF flush /\ f.open # <<>> THEN Append(f.out, f.open) ELSE f.out
           open == IF flush THEN <<>> ELSE f.open
           w == With(p, bodies)
           pend == [src |-> IF open = <<>> THEN "none" ELSE Path, lines |-> open]
           drop == w.drop \cup f.left
           read == w.read \/ rd.lines # <<>>
           budget == IF kind = "family" THEN w.budget - Len(rd.lines) ELSE w.budget
           q == [w EXCEPT !.pend = pend, !.drop = drop, !.read = read, !.budget = budget]
<1>1. p.pend.lines \in Block
  BY DEF Batch, Pend
<1>2. f \in FoldState
  BY <1>1, FoldedType
<1>3. f.open \in Block /\ f.out \in Seq(Block) /\ f.left \subseteq Line
  BY <1>2 DEF FoldState
<1> HIDE DEF f
<1>4. bodies \in Seq(Block)
  BY <1>3
<1>5. open \in Block
  BY <1>3 DEF Block
<1>6. pend \in Pend
  BY <1>5 DEF Pend
<1> HIDE DEF bodies
<1>7. w \in Batch /\ RecsOK(w) /\ SameFile(w, p) /\ w.budget = p.budget
  BY <1>4, WithType
<1>8. FoldInto(p, rd, idle, quiet) = q
  BY <1>7 DEF FoldInto, f, bodies, Batch
<1> HIDE DEF open, pend, w, flush
<1>9. drop \subseteq Line
  BY <1>3, <1>7 DEF Batch
<1>10. read \in BOOLEAN
  OBVIOUS
<1>11. budget \in Nat
  <2>1. w.budget \in Nat /\ Len(rd.lines) \in Nat
    BY <1>7 DEF Batch, Block
  <2> QED
    BY <1>7, <2>1
<1> HIDE DEF drop, read, budget
<1>12. q \in Batch
  BY <1>6, <1>7, <1>9, <1>10, <1>11 DEF Batch
<1>13. /\ q.recs = w.recs /\ q.todo = w.todo /\ q.files = w.files /\ q.prev = w.prev /\ q.cur = w.cur
       /\ q.turn = w.turn /\ q.ups = w.ups
  BY <1>7 DEF Batch
<1> HIDE DEF q
<1>14. RecsOK(q)
  BY <1>7, <1>13, SameRecs
<1> QED
  BY <1>7, <1>8, <1>12, <1>13, <1>14 DEF SameFile
LEMMA NoBatchType == NoBatch \in Batch /\ RecsOK(NoBatch)
<1>1. <<>> \in Block
  BY DEF Block
<1>2. <<>> \in Seq(Paths) /\ <<>> \in Seq(Entry) /\ <<>> \in Seq(Record) /\ <<>> \in Seq(Up)
  OBVIOUS
<1>3. NoBatch.cur \in [ino : Inode \cup {NoFile}, fp : Block, size : Nat]
  BY <1>1 DEF NoBatch
<1>4. NoBatch \in Batch
  BY <1>2, <1>3, NoPendType DEF NoBatch, Batch, Turns
<1>5. NoBatch.recs = <<>>
  BY DEF NoBatch
<1> QED
  BY <1>4, <1>5 DEF RecsOK

\* The renamed file's tail and its checkpoint are added to the batch.
LEMMA TailReadType ==
  ASSUME next \in Nat, crashes \in Nat, b \in Batch, NEW got \in Batch, RecsOK(got), SameFile(got, b),
         NEW to \in Paths, NEW rd, rd.id \in FileId, rd.end \in Nat
  PROVE  TailRead(to, rd, got) \in Batch /\ RecsOK(TailRead(to, rd, got)) /\ TailRead(to, rd, got).todo = b.todo
<1> DEFINE pend == IF kind = "single" THEN NoPending ELSE [got.pend EXCEPT !.src = IF @ = "none" THEN @ ELSE to]
           up == [path |-> to, id |-> rd.id, off |-> rd.end, pend |-> pend]
           files == Relocated(b.files, b.prev, to)
           ups == Append(got.ups, up)
           done == [got EXCEPT !.files = files, !.ups = ups]
<1>1. pend \in Pend
  <2>1. got.pend \in Pend
    BY DEF Batch
  <2>2. [got.pend EXCEPT !.src = IF @ = "none" THEN @ ELSE to] \in Pend
    BY <2>1 DEF Pend
  <2> QED
    BY <2>2, NoPendType
<1>2. TailRead(to, rd, got) = IF kind = "single" THEN With(done, Sealed(got.pend)) ELSE done
  BY DEF TailRead, Batch
<1> HIDE DEF pend
<1>3. up \in Up
  BY <1>1 DEF Up
<1> HIDE DEF up
<1>4. ups \in Seq(Up)
  BY <1>3 DEF Batch
<1>5. files \in Seq(Entry)
  BY RelocatedType DEF Batch
<1> HIDE DEF files, ups
<1>6. done \in Batch
  BY <1>4, <1>5 DEF Batch
<1>7. done.recs = got.recs /\ done.todo = got.todo
  BY DEF Batch
<1> HIDE DEF done
<1>8. RecsOK(done) /\ done.todo = b.todo
  BY <1>7, SameRecs DEF SameFile
<1>9. Sealed(got.pend) \in Seq(Block)
  BY SealedType DEF Batch
<1>10. /\ With(done, Sealed(got.pend)) \in Batch /\ RecsOK(With(done, Sealed(got.pend)))
       /\ With(done, Sealed(got.pend)).todo = done.todo
  BY <1>6, <1>8, <1>9, WithType DEF SameFile
<1> QED
  BY <1>2, <1>6, <1>8, <1>10

\* The renamed file is gone.
LEMMA TailLostType ==
  ASSUME next \in Nat, crashes \in Nat, kind \in {"single", "family"}, b \in Batch, RecsOK(b)
  PROVE  TailLost \in Batch /\ RecsOK(TailLost) /\ TailLost.todo = b.todo
<1> DEFINE w == With(b, Sealed(b.pend))
           cut == [k \in DOMAIN w.files |-> IF k = Tracked(w.files, Path)
                                            THEN [w.files[k] EXCEPT !.pend = NoPending] ELSE w.files[k]]
           files == CASE kind = "single" -> w.files
                      [] b.turn = "vanished" -> cut
                      [] OTHER -> At(w.files, {k \in DOMAIN w.files : w.files[k].path # Path})
           q == [w EXCEPT !.files = files]
<1>1. Sealed(b.pend) \in Seq(Block)
  BY SealedType DEF Batch
<1>2. w \in Batch /\ RecsOK(w) /\ w.todo = b.todo
  BY <1>1, WithType DEF SameFile
<1>3. TailLost = q
  BY <1>2 DEF TailLost, Batch
<1> HIDE DEF w
<1>4. w.files \in Seq(Entry)
  BY <1>2 DEF Batch
<1>5. cut \in Seq(Entry)
  <2>1. \A k \in DOMAIN w.files : w.files[k] \in Entry
    BY <1>4
  <2>2. \A e \in Entry : [e EXCEPT !.pend = NoPending] \in Entry
    BY NoPendType, EntryShape
  <2>3. \A k \in DOMAIN w.files : cut[k] \in Entry
    BY <2>1, <2>2
  <2>4. DOMAIN w.files = 1..Len(w.files) /\ Len(w.files) \in Nat
    BY <1>4
  <2>5. cut \in [1..Len(w.files) -> Entry]
    <3>1. cut = [k \in DOMAIN w.files |-> cut[k]]
      OBVIOUS
    <3> HIDE DEF cut
    <3> QED
      BY <2>3, <2>4, <3>1
  <2> HIDE DEF cut
  <2> QED
    BY <2>4, <2>5
<1>6. At(w.files, {k \in DOMAIN w.files : w.files[k].path # Path}) \in Seq(Entry)
  BY <1>4, AtType
<1>7. files \in Seq(Entry)
  <2> HIDE DEF cut
  <2>1. CASE kind = "single" /\ b.turn # "vanished"
    BY <1>4, <2>1
  <2>2. CASE kind = "single" /\ b.turn = "vanished"
    <3>1. files = w.files \/ files = cut
      BY <2>2
    <3> QED
      BY <1>4, <1>5, <3>1
  <2>3. CASE kind # "single" /\ b.turn = "vanished"
    BY <1>5, <2>3
  <2>4. CASE kind # "single" /\ b.turn # "vanished"
    BY <1>6, <2>4
  <2> QED
    BY <2>1, <2>2, <2>3, <2>4
<1> HIDE DEF files
<1>8. q \in Batch /\ q.recs = w.recs /\ q.todo = w.todo
  BY <1>2, <1>7 DEF Batch
<1> QED
  BY <1>2, <1>3, <1>8, SameRecs
-----------------------------------------------------------------------------
(* The steps on the files of the input.                                    *)

Reading == {"inspect", "rotated", "read", "overflow", "send", "seq"}

\* What a step of the processor leaves: a batch as it should be where it stands.
BatchKept ==
  /\ b' \in Batch /\ StageOK' /\ pc' \in Stages \ {"send", "seq"} /\ next' \in Nat
  /\ pc' # "idle" => next' = seqDisk
  /\ pc' \in Reading => RecsOK(b)'

LEMMA PathType == ASSUME b \in Batch, b.todo # <<>> PROVE Path \in Paths /\ Tail(b.todo) \in Seq(Paths)
<1>1. b.todo \in Seq(Paths)
  BY DEF Batch
<1> QED
  BY <1>1, HeadTailProperties DEF Path

LEMMA IdleKept == ASSUME LogInv, Idle PROVE BatchKept
BY NoBatchType DEF BatchKept, Idle, StageOK, Reading, Stages

\* The batch q, at a stage where nothing is asked of its path.
LEMMA GoesToInspect ==
  ASSUME LogInv, pc # "idle", NEW q \in Batch, RecsOK(q), b' = q, pc' \in {"inspect", "overflow"},
         next' = next, crashes' = crashes
  PROVE  BatchKept
<1>1. RecsOK(b)'
  BY DEF RecsOK
<1>2. next' \in Nat /\ next' = seqDisk
  BY DEF LogInv, Types, DiskTypes, NumbersOK
<1> QED
  BY <1>1, <1>2 DEF BatchKept, StageOK, Stages

\* The batch q, at a stage that looks at its path.
LEMMA GoesToPath ==
  ASSUME LogInv, pc # "idle", NEW q \in Batch, RecsOK(q), b' = q, pc' \in {"rotated", "read"},
         next' = next, crashes' = crashes, q.todo # <<>>,
         pc' = "rotated" => q.prev # NoEntry /\ (q.turn # "vanished" => q.cur.ino # NoFile)
  PROVE  BatchKept
<1>1. RecsOK(b)'
  BY DEF RecsOK
<1>2. next' \in Nat /\ next' = seqDisk
  BY DEF LogInv, Types, DiskTypes, NumbersOK
<1> QED
  BY <1>1, <1>2 DEF BatchKept, StageOK, Stages

LEMMA LoadSingleKept == ASSUME LogInv, LoadSingle PROVE BatchKept
<1> DEFINE q == [NoBatch EXCEPT !.todo = <<Source>>, !.files = cp.files, !.pend = cp.pend, !.budget = MaxLines]
<1>1. b' = q /\ pc = "load" /\ pc' = "inspect" /\ next' = next /\ crashes' = crashes
  BY DEF LoadSingle
<1>2. cp.files \in Seq(Entry) /\ cp.pend \in Pend /\ MaxLines \in Nat /\ <<Source>> \in Seq(Paths)
  BY LogAssumption DEF LogInv, Types, DiskTypes
<1>3. q \in Batch /\ q.recs = NoBatch.recs
  BY <1>2, NoBatchType DEF Batch
<1> HIDE DEF q
<1> QED
  BY <1>1, <1>3, NoBatchType, SameRecs, GoesToInspect

LEMMA ScanFamilyKept == ASSUME LogInv, NEW scan \in BOOLEAN, ScanFamily(scan) PROVE BatchKept
<1> DEFINE matched == IF scan THEN {p \in Glob : FileAt(p) # NoFile} ELSE {}
           todo == Working(cp.files, matched)
           first == cp.files = <<>> /\ ~cp.scanned
           q == [NoBatch EXCEPT !.todo = todo, !.files = cp.files, !.budget = MaxLines,
                                !.first = first, !.scan = scan, !.matched = matched]
<1>1. b' = q /\ pc = "load" /\ pc' = "inspect" /\ next' = next /\ crashes' = crashes
  BY DEF ScanFamily
<1>2. cp.files \in Seq(Entry) /\ MaxLines \in Nat /\ matched \subseteq Paths /\ first \in BOOLEAN
  BY LogAssumption DEF LogInv, Types, DiskTypes
<1>3. todo \in Seq(Paths)
  BY WorkingType
<1> HIDE DEF matched, todo, first
<1>4. q \in Batch /\ q.recs = NoBatch.recs
  BY <1>2, <1>3, NoBatchType DEF Batch
<1> HIDE DEF q
<1> QED
  BY <1>1, <1>4, NoBatchType, SameRecs, GoesToInspect

LEMMA InvFacts ==
  ASSUME LogInv
  PROVE  /\ next \in Nat /\ crashes \in Nat /\ kind \in {"single", "family"} /\ b \in Batch /\ HostTypes
         /\ b.files \in Seq(Entry) /\ b.pend \in Pend /\ b.budget \in Nat /\ b.start \in Nat
         /\ b.prev \in Entry \cup {NoEntry} /\ b.ups \in Seq(Up) /\ b.todo \in Seq(Paths)
         /\ pc \in Reading => RecsOK(b)
BY DEF LogInv, Types, DiskTypes, Batch, NumbersOK, Reading

LEMMA InspectFileKept == ASSUME LogInv, InspectFile PROVE BatchKept
<1> DEFINE k == Tracked(b.files, Path)
           cur == Identity(FileAt(Path))
           base == IF kind = "family" /\ k # 0 THEN b.files[k].real ELSE Path
           startup == IF kind = "family" /\ k = 0 /\ ~b.first THEN "head" ELSE Startup
           r == Resume(base, cur, b.files, k, startup)
           pend == PendingAt(k)
           prev == IF k = 0 THEN NoEntry ELSE b.files[k]
           seen == [b EXCEPT !.prev = prev, !.cur = cur, !.start = r.start, !.turn = r.turn, !.pend = pend]
<1>1. /\ pc = "inspect" /\ b.todo # <<>> /\ FileAt(Path) # NoFile
      /\ b' = IF r.turn = "truncated" THEN [With(seen, Sealed(pend)) EXCEPT !.pend = NoPending] ELSE seen
      /\ pc' = IF r.turn = "rotated" THEN "rotated" ELSE "read"
      /\ next' = next /\ crashes' = crashes
  BY DEF InspectFile
<1>2. FileAt(Path) \in Inode
  BY <1>1, FileAtType
<1>3. cur \in FileId /\ cur.ino \in Inode /\ cur.size \in Nat
  BY <1>2, InvFacts, IdentityType DEF FileId
<1>4. k # 0 => k \in DOMAIN b.files /\ b.files[k] \in Entry
  BY InvFacts, TrackedType
<1> HIDE DEF k, cur, base, startup
<1>5. /\ r.start \in Nat /\ r.turn \in {"none", "truncated", "rotated"} /\ (k = 0 => r.turn = "none")
  BY <1>3, <1>4, InvFacts, ResumeType
<1>6. pend \in Pend
  BY <1>4, InvFacts, NoPendType, EntryShape DEF PendingAt
<1>7. prev \in Entry \cup {NoEntry} /\ (k # 0 => prev # NoEntry)
  BY <1>4, NoEntryIsNone
<1>8. cur \in [ino : Inode \cup {NoFile}, fp : Block, size : Nat]
  BY <1>3 DEF FileId
<1> HIDE DEF r, pend, prev
<1>9. r.turn \in Turns
  BY <1>5 DEF Turns
<1>10. /\ seen \in Batch /\ seen.recs = b.recs /\ seen.todo = b.todo /\ seen.prev = prev
       /\ seen.cur = cur /\ seen.turn = r.turn
  BY <1>5, <1>6, <1>7, <1>8, <1>9, InvFacts DEF Batch
<1>11. RecsOK(seen)
  BY <1>1, <1>10, InvFacts, SameRecs DEF Reading
<1> HIDE DEF seen
<1>12. CASE r.turn = "truncated"
  <2> DEFINE w == With(seen, Sealed(pend))
             q == [w EXCEPT !.pend = NoPending]
  <2>1. w \in Batch /\ RecsOK(w) /\ w.todo = seen.todo
    BY <1>6, <1>10, <1>11, InvFacts, SealedType, WithType DEF SameFile
  <2>2. b' = q /\ pc' = "read"
    BY <1>1, <1>12
  <2> HIDE DEF w
  <2>3. q \in Batch /\ q.recs = w.recs /\ q.todo = w.todo
    BY <2>1, NoPendType DEF Batch
  <2> HIDE DEF q
  <2>4. RecsOK(q) /\ q.todo # <<>>
    BY <1>1, <1>10, <2>1, <2>3, SameRecs
  <2> QED
    BY <1>1, <2>2, <2>3, <2>4, GoesToPath
<1>13. CASE r.turn # "truncated"
  <2>1. b' = seen /\ pc' \in {"rotated", "read"} /\ (pc' = "rotated" => r.turn = "rotated")
    BY <1>1, <1>13
  <2>2. pc' = "rotated" => seen.prev # NoEntry /\ seen.cur.ino # NoFile
    BY <1>3, <1>5, <1>7, <1>10, <2>1, Names
  <2> QED
    BY <1>1, <1>10, <1>11, <2>1, <2>2, GoesToPath
<1> QED
  BY <1>12, <1>13

LEMMA InspectMissingKept == ASSUME LogInv, InspectMissing PROVE BatchKept
<1> DEFINE k == Tracked(b.files, Path)
<1>1. pc = "inspect" /\ b.todo # <<>> /\ crashes' = crashes
  BY DEF InspectMissing
<1>2. k # 0 => b.files[k] \in Entry
  BY InvFacts, TrackedType
<1>3. \/ Idle
      \/ b' = [b EXCEPT !.todo = Tail(@)] /\ pc' = pc /\ next' = next
      \/ /\ k # 0 /\ b' = [b EXCEPT !.prev = b.files[k], !.pend = b.files[k].pend, !.turn = "vanished"]
         /\ pc' = "rotated" /\ next' = next
  BY InvFacts DEF InspectMissing
<1> HIDE DEF k
<1>4. CASE Idle
  BY <1>4, IdleKept
<1>5. CASE b' = [b EXCEPT !.todo = Tail(@)] /\ pc' = pc /\ next' = next
  <2> DEFINE q == [b EXCEPT !.todo = Tail(b.todo)]
  <2>1. Tail(b.todo) \in Seq(Paths)
    BY <1>1, InvFacts, PathType
  <2>2. q \in Batch /\ q.recs = b.recs /\ b' = q
    BY <1>5, <2>1, InvFacts DEF Batch
  <2> HIDE DEF q
  <2> QED
    BY <1>1, <1>5, <2>2, InvFacts, SameRecs, GoesToInspect DEF Reading
<1>6. CASE /\ k # 0 /\ b' = [b EXCEPT !.prev = b.files[k], !.pend = b.files[k].pend, !.turn = "vanished"]
           /\ pc' = "rotated" /\ next' = next
  <2> DEFINE e == b.files[k]
             q == [b EXCEPT !.prev = e, !.pend = e.pend, !.turn = "vanished"]
  <2>1. e \in Entry /\ e # NoEntry /\ e.pend \in Pend
    BY <1>2, <1>6, NoEntryIsNone, EntryShape
  <2>2. b' = q
    BY <1>6
  <2> HIDE DEF e
  <2>3. q \in Batch /\ q.recs = b.recs /\ q.prev = e /\ q.todo = b.todo /\ q.turn = "vanished"
    BY <2>1, InvFacts DEF Batch, Turns
  <2> HIDE DEF q
  <2>4. RecsOK(q)
    BY <1>1, <2>3, InvFacts, SameRecs DEF Reading
  <2> QED
    BY <1>1, <1>6, <2>1, <2>2, <2>3, <2>4, GoesToPath
<1> QED
  BY <1>3, <1>4, <1>5, <1>6
LEMMA DrainRotatedKept == ASSUME LogInv, NEW idle \in BOOLEAN, DrainRotated(idle) PROVE BatchKept
<1> DEFINE to == RotatedPath(Base, b.prev)
           rd == ReadLines(b.prev.ino, b.prev.off, b.budget)
           got == FoldInto(b, rd, idle, kind = "family")
           tail == IF to = Gone THEN TailLost ELSE TailRead(to, rd, got)
           out == [tail EXCEPT !.pend = NoPending]
           here == [path |-> Path, id |-> b.cur, off |-> 0, pend |-> NoPending]
           full == [out EXCEPT !.ups = Append(out.ups, here)]
<1>1. pc = "rotated" /\ b.todo # <<>> /\ b.prev # NoEntry /\ next' = next /\ crashes' = crashes
  BY DEF DrainRotated, LogInv, Types, StageOK
<1>2. b.prev \in Entry
  BY <1>1, InvFacts
<1>3. b.prev.ino \in Inode /\ b.prev.off \in Nat
  BY <1>2 DEF Entry
<1>4. rd.lines \in Block /\ Len(rd.lines) <= b.budget /\ rd.end \in Nat /\ rd.id \in FileId
  BY <1>3, InvFacts, ReadLinesType
<1>5. Path \in Paths /\ Tail(b.todo) \in Seq(Paths)
  BY <1>1, InvFacts, PathType
<1>6. to = Gone \/ to \in Paths
  <2>1. name[b.prev.ino] \in Paths \cup {Gone}
    BY <1>3, InvFacts DEF HostTypes
  <2> QED
    BY <2>1 DEF RotatedPath
<1>7. RecsOK(b)
  BY <1>1, InvFacts DEF Reading
<1>8. /\ b' = CASE b.turn = "vanished" -> [out EXCEPT !.todo = Tail(@)]
                [] b.turn # "vanished" /\ out.budget = 0 -> [[out EXCEPT !.ups = Append(@, here)] EXCEPT !.todo = Tail(@)]
                [] OTHER -> out
      /\ pc' = IF b.turn = "vanished" \/ out.budget = 0 THEN "inspect" ELSE "read"
  BY DEF DrainRotated
<1> HIDE DEF rd, to
<1>9. got \in Batch /\ RecsOK(got) /\ SameFile(got, b)
  <2>1. (kind = "family") \in BOOLEAN
    OBVIOUS
  <2> QED
    BY <1>4, <1>5, <1>7, <2>1, InvFacts, FoldIntoType
<1> HIDE DEF got
<1>10. tail \in Batch /\ RecsOK(tail) /\ tail.todo = b.todo
  <2>1. CASE to = Gone
    BY <1>7, <2>1, InvFacts, TailLostType
  <2>2. CASE to # Gone
    BY <1>4, <1>6, <1>9, <2>2, InvFacts, TailReadType
  <2> QED
    BY <2>1, <2>2
<1> HIDE DEF tail
<1>11. out \in Batch /\ out.recs = tail.recs /\ out.todo = b.todo
  BY <1>10, NoPendType DEF Batch
<1> HIDE DEF out
<1>12. RecsOK(out)
  BY <1>10, <1>11, SameRecs
<1>13. CASE b.turn = "vanished"
  <2> DEFINE q == [out EXCEPT !.todo = Tail(out.todo)]
  <2>1. b' = q /\ pc' = "inspect"
    BY <1>8, <1>11, <1>13 DEF Batch
  <2>2. q \in Batch /\ q.recs = out.recs
    BY <1>5, <1>11 DEF Batch
  <2> HIDE DEF q
  <2> QED
    BY <1>1, <1>12, <2>1, <2>2, SameRecs, GoesToInspect
<1>14. CASE b.turn # "vanished" /\ out.budget = 0
  <2> DEFINE q == [full EXCEPT !.todo = Tail(full.todo)]
  <2>1. here \in Up
    <3>1. b.cur \in FileId
      BY <1>1, <1>14, InvFacts DEF LogInv, Types, StageOK, Batch, FileId
    <3> QED
      BY <1>5, <3>1, NoPendType DEF Up
  <2> HIDE DEF here
  <2>2. Append(out.ups, here) \in Seq(Up)
    BY <1>11, <2>1 DEF Batch
  <2>3. full \in Batch /\ full.recs = out.recs /\ full.todo = out.todo
    BY <1>11, <2>2 DEF Batch
  <2>4. full = [out EXCEPT !.ups = Append(@, here)]
    BY <1>11 DEF Batch
  <2> HIDE DEF full
  <2>5. b' = q /\ pc' = "inspect"
    BY <1>8, <1>14, <2>3, <2>4 DEF Batch
  <2>6. q \in Batch /\ q.recs = full.recs
    BY <1>5, <1>11, <2>3 DEF Batch
  <2> HIDE DEF q
  <2> QED
    BY <1>1, <1>12, <2>3, <2>5, <2>6, SameRecs, GoesToInspect
<1>15. CASE b.turn # "vanished" /\ out.budget # 0
  <2>1. b' = out /\ pc' = "read"
    BY <1>8, <1>15
  <2> QED
    BY <1>1, <1>11, <1>12, <2>1, GoesToPath
<1> QED
  BY <1>13, <1>14, <1>15

LEMMA ReadActiveKept == ASSUME LogInv, NEW idle \in BOOLEAN, ReadActive(idle) PROVE BatchKept
<1> DEFINE rd == ReadLines(FileAt(Path), b.start, b.budget)
           got == FoldInto(b, rd, idle, kind = "family" \/ ~b.read)
           up == ActiveUp(rd, got.pend)
           ups == IF Unchanged(b, rd.end, got.pend) THEN got.ups ELSE Append(got.ups, up)
           q == [got EXCEPT !.ups = ups, !.todo = Tail(got.todo)]
<1>1. pc = "read" /\ b.todo # <<>> /\ next' = next /\ crashes' = crashes /\ pc' = "inspect" /\ FileAt(Path) # NoFile
  BY DEF ReadActive, LogInv, Types, StageOK
<1>2. FileAt(Path) \in Inode
  BY <1>1, FileAtType
<1>3. rd.lines \in Block /\ Len(rd.lines) <= b.budget /\ rd.end \in Nat /\ rd.id \in FileId
  BY <1>2, InvFacts, ReadLinesType
<1>4. Path \in Paths /\ Tail(b.todo) \in Seq(Paths)
  BY <1>1, InvFacts, PathType
<1>5. RecsOK(b)
  BY <1>1, InvFacts DEF Reading
<1>6. b' = [got EXCEPT !.ups = IF Unchanged(b, rd.end, got.pend) THEN @ ELSE Append(@, up), !.todo = Tail(@)]
  BY DEF ReadActive
<1> HIDE DEF rd
<1>7. got \in Batch /\ RecsOK(got) /\ SameFile(got, b)
  <2>1. (kind = "family" \/ ~b.read) \in BOOLEAN
    OBVIOUS
  <2> QED
    BY <1>3, <1>4, <1>5, <2>1, InvFacts, FoldIntoType
<1> HIDE DEF got
<1>8. up \in Up
  <2>1. got.pend \in Pend
    BY <1>7 DEF Batch
  <2> QED
    BY <1>3, <1>4, <2>1, NoPendType DEF ActiveUp, Up
<1>9. b' = q
  BY <1>6, <1>7 DEF Batch
<1> HIDE DEF up
<1>10. ups \in Seq(Up)
  BY <1>7, <1>8 DEF Batch
<1> HIDE DEF ups
<1>11. Tail(got.todo) \in Seq(Paths)
  BY <1>4, <1>7 DEF SameFile
<1>12. q \in Batch /\ q.recs = got.recs
  BY <1>7, <1>10, <1>11 DEF Batch
<1> HIDE DEF q
<1> QED
  BY <1>1, <1>7, <1>9, <1>12, SameRecs, GoesToInspect

LEMMA ReadFailsKept == ASSUME LogInv, ReadFails PROVE BatchKept
<1>1. pc = "read" /\ b.todo # <<>> /\ crashes' = crashes
  BY DEF ReadFails, LogInv, Types, StageOK
<1>2. CASE Idle
  BY <1>2, IdleKept
<1>3. CASE b' = [b EXCEPT !.todo = Tail(@)] /\ pc' = "inspect" /\ next' = next
  <2> DEFINE q == [b EXCEPT !.todo = Tail(b.todo)]
  <2>1. Tail(b.todo) \in Seq(Paths)
    BY <1>1, InvFacts, PathType
  <2>2. q \in Batch /\ q.recs = b.recs /\ b' = q
    BY <1>3, <2>1, InvFacts DEF Batch
  <2> HIDE DEF q
  <2> QED
    BY <1>1, <1>3, <2>2, InvFacts, SameRecs, GoesToInspect DEF Reading
<1> QED
  BY <1>2, <1>3 DEF ReadFails

LEMMA FilesDoneKept == ASSUME LogInv, FilesDone PROVE BatchKept
<1> DEFINE files == IF b.scan THEN Pruned(b.files, b.matched) ELSE b.files
           q == [b EXCEPT !.files = files, !.todo = <<>>]
<1>1. pc = "inspect" /\ pc' = "overflow" /\ next' = next /\ crashes' = crashes
  BY DEF FilesDone
<1>2. b' = q
  BY InvFacts DEF FilesDone, Batch
<1>3. files \in Seq(Entry)
  BY InvFacts, PrunedType
<1>4. <<>> \in Seq(Paths)
  OBVIOUS
<1> HIDE DEF files
<1>5. q \in Batch /\ q.recs = b.recs
  BY <1>3, <1>4, InvFacts DEF Batch
<1> HIDE DEF q
<1> QED
  BY <1>1, <1>2, <1>5, InvFacts, SameRecs, GoesToInspect DEF Reading
-----------------------------------------------------------------------------
(* The invariant is inductive.                                             *)

Checkpoint == [files : Seq(Entry), pend : Pend, scanned : BOOLEAN]

\* A step of the processor, with no frame that was not there before.
LEMMA ProcessorKeeps ==
  ASSUME LogInv, BatchKept, pc \notin {"send", "seq"}, HostTypes', cp' \in Checkpoint,
         seqDisk' = seqDisk, crashes' = crashes, others' = others, kind' = kind,
         spool' \in Seq(Frame), arrived' \cup Frames(spool') \subseteq arrived \cup Frames(spool)
  PROVE  LogInv'
<1>1. /\ DiskTypes /\ NumbersOK /\ LeftOK /\ OneFramePerNumber
  BY DEF LogInv, Types
<1>2. arrived \cup Frames(spool) \subseteq Frame
  BY <1>1 DEF DiskTypes, Frames
<1>3. DiskTypes'
  <2>1. arrived' \subseteq Frame
    BY <1>2
  <2>2. pc' \in Stages /\ next' \in Nat
    BY DEF BatchKept
  <2> QED
    BY <1>1, <2>1, <2>2 DEF DiskTypes, Checkpoint
<1>4. Types'
  BY <1>3 DEF Types, BatchKept
<1>5. NumbersOK'
  BY DEF NumbersOK, BatchKept, Reading
<1>6. LeftOK'
  BY <1>1 DEF LeftOK
<1>7. OneFramePerNumber'
  BY <1>1 DEF OneFramePerNumber
<1> QED
  BY <1>4, <1>5, <1>6, <1>7 DEF LogInv

\* A step of the host.
LEMMA HostKeeps ==
  ASSUME LogInv, HostTypes', UNCHANGED <<cp, seqDisk, spool, arrived, kind, pc, next, b, others, crashes>>
  PROVE  LogInv'
<1>1. Types'
  BY DEF LogInv, Types, DiskTypes, StageOK
<1>2. NumbersOK' /\ LeftOK' /\ OneFramePerNumber'
  BY DEF LogInv, NumbersOK, RecsOK, LeftOK, OneFramePerNumber, Frames
<1> QED
  BY <1>1, <1>2 DEF LogInv

LEMMA FreshType == Fresh \in Block
<1>1. 0 \in Line
  BY LogAssumption DEF Line
<1> QED
  BY <1>1, OneLine DEF Fresh

LEMMA AppendKeeps == ASSUME LogInv, NEW p, Append1(p) PROVE LogInv'
<1>1. /\ FileAt(p) # NoFile /\ written < MaxWritten /\ written' = written + 1
      /\ text' = [text EXCEPT ![FileAt(p)] = Append(@, written + 1)] /\ name' = name
      /\ UNCHANGED <<cp, seqDisk, spool, arrived, kind, pc, next, b, others, crashes>>
  BY DEF Append1, disk, plane
<1>2. FileAt(p) \in Inode
  BY <1>1, FileAtType
<1>3. HostTypes
  BY InvFacts
<1>4. written + 1 \in Line /\ written + 1 \in 0..MaxWritten
  BY <1>1, <1>3, LogAssumption DEF HostTypes, Line
<1>5. Append(text[FileAt(p)], written + 1) \in Block
  BY <1>2, <1>3, <1>4 DEF HostTypes, Block
<1>6. HostTypes'
  BY <1>1, <1>2, <1>3, <1>4, <1>5 DEF HostTypes
<1> QED
  BY <1>1, <1>6, HostKeeps

LEMMA TruncateKeeps == ASSUME LogInv, NEW p, Truncate(p) PROVE LogInv'
<1>1. /\ FileAt(p) # NoFile /\ written' = written /\ name' = name
      /\ text' = [text EXCEPT ![FileAt(p)] = Fresh]
      /\ UNCHANGED <<cp, seqDisk, spool, arrived, kind, pc, next, b, others, crashes>>
  BY DEF Truncate, disk, plane
<1>2. HostTypes'
  BY <1>1, InvFacts, FreshType DEF HostTypes
<1> QED
  BY <1>1, <1>2, HostKeeps

LEMMA RotateKeeps == ASSUME LogInv, NEW c \in Chains, Rotate(c) PROVE LogInv'
<1> DEFINE To(i) == IF \E k \in DOMAIN c : name[i] = c[k]
                    THEN LET k == CHOOSE k \in DOMAIN c : name[i] = c[k]
                         IN IF k < Len(c) THEN c[k + 1] ELSE Gone
                    ELSE name[i]
<1>1. /\ written' = written /\ text' = text /\ name' = [i \in Inode |-> To(i)]
      /\ UNCHANGED <<cp, seqDisk, spool, arrived, kind, pc, next, b, others, crashes>>
  BY DEF Rotate, disk, plane
<1>2. c \in Seq(Paths)
  BY LogAssumption
<1>3. ASSUME NEW i \in Inode PROVE To(i) \in Paths \cup {Gone}
  <2>1. CASE \E k \in DOMAIN c : name[i] = c[k]
    <3> DEFINE k == CHOOSE k \in DOMAIN c : name[i] = c[k]
    <3>1. k \in DOMAIN c
      BY <2>1
    <3>2. To(i) = IF k < Len(c) THEN c[k + 1] ELSE Gone
      BY <2>1
    <3> HIDE DEF k, To
    <3>3. k < Len(c) => c[k + 1] \in Paths
      <4>1. k \in 1..Len(c) /\ Len(c) \in Nat
        BY <1>2, <3>1
      <4>2. k < Len(c) => k + 1 \in 1..Len(c)
        BY <4>1
      <4> QED
        BY <1>2, <4>2
    <3> QED
      BY <3>2, <3>3
  <2>2. CASE ~\E k \in DOMAIN c : name[i] = c[k]
    BY <2>2, InvFacts DEF HostTypes
  <2> QED
    BY <2>1, <2>2
<1> HIDE DEF To
<1>4. HostTypes'
  BY <1>1, <1>3, InvFacts DEF HostTypes
<1> QED
  BY <1>1, <1>4, HostKeeps

LEMMA CreateKeeps == ASSUME LogInv, NEW c \in Chains, NEW i \in Inode, Create(c, i) PROVE LogInv'
<1>1. /\ written' = written /\ name' = [name EXCEPT ![i] = c[1]] /\ text' = [text EXCEPT ![i] = Fresh]
      /\ UNCHANGED <<cp, seqDisk, spool, arrived, kind, pc, next, b, others, crashes>>
  BY DEF Create, disk, plane
<1>2. c[1] \in Paths
  BY LogAssumption
<1>3. HostTypes'
  BY <1>1, <1>2, InvFacts, FreshType DEF HostTypes
<1> QED
  BY <1>1, <1>3, HostKeeps
\* The steps of a tick up to the delivery.
LEMMA CollectKeeps ==
  ASSUME LogInv,
         \/ BeginTick \/ NothingSpooled \/ SourceMissing \/ LoadSingle
         \/ \E scan \in BOOLEAN : ScanFamily(scan)
         \/ InspectFile \/ InspectMissing
         \/ \E idle \in BOOLEAN : DrainRotated(idle) \/ ReadActive(idle)
         \/ ReadFails \/ FilesDone
  PROVE  LogInv'
<1>1. /\ UNCHANGED <<name, text, written, cp, seqDisk, spool, arrived, others, kind, crashes>>
      /\ pc \notin {"send", "seq"}
  BY DEF BeginTick, NothingSpooled, SourceMissing, LoadSingle, ScanFamily, InspectFile, InspectMissing,
         DrainRotated, ReadActive, ReadFails, FilesDone, fs, disk, plane
<1>2. BatchKept
  <2>1. CASE BeginTick
    BY <2>1 DEF BeginTick, BatchKept, LogInv, Types, DiskTypes, StageOK, Stages, Reading
  <2>2. CASE NothingSpooled
    BY <2>2 DEF NothingSpooled, BatchKept, LogInv, Types, DiskTypes, NumbersOK, StageOK, Stages, Reading
  <2>3. CASE SourceMissing
    BY <2>3, IdleKept DEF SourceMissing
  <2> QED
    BY <2>1, <2>2, <2>3, LoadSingleKept, ScanFamilyKept, InspectFileKept, InspectMissingKept,
       DrainRotatedKept, ReadActiveKept, ReadFailsKept, FilesDoneKept
<1>3. HostTypes' /\ cp' \in Checkpoint /\ spool' \in Seq(Frame)
  BY <1>1 DEF LogInv, Types, HostTypes, DiskTypes, Checkpoint
<1>4. arrived' \cup Frames(spool') \subseteq arrived \cup Frames(spool)
  BY <1>1
<1> QED
  BY <1>1, <1>2, <1>3, <1>4, ProcessorKeeps

LEMMA SpoolFacts ==
  ASSUME LogInv
  PROVE  /\ spool \in Seq(Frame) /\ arrived \subseteq Frame /\ cp \in Checkpoint
         /\ seqDisk \in Nat /\ next \in Nat /\ crashes \in Nat /\ others \in Nat
         /\ Frames(spool) \subseteq Frame
<1>1. spool \in Seq(Frame)
  BY DEF LogInv, Types, DiskTypes
<1> QED
  BY <1>1 DEF LogInv, Types, DiskTypes, Checkpoint, Frames

\* The frames of a part of a sequence are frames of it.
LEMMA PartFrames ==
  ASSUME NEW S, NEW s \in Seq(S), NEW k \in 0..Len(s)
  PROVE  Frames(SubSeq(s, 1, k)) \subseteq Frames(s) /\ SubSeq(s, 1, k) \in Seq(S)
<1>1. Len(s) \in Nat /\ DOMAIN s = 1..Len(s) /\ k \in Int /\ 1 \in Int /\ \A i \in 1..k : s[i] \in S
  OBVIOUS
<1>2. /\ SubSeq(s, 1, k) \in Seq(S)
      /\ Len(SubSeq(s, 1, k)) = IF 1 <= k THEN k - 1 + 1 ELSE 0
      /\ \A i \in 1 .. k - 1 + 1 : SubSeq(s, 1, k)[i] = s[1 + i - 1]
  BY <1>1, SubSeqProperties
<1>3. ASSUME NEW i \in DOMAIN SubSeq(s, 1, k) PROVE i \in DOMAIN s /\ SubSeq(s, 1, k)[i] = s[i]
  <2>1. DOMAIN SubSeq(s, 1, k) = 1..Len(SubSeq(s, 1, k))
    BY <1>2
  <2>2. i \in 1..k /\ i \in 1 .. k - 1 + 1 /\ 1 + i - 1 = i
    BY <1>1, <1>2, <2>1
  <2> QED
    BY <1>1, <1>2, <2>2
<1> QED
  BY <1>2, <1>3 DEF Frames

LEMMA ReplayKeeps == ASSUME LogInv, ReplaySpool \/ ReplayFails PROVE LogInv'
<1>1. UNCHANGED <<name, text, written, cp, seqDisk, others, kind, crashes, b>> /\ pc = "tick"
  BY DEF ReplaySpool, ReplayFails, fs, disk
<1>2. BatchKept
  <2>1. CASE ReplaySpool
    BY <2>1 DEF ReplaySpool, BatchKept, LogInv, Types, DiskTypes, NumbersOK, StageOK, Stages, Reading
  <2>2. CASE ReplayFails
    BY <2>2 DEF ReplayFails, BatchKept, LogInv, Types, DiskTypes, StageOK, Stages, Reading
  <2> QED
    BY <2>1, <2>2
<1>3. HostTypes' /\ cp' \in Checkpoint
  BY <1>1 DEF LogInv, Types, HostTypes, DiskTypes, Checkpoint
<1>4. spool' \in Seq(Frame) /\ arrived' \cup Frames(spool') \subseteq arrived \cup Frames(spool)
  <2>1. CASE ReplaySpool
    <3>1. spool' = <<>> /\ arrived' = arrived \cup Frames(spool)
      BY <2>1 DEF ReplaySpool
    <3>2. Frames(<<>>) = {}
      BY DEF Frames
    <3> QED
      BY <3>1, <3>2
  <2>2. CASE ReplayFails
    <3>1. spool' = spool
      BY <2>2 DEF ReplayFails, disk
    <3>2. PICK k \in 0..Len(spool) : arrived' = arrived \cup Frames(SubSeq(spool, 1, k))
      BY <2>2 DEF ReplayFails
    <3>3. Frames(SubSeq(spool, 1, k)) \subseteq Frames(spool)
      BY SpoolFacts, PartFrames
    <3> QED
      BY <3>1, <3>2, <3>3, SpoolFacts
  <2> QED
    BY <2>1, <2>2
<1> QED
  BY <1>1, <1>2, <1>3, <1>4, ProcessorKeeps

LEMMA CommitKeeps == ASSUME LogInv, NEW again \in BOOLEAN, CommitState(again) PROVE LogInv'
<1>1. UNCHANGED <<name, text, written, seqDisk, spool, arrived, others, kind, crashes>> /\ pc = "commit" /\ b' = NoBatch
  BY DEF CommitState, fs, plane
<1>2. BatchKept
  <2>1. next \in Nat /\ next = seqDisk
    BY <1>1 DEF LogInv, Types, DiskTypes, NumbersOK
  <2>2. /\ pc' = IF again THEN "tick" ELSE "idle"
        /\ next' = IF again THEN next ELSE 0
    BY DEF CommitState
  <2> QED
    BY <1>1, <2>1, <2>2, NoBatchType DEF BatchKept, StageOK, Stages, Reading
<1>3. HostTypes' /\ spool' \in Seq(Frame)
  BY <1>1 DEF LogInv, Types, HostTypes, DiskTypes
<1>4. cp' \in Checkpoint
  <2> DEFINE files == Committed(b.files, b.ups)
             pend == IF kind = "single" THEN b.pend ELSE NoPending
             scanned == cp.scanned \/ b.scan
  <2>1. cp' = [files |-> files, pend |-> pend, scanned |-> scanned]
    BY DEF CommitState
  <2>2. files \in Seq(Entry) /\ pend \in Pend
    BY InvFacts, CommittedType, NoPendType
  <2>3. scanned \in BOOLEAN
    OBVIOUS
  <2> HIDE DEF files, pend, scanned
  <2> QED
    BY <2>1, <2>2, <2>3 DEF Checkpoint
<1>5. arrived' \cup Frames(spool') \subseteq arrived \cup Frames(spool)
  BY <1>1
<1> QED
  BY <1>1, <1>2, <1>3, <1>4, <1>5, ProcessorKeeps

\* Frames of the batch in hand leave.
LEMMA BatchLeaves ==
  ASSUME LogInv, pc \in {"overflow", "send"}, pc' \in {"send", "seq", "commit"},
         pc' = "commit" => Frames(b.recs) = {},
         UNCHANGED <<name, text, written, cp, seqDisk, others, kind, crashes, next>>,
         b' \in Batch, b'.recs = b.recs,
         spool' \in Seq(Frame),
         arrived' \cup Frames(spool') \subseteq arrived \cup Frames(spool) \cup Frames(b.recs)
  PROVE  LogInv'
<1>1. DiskTypes /\ NumbersOK /\ LeftOK /\ OneFramePerNumber /\ HostTypes /\ b \in Batch
  BY DEF LogInv, Types
<1>2. RecsOK(b) /\ next = seqDisk /\ b.recs \in Seq(Record) /\ next \in Nat /\ crashes \in Nat
  BY <1>1 DEF NumbersOK, Batch, DiskTypes
<1>3. ASSUME NEW f \in Frames(b.recs)
      PROVE  f \in Frame /\ f.life = crashes /\ f.no >= seqDisk /\ f.no \in Nat
  <2>1. PICK k \in DOMAIN b.recs : f = b.recs[k]
    BY DEF Frames
  <2>2. f \in Record /\ k \in Nat /\ k >= 1
    BY <1>2, <2>1
  <2>3. f.body \in Seq(Nat)
    <3>1. f.body \in Seq(Line) /\ Line \subseteq Nat
      BY <2>2 DEF Record, Block, Line
    <3> QED
      BY <3>1, SeqMonotonic
  <2>4. f \in Frame
    BY <2>2, <2>3 DEF Record, Frame
  <2>5. f.no = next + k - 1 /\ f.life = crashes
    BY <1>2, <2>1 DEF RecsOK
  <2> QED
    BY <1>2, <2>2, <2>4, <2>5 DEF Record
<1>4. \A f, g \in Frames(b.recs) : f.no = g.no => f = g
  <2> SUFFICES ASSUME NEW k \in DOMAIN b.recs, NEW l \in DOMAIN b.recs, b.recs[k].no = b.recs[l].no
               PROVE  k = l
    BY DEF Frames
  <2>1. b.recs[k].no = next + k - 1 /\ b.recs[l].no = next + l - 1
    BY <1>2 DEF RecsOK
  <2>2. k \in Nat /\ l \in Nat
    BY <1>2
  <2>3. next + k - 1 = next + l - 1
    BY <2>1
  <2>4. \A n, i, j \in Nat : n + i - 1 = n + j - 1 => i = j
    OBVIOUS
  <2> QED
    BY <1>2, <2>2, <2>3, <2>4
<1>5. arrived \cup Frames(spool) \subseteq Frame
  BY SpoolFacts
<1>6. Types'
  <2>1. arrived' \subseteq Frame
    BY <1>3, <1>5
  <2>2. DiskTypes'
    BY <1>1, <2>1 DEF DiskTypes, Stages
  <2>3. HostTypes'
    BY <1>1 DEF HostTypes
  <2> QED
    BY <2>2, <2>3 DEF Types, StageOK
<1>7. NumbersOK'
  BY <1>1, <1>2 DEF NumbersOK, RecsOK
<1>8. LeftOK'
  <2> SUFFICES ASSUME NEW f \in arrived' \cup Frames(spool')
               PROVE  /\ f.life <= crashes
                      /\ f.life = crashes => f.no < seqDisk \/ (pc' \in {"send", "seq"} /\ f \in Frames(b.recs))
    BY DEF LeftOK, Frames
  <2>1. CASE f \in Frames(b.recs)
    BY <1>2, <1>3, <2>1
  <2>2. CASE f \notin Frames(b.recs)
    BY <1>1, <2>2 DEF LeftOK
  <2> QED
    BY <2>1, <2>2
<1>9. OneFramePerNumber'
  <2> SUFFICES ASSUME NEW f \in arrived' \cup Frames(spool'), NEW g \in arrived' \cup Frames(spool'),
                      f.no = g.no, f.life = g.life
               PROVE  f.body = g.body
    BY DEF OneFramePerNumber
  <2>1. f \in Frame /\ g \in Frame
    BY <1>3, <1>5
  <2>2. f.no \in Nat /\ g.no \in Nat /\ seqDisk \in Nat
    BY <1>1, <2>1 DEF Frame, DiskTypes
  <2>3. CASE f \in Frames(b.recs) /\ g \in Frames(b.recs)
    BY <1>4, <2>3
  <2>4. CASE f \in Frames(b.recs) /\ g \notin Frames(b.recs)
    <3>1. g.life = crashes /\ g.no >= seqDisk
      BY <1>3, <2>4
    <3>2. g.no < seqDisk
      BY <1>1, <2>4, <3>1 DEF LeftOK
    <3> QED
      BY <2>2, <3>1, <3>2
  <2>5. CASE f \notin Frames(b.recs) /\ g \in Frames(b.recs)
    <3>1. f.life = crashes /\ f.no >= seqDisk
      BY <1>3, <2>5
    <3>2. f.no < seqDisk
      BY <1>1, <2>5, <3>1 DEF LeftOK
    <3> QED
      BY <2>2, <3>1, <3>2
  <2>6. CASE f \notin Frames(b.recs) /\ g \notin Frames(b.recs)
    BY <1>1, <2>6 DEF OneFramePerNumber
  <2> QED
    BY <2>3, <2>4, <2>5, <2>6
<1> QED
  BY <1>6, <1>7, <1>8, <1>9 DEF LogInv
LEMMA RecordsAreFrames == ASSUME NEW s \in Seq(Record) PROVE s \in Seq(Frame)
<1>1. Line \subseteq Nat
  BY DEF Line
<1>2. ASSUME NEW f \in Record PROVE f \in Frame
  <2>1. f.body \in Seq(Nat)
    BY <1>1, SeqMonotonic DEF Record, Block
  <2> QED
    BY <2>1 DEF Record, Frame
<1>3. Record \subseteq Frame
  BY <1>2
<1> QED
  BY <1>3, SeqMonotonic

LEMMA JoinedFrames ==
  ASSUME NEW s \in Seq(Frame), NEW t \in Seq(Frame)
  PROVE  s \o t \in Seq(Frame) /\ Frames(s \o t) \subseteq Frames(s) \cup Frames(t)
<1>1. /\ s \o t \in Seq(Frame) /\ Len(s \o t) = Len(s) + Len(t)
      /\ \A i \in 1 .. Len(s) + Len(t) : (s \o t)[i] = IF i <= Len(s) THEN s[i] ELSE t[i - Len(s)]
  BY ConcatProperties
<1>2. Len(s) \in Nat /\ Len(t) \in Nat /\ DOMAIN s = 1..Len(s) /\ DOMAIN t = 1..Len(t)
  OBVIOUS
<1>3. ASSUME NEW i \in DOMAIN (s \o t) PROVE (s \o t)[i] \in Frames(s) \cup Frames(t)
  <2>1. i \in 1..(Len(s) + Len(t))
    BY <1>1
  <2>2. CASE i <= Len(s)
    <3>1. i \in DOMAIN s /\ (s \o t)[i] = s[i]
      BY <1>1, <1>2, <2>1, <2>2
    <3> QED
      BY <3>1 DEF Frames
  <2>3. CASE ~(i <= Len(s))
    <3>1. i - Len(s) \in DOMAIN t
      BY <1>2, <2>1, <2>3
    <3>2. (s \o t)[i] = t[i - Len(s)]
      BY <1>1, <2>1, <2>3
    <3> QED
      BY <3>1, <3>2 DEF Frames
  <2> QED
    BY <2>2, <2>3
<1> QED
  BY <1>1, <1>3 DEF Frames

\* What fits in memory and what does not are records of the batch.
LEMMA StagedType ==
  ASSUME LogInv
  PROVE  /\ Staged \in Seq(Frame) /\ Frames(Staged) \subseteq Frames(b.recs)
         /\ Overflowed \in Seq(Frame) /\ Frames(Overflowed) \subseteq Frames(b.recs)
<1> DEFINE s == b.recs
           n == Len(b.recs)
<1>1. s \in Seq(Record) /\ n \in Nat /\ DOMAIN s = 1..n /\ Room \in Nat
  BY InvFacts, LogAssumption DEF Batch
<1>2. Upto(s, Room) \in Seq(Record) /\ \A k \in DOMAIN Upto(s, Room) : k \in DOMAIN s /\ Upto(s, Room)[k] = s[k]
  BY <1>1, UptoType
<1>3. Staged \in Seq(Frame) /\ Frames(Staged) \subseteq Frames(b.recs)
  BY <1>2, RecordsAreFrames DEF Staged, Frames
<1> DEFINE t == SubSeq(s, Room + 1, n)
<1>4. Overflowed = t
  BY DEF Overflowed
<1> HIDE DEF s, n
<1>5. Room + 1 \in Int /\ n \in Int /\ \A i \in (Room + 1)..n : s[i] \in Record
  BY <1>1
<1>6. /\ t \in Seq(Record) /\ Len(t) = IF Room + 1 <= n THEN n - (Room + 1) + 1 ELSE 0
      /\ \A i \in 1 .. n - (Room + 1) + 1 : t[i] = s[(Room + 1) + i - 1]
  BY <1>5, SubSeqProperties
<1> HIDE DEF t
<1>7. ASSUME NEW i \in DOMAIN t PROVE t[i] \in Frames(s)
  <2>1. DOMAIN t = 1..Len(t)
    BY <1>6
  <2>2. i \in 1 .. n - (Room + 1) + 1 /\ (Room + 1) + i - 1 \in DOMAIN s
    BY <1>1, <1>6, <2>1
  <2> QED
    BY <1>6, <2>2 DEF Frames
<1>8. t \in Seq(Frame) /\ Frames(t) \subseteq Frames(s)
  BY <1>6, <1>7, RecordsAreFrames DEF Frames
<1> QED
  BY <1>3, <1>4, <1>8 DEF s

LEMMA DeliverKeeps == ASSUME LogInv, SpoolOverflow \/ SendStaged \/ SendFails PROVE LogInv'
<1>1. /\ UNCHANGED <<name, text, written, cp, seqDisk, others, kind, crashes, next>>
      /\ pc \in {"overflow", "send"} /\ pc' \in {"send", "seq", "commit"}
  BY DEF SpoolOverflow, SendStaged, SendFails, AfterSend, fs, disk, plane
<1>2. pc' = "commit" => b.recs = <<>>
  BY DEF SpoolOverflow, SendStaged, SendFails, AfterSend
<1>3. Frames(<<>>) = {}
  BY DEF Frames
<1>4. b' \in Batch /\ b'.recs = b.recs
  <2>1. b' = b \/ b' = [b EXCEPT !.err = TRUE]
    BY DEF SpoolOverflow, SendStaged, SendFails
  <2> QED
    BY <2>1, InvFacts DEF Batch
<1>5. spool' \in Seq(Frame) /\ arrived' \cup Frames(spool') \subseteq arrived \cup Frames(spool) \cup Frames(b.recs)
  <2>1. CASE SpoolOverflow
    <3>1. spool' = spool \o Overflowed /\ arrived' = arrived
      BY <2>1 DEF SpoolOverflow, plane
    <3> QED
      BY <3>1, SpoolFacts, StagedType, JoinedFrames
  <2>2. CASE SendStaged
    <3>1. spool' = spool /\ arrived' = arrived \cup Frames(Staged)
      BY <2>2 DEF SendStaged, disk
    <3> QED
      BY <3>1, SpoolFacts, StagedType
  <2>3. CASE SendFails
    <3>1. spool' = spool \o Staged
      BY <2>3 DEF SendFails
    <3>2. PICK k \in 0..Len(Staged) : arrived' = arrived \cup Frames(SubSeq(Staged, 1, k))
      BY <2>3 DEF SendFails
    <3>3. Frames(SubSeq(Staged, 1, k)) \subseteq Frames(Staged)
      BY StagedType, PartFrames
    <3> QED
      BY <3>1, <3>2, <3>3, SpoolFacts, StagedType, JoinedFrames
  <2> QED
    BY <2>1, <2>2, <2>3
<1> QED
  BY <1>1, <1>2, <1>3, <1>4, <1>5, BatchLeaves

\* The numbers of the batch are stored: its frames are below the stored number.
LEMMA StoreKeeps == ASSUME LogInv, StoreSeq PROVE LogInv'
<1>1. /\ pc = "seq" /\ next' = next + Len(b.recs) /\ seqDisk' = next + Len(b.recs) /\ pc' = "commit"
      /\ UNCHANGED <<name, text, written, cp, spool, arrived, others, kind, b, crashes>>
  BY DEF StoreSeq, fs, plane
<1>2. /\ RecsOK(b) /\ next = seqDisk /\ b.recs \in Seq(Record) /\ next \in Nat /\ crashes \in Nat
      /\ Len(b.recs) \in Nat /\ DOMAIN b.recs = 1..Len(b.recs)
  BY <1>1 DEF LogInv, Types, NumbersOK, Batch, DiskTypes
<1>3. seqDisk' \in Nat /\ next' = seqDisk' /\ seqDisk <= seqDisk'
  BY <1>1, <1>2
<1>4. Types'
  <2>1. DiskTypes'
    BY <1>1, <1>3 DEF LogInv, Types, DiskTypes, Stages
  <2>2. HostTypes'
    BY <1>1 DEF LogInv, Types, HostTypes
  <2> QED
    BY <1>1, <2>1, <2>2 DEF LogInv, Types, StageOK
<1>5. NumbersOK'
  BY <1>1, <1>3 DEF NumbersOK
<1>6. LeftOK'
  <2> SUFFICES ASSUME NEW f \in arrived \cup Frames(spool)
               PROVE  f.life <= crashes /\ (f.life = crashes => f.no < seqDisk')
    BY <1>1 DEF LeftOK, Frames
  <2>1. f.life <= crashes /\ (f.life = crashes => f.no < seqDisk \/ f \in Frames(b.recs))
    BY DEF LogInv, LeftOK
  <2>2. f.no \in Nat
    BY SpoolFacts DEF Frame
  <2>3. CASE f \in Frames(b.recs)
    <3>1. PICK k \in DOMAIN b.recs : f = b.recs[k]
      BY <2>3 DEF Frames
    <3>2. f.no = next + k - 1 /\ k \in 1..Len(b.recs)
      BY <1>2, <3>1 DEF RecsOK
    <3>3. f.no < next + Len(b.recs)
      BY <1>2, <3>2
    <3> QED
      BY <1>1, <2>1, <3>3
  <2>4. CASE f \notin Frames(b.recs)
    BY <1>2, <1>3, <2>1, <2>2, <2>4
  <2> QED
    BY <2>3, <2>4
<1>7. OneFramePerNumber'
  BY <1>1 DEF LogInv, OneFramePerNumber, Frames
<1> QED
  BY <1>4, <1>5, <1>6, <1>7 DEF LogInv

\* A frame of other origin takes the stored number, and the next is stored.
LEMMA OtherKeeps == ASSUME LogInv, OtherFrame \/ InvestigationFrame PROVE LogInv'
<1> DEFINE f0 == [no |-> seqDisk, body |-> <<MaxWritten + others + 1>>, life |-> crashes]
<1>0. DiskTypes /\ NumbersOK /\ LeftOK /\ OneFramePerNumber
  BY DEF LogInv, Types
<1>1. /\ pc \in {"idle", "tick"} /\ others' = others + 1 /\ arrived' = arrived \cup {f0}
      /\ seqDisk' = seqDisk + 1 /\ (next' = seqDisk' \/ (pc = "idle" /\ next' = next))
      /\ UNCHANGED <<name, text, written, cp, spool, kind, pc, b, crashes>>
  BY <1>0 DEF OtherFrame, InvestigationFrame, NumbersOK, fs
<1>2. seqDisk \in Nat /\ seqDisk' \in Nat /\ next' \in Nat /\ others' \in Nat /\ crashes \in Nat
  BY <1>0, <1>1 DEF DiskTypes
<1>3. f0 \in Frame /\ f0.no = seqDisk /\ f0.life = crashes
  <2>1. MaxWritten + others + 1 \in Nat
    BY <1>0, LogAssumption DEF DiskTypes
  <2> QED
    BY <1>2, <2>1 DEF Frame
<1> HIDE DEF f0
<1>4. Types'
  <2>1. DiskTypes'
    BY <1>0, <1>1, <1>2, <1>3 DEF DiskTypes
  <2>2. HostTypes'
    BY <1>1 DEF LogInv, Types, HostTypes
  <2> QED
    BY <1>1, <2>1, <2>2 DEF LogInv, Types, StageOK
<1>5. NumbersOK'
  BY <1>1 DEF NumbersOK
<1>6. \A f \in arrived \cup Frames(spool) : f.no \in Nat /\ f.life <= crashes /\ (f.life = crashes => f.no < seqDisk)
  BY <1>0, <1>1, SpoolFacts DEF LeftOK, Frame
<1>7. LeftOK'
  <2> SUFFICES ASSUME NEW f \in arrived \cup {f0} \cup Frames(spool)
               PROVE  f.life <= crashes /\ (f.life = crashes => f.no < seqDisk')
    BY <1>1 DEF LeftOK, Frames
  <2>1. CASE f = f0
    BY <1>1, <1>2, <1>3, <2>1
  <2>2. CASE f # f0
    BY <1>1, <1>2, <1>6, <2>2
  <2> QED
    BY <2>1, <2>2
<1>8. OneFramePerNumber'
  <2> SUFFICES ASSUME NEW f \in arrived \cup {f0} \cup Frames(spool), NEW g \in arrived \cup {f0} \cup Frames(spool),
                      f.no = g.no, f.life = g.life
               PROVE  f.body = g.body
    BY <1>1 DEF OneFramePerNumber, Frames
  <2>1. CASE f = f0 /\ g # f0
    BY <1>2, <1>3, <1>6, <2>1
  <2>2. CASE f # f0 /\ g = f0
    BY <1>2, <1>3, <1>6, <2>2
  <2>3. CASE f # f0 /\ g # f0
    BY <1>0, <2>3 DEF OneFramePerNumber
  <2> QED
    BY <2>1, <2>2, <2>3
<1> QED
  BY <1>4, <1>5, <1>7, <1>8 DEF LogInv

\* After a crash every frame is of an earlier life.
LEMMA CrashKeeps == ASSUME LogInv, Crash PROVE LogInv'
<1>1. /\ crashes' = crashes + 1 /\ pc' = "idle" /\ next' = 0 /\ b' = NoBatch
      /\ UNCHANGED <<name, text, written, cp, seqDisk, spool, arrived, others, kind>>
  BY DEF Crash, Idle, fs, disk, plane
<1>2. crashes \in Nat
  BY DEF LogInv, Types, DiskTypes
<1>3. Types'
  <2>1. DiskTypes'
    BY <1>1, <1>2 DEF LogInv, Types, DiskTypes, Stages
  <2>2. HostTypes'
    BY <1>1 DEF LogInv, Types, HostTypes
  <2> QED
    BY <1>1, <2>1, <2>2, NoBatchType DEF Types, StageOK
<1>4. NumbersOK'
  BY <1>1 DEF NumbersOK
<1>5. LeftOK'
  <2> SUFFICES ASSUME NEW f \in arrived \cup Frames(spool)
               PROVE  f.life <= crashes' /\ f.life # crashes'
    BY <1>1 DEF LeftOK, Frames
  <2>1. f.life \in Nat
    BY SpoolFacts DEF Frame
  <2>2. f.life <= crashes
    BY DEF LogInv, LeftOK
  <2> QED
    BY <1>1, <1>2, <2>1, <2>2
<1>6. OneFramePerNumber'
  BY <1>1 DEF LogInv, OneFramePerNumber, Frames
<1> QED
  BY <1>3, <1>4, <1>5, <1>6 DEF LogInv

LEMMA StartsOK == ASSUME Init PROVE LogInv
<1>1. Sources \subseteq Paths
  BY LogAssumption DEF Sources
<1>2. name \in [Inode -> Paths \cup {Gone}]
  <2>1. PICK f \in [Sources -> Inode] :
          name = [i \in Inode |-> IF \E p \in Sources : f[p] = i THEN CHOOSE p \in Sources : f[p] = i ELSE Gone]
    BY DEF Init
  <2>2. \A i \in Inode : (IF \E p \in Sources : f[p] = i THEN CHOOSE p \in Sources : f[p] = i ELSE Gone) \in Paths \cup {Gone}
    BY <1>1
  <2> QED
    BY <2>1, <2>2
<1>3. HostTypes
  <2>1. text \in [Inode -> Block]
    BY FreshType DEF Init, Block
  <2>2. written \in 0..MaxWritten
    BY LogAssumption DEF Init
  <2> QED
    BY <1>2, <2>1, <2>2 DEF HostTypes
<1>4. DiskTypes
  <2>1. cp \in [files : Seq(Entry), pend : Pend, scanned : BOOLEAN]
    <3>1. <<>> \in Seq(Entry)
      OBVIOUS
    <3> QED
      BY <3>1, NoPendType DEF Init
  <2>2. spool \in Seq(Frame)
    BY DEF Init
  <2>3. kind \in {"single", "family"}
    BY LogAssumption DEF Init
  <2> QED
    BY <2>1, <2>2, <2>3 DEF Init, DiskTypes, Stages
<1>5. Types
  BY <1>3, <1>4, NoBatchType DEF Types, Init, StageOK
<1>6. arrived \cup Frames(spool) = {}
  BY DEF Init, Frames
<1> QED
  BY <1>5, <1>6 DEF LogInv, Init, NumbersOK, LeftOK, OneFramePerNumber

LEMMA StepKeeps == ASSUME LogInv, [Next]_vars PROVE LogInv'
<1>1. CASE UNCHANGED vars
  <2>1. HostTypes'
    BY <1>1, InvFacts DEF HostTypes, vars
  <2> QED
    BY <1>1, <2>1, HostKeeps DEF vars
<1>2. CASE Daemon
  BY <1>2, CollectKeeps, ReplayKeeps, DeliverKeeps, StoreKeeps, CommitKeeps DEF Daemon
<1>3. CASE Environment
  BY <1>3, AppendKeeps, TruncateKeeps, RotateKeeps, CreateKeeps, OtherKeeps, ReplayKeeps, DeliverKeeps, CrashKeeps DEF Environment
<1> QED
  BY <1>1, <1>2, <1>3 DEF Next

\* The invariant of the log input.
LEMMA InvHolds == Spec => []LogInv
BY StartsOK, StepKeeps, PTL DEF Spec

\* The files, the checkpoint and the frames hold the values the code can give them.
THEOREM TypeCorrect == Spec => []TypeOK
<1>1. LogInv => TypeOK
  <2> SUFFICES ASSUME LogInv PROVE TypeOK
    OBVIOUS
  <2>1. \A f \in arrived \cup Frames(spool) : f.no \in Nat
    BY SpoolFacts DEF Frame
  <2> QED
    BY <2>1 DEF LogInv, Types, HostTypes, DiskTypes, TypeOK, Block
<1> QED
  BY <1>1, InvHolds, PTL

\* In one life of the daemon a sequence number names one frame, whatever fails to be sent,
\* is spooled, replayed or written by others, and wherever the daemon crashes: the data
\* plane, which drops a second frame with a number it has seen, loses nothing by it.
THEOREM OneFramePerNumberHolds == Spec => []OneFramePerNumber
<1>1. LogInv => OneFramePerNumber
  BY DEF LogInv
<1> QED
  BY <1>1, InvHolds, PTL

=============================================================================
