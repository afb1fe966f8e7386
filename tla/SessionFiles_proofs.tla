------------------------ MODULE SessionFiles_proofs ------------------------
(***************************************************************************)
(* Proofs about SessionFiles, for any number of children, dates, boots,    *)
(* files and numbers, and for any wrap of the vehicle's clock.             *)
(* The invariant relates the lists of files to the writers: whose files    *)
(* there are and with which numbers (Past, PairedIn, Below, OwnTlog,       *)
(* OwnBin), in which order they were written and what the quota pass has   *)
(* still to unlink (Listing, Listed, Spares), and what the writers and the *)
(* vehicle's reports have to do with each other (Child, ActiveOwn,         *)
(* Reports, OneBoot).                                                      *)
(***************************************************************************)
EXTENDS SessionFiles, SequenceTheorems, WellFoundedInduction, TLAPS

----------------------------------------------------------------------------
(* Lists of files *)

\* A path is on a list once.
Unique(fs) == \A i, j \in DOMAIN fs : i # j => fs[i].path # fs[j].path
\* The files of c are the ones that were written last.
OwnLast(fs, c) == \A i, j \in DOMAIN fs : i < j /\ fs[i].owner = c => fs[j].owner = c
\* What the disk is, for the child or its predecessors.
Listing(fs, c) == fs \in Seq(FileType) /\ Unique(fs) /\ OwnLast(fs, c)

\* What the constants are, in the form that the steps need.
LEMMA Constants ==
  /\ Wrap \in Nat \ {0} /\ Back \in Nat \ {0} /\ Back < Wrap
  /\ MaxDay \in Nat /\ MaxChildren \in Nat /\ MaxBoot \in Nat \ {0} /\ MaxUp \in Nat /\ MaxN \in Nat
BY ClockAssumption, BoundsAssumption

\* A path's date, number and kind.
LEMMA PathParts ==
  ASSUME NEW p \in PathType
  PROVE  /\ p[1] \in 0..MaxDay /\ p[2] \in 1..MaxN /\ p[3] \in Kinds
         /\ p = Path(p[1], p[2], p[3]) /\ p # NoFile
<1>1. PICK d \in 0..MaxDay, m \in 1..MaxN, kind \in Kinds : p = <<d, m, kind>>
  BY DEF PathType
<1>2. p[1] = d /\ p[2] = m /\ p[3] = kind
  BY <1>1
<1>3. p # NoFile
  BY <1>1 DEF NoFile
<1> QED BY <1>1, <1>2, <1>3 DEF Path

\* The path that TlogWriter::open() and BinlogWriter::open() make.
LEMMA PathMade ==
  ASSUME NEW d \in 0..MaxDay, NEW m \in 1..MaxN, NEW kind \in Kinds
  PROVE  /\ Path(d, m, kind) \in PathType /\ Path(d, m, kind) # NoFile
         /\ Path(d, m, kind)[1] = d /\ Path(d, m, kind)[2] = m /\ Path(d, m, kind)[3] = kind
BY DEF PathType, Path, NoFile

\* A file's fields.
LEMMA FileParts ==
  ASSUME NEW f \in FileType
  PROVE  f.path \in PathType /\ f.owner \in 1..MaxChildren /\ f.boots \subseteq 1..MaxBoot
BY DEF FileType

\* What RemoveAt leaves.
LEMMA RemoveAtParts ==
  ASSUME NEW S, NEW s \in Seq(S), NEW i \in 1..Len(s)
  PROVE  /\ RemoveAt(s, i) \in Seq(S) /\ Len(RemoveAt(s, i)) = Len(s) - 1
         /\ \A j \in 1..(Len(s) - 1) : RemoveAt(s, i)[j] = IF j < i THEN s[j] ELSE s[j + 1]
<1> DEFINE a == SubSeq(s, 1, i - 1)
           b == SubSeq(s, i + 1, Len(s))
<1>0. Len(s) \in Nat /\ \A j \in 1..Len(s) : s[j] \in S
  OBVIOUS
<1>1. a \in Seq(S) /\ Len(a) = i - 1 /\ \A j \in 1..(i - 1) : a[j] = s[j]
  BY <1>0, SubSeqProperties
<1>2. b \in Seq(S) /\ Len(b) = Len(s) - i /\ \A j \in 1..(Len(s) - i) : b[j] = s[i + j]
  BY <1>0, SubSeqProperties
<1>3. RemoveAt(s, i) = a \o b
  BY DEF RemoveAt
<1> HIDE DEF a, b
<1>4. Len(a \o b) = Len(s) - 1 /\ a \o b \in Seq(S)
  <2>1. Len(a \o b) = Len(a) + Len(b) /\ a \o b \in Seq(S)
    BY <1>1, <1>2, ConcatProperties
  <2> QED BY <2>1, <1>0, <1>1, <1>2
<1>5. ASSUME NEW j \in 1..(Len(s) - 1)
      PROVE  (a \o b)[j] = IF j < i THEN s[j] ELSE s[j + 1]
  <2>1. (a \o b)[j] = IF j <= Len(a) THEN a[j] ELSE b[j - Len(a)]
    BY <1>0, <1>1, <1>2, ConcatProperties
  <2> QED BY <2>1, <1>0, <1>1, <1>2
<1> QED BY <1>3, <1>4, <1>5

\* A path is on a list when a file there has it, and The() is that file.
LEMMA HasFile ==
  ASSUME NEW fs \in Seq(FileType), Unique(fs), NEW path
  PROVE  /\ Has(fs, path) <=> \E f \in ToSet(fs) : f.path = path
         /\ Has(fs, path) => /\ Place(fs, path) \in 1..Len(fs)
                             /\ The(fs, path) \in ToSet(fs) /\ The(fs, path).path = path
         /\ \A f \in ToSet(fs) : f.path = path => f = The(fs, path)
<1>1. ToSet(fs) = {fs[i] : i \in DOMAIN fs} /\ DOMAIN fs = 1..Len(fs)
  BY DEF ToSet
<1>2. Has(fs, path) => Place(fs, path) \in DOMAIN fs /\ fs[Place(fs, path)].path = path
  BY DEF Has, Place
<1>3. Has(fs, path) <=> \E f \in ToSet(fs) : f.path = path
  BY <1>1 DEF Has
<1>4. ASSUME NEW f \in ToSet(fs), f.path = path PROVE f = The(fs, path)
  <2>1. PICK i \in DOMAIN fs : f = fs[i]
    BY <1>1
  <2>2. Place(fs, path) \in DOMAIN fs /\ fs[Place(fs, path)].path = path
    BY <1>2, <1>3, <1>4
  <2> QED BY <1>4, <2>1, <2>2 DEF Unique, The
<1> QED BY <1>1, <1>2, <1>3, <1>4 DEF The

\* Taking a path off a list keeps the other files in their order.
LEMMA OthersListing ==
  ASSUME NEW c, NEW fs, Listing(fs, c), NEW path
  PROVE  /\ Listing(Others(fs, path), c)
         /\ ToSet(Others(fs, path)) = {f \in ToSet(fs) : f.path # path}
<1>0. fs \in Seq(FileType) /\ Unique(fs) /\ OwnLast(fs, c)
  BY DEF Listing
<1>1. CASE ~Has(fs, path)
  <2>1. \A f \in ToSet(fs) : f.path # path
    BY <1>0, <1>1, HasFile
  <2> QED BY <1>0, <1>1, <2>1 DEF Others, Listing
<1>2. CASE Has(fs, path)
  <2> DEFINE p == Place(fs, path)
             r == RemoveAt(fs, p)
  <2>1. p \in 1..Len(fs) /\ fs[p].path = path
    BY <1>0, <1>2, HasFile DEF The
  <2>2. Others(fs, path) = r
    BY <1>2 DEF Others
  <2> HIDE DEF p
  <2>3. /\ r \in Seq(FileType) /\ Len(r) = Len(fs) - 1 /\ Len(fs) \in Nat
        /\ \A j \in 1..(Len(fs) - 1) : r[j] = IF j < p THEN fs[j] ELSE fs[j + 1]
    BY <1>0, <2>1, RemoveAtParts
  <2> HIDE DEF r
  <2>4. DOMAIN r = 1..(Len(fs) - 1) /\ DOMAIN fs = 1..Len(fs)
    BY <1>0, <2>3
  <2> DEFINE at(j) == IF j < p THEN j ELSE j + 1
  <2>5. ASSUME NEW j \in DOMAIN r
        PROVE  at(j) \in DOMAIN fs /\ at(j) # p /\ r[j] = fs[at(j)]
    BY <2>1, <2>3, <2>4
  <2>6. \A i, j \in DOMAIN r : i < j => at(i) < at(j)
    BY <2>1, <2>4
  <2>7. \A i, j \in DOMAIN r : i # j => at(i) # at(j)
    BY <2>1, <2>4
  <2>8. ASSUME NEW k \in DOMAIN fs, k # p PROVE \E j \in DOMAIN r : at(j) = k
    <3>1. CASE k < p
      BY <2>1, <2>3, <2>4, <3>1
    <3>2. CASE k > p
      <4>1. k - 1 \in DOMAIN r /\ at(k - 1) = k
        BY <2>1, <2>3, <2>4, <3>2
      <4> QED BY <4>1
    <3> QED BY <2>1, <2>4, <2>8, <3>1, <3>2
  <2> HIDE DEF at
  <2>9. Unique(r) /\ OwnLast(r, c)
    <3>1. Unique(r)
      BY <1>0, <2>5, <2>7 DEF Unique
    <3>2. OwnLast(r, c)
      BY <1>0, <2>5, <2>6 DEF OwnLast
    <3> QED BY <3>1, <3>2
  <2>10. ToSet(r) = {f \in ToSet(fs) : f.path # path}
    <3>1. ToSet(r) = {r[i] : i \in DOMAIN r} /\ ToSet(fs) = {fs[i] : i \in DOMAIN fs}
      BY DEF ToSet
    <3>2. ASSUME NEW f \in ToSet(r) PROVE f \in ToSet(fs) /\ f.path # path
      BY <1>0, <2>1, <2>4, <2>5, <3>1 DEF Unique
    <3>3. ASSUME NEW f \in ToSet(fs), f.path # path PROVE f \in ToSet(r)
      <4>1. PICK k \in DOMAIN fs : f = fs[k]
        BY <3>1
      <4>2. PICK j \in DOMAIN r : at(j) = k
        BY <2>1, <2>8, <3>3, <4>1
      <4> QED BY <2>5, <3>1, <4>1, <4>2
    <3> QED BY <3>2, <3>3
  <2> QED BY <2>2, <2>3, <2>9, <2>10 DEF Listing
<1> QED BY <1>1, <1>2

\* A new file of c at the end of the list.
LEMMA AppendListing ==
  ASSUME NEW c, NEW fs, Listing(fs, c), NEW f \in FileType, f.owner = c,
         \A g \in ToSet(fs) : g.path # f.path
  PROVE  Listing(Append(fs, f), c) /\ ToSet(Append(fs, f)) = ToSet(fs) \union {f}
<1> DEFINE r == Append(fs, f)
<1>1. fs \in Seq(FileType) /\ Unique(fs) /\ OwnLast(fs, c)
  BY DEF Listing
<1>2. /\ r \in Seq(FileType) /\ Len(r) = Len(fs) + 1 /\ Len(fs) \in Nat
      /\ (\A i \in 1..Len(fs) : r[i] = fs[i]) /\ r[Len(fs) + 1] = f
  BY <1>1, AppendProperties
<1> HIDE DEF r
<1>3. DOMAIN r = 1..(Len(fs) + 1) /\ DOMAIN fs = 1..Len(fs)
  BY <1>1, <1>2
<1>4. ToSet(r) = {r[i] : i \in DOMAIN r} /\ ToSet(fs) = {fs[i] : i \in DOMAIN fs}
  BY DEF ToSet
<1>5. \A i \in DOMAIN r : (i \in DOMAIN fs /\ r[i] = fs[i]) \/ (i = Len(fs) + 1 /\ r[i] = f)
  BY <1>2, <1>3
<1>6. \A i \in DOMAIN fs : fs[i] \in ToSet(fs) /\ i \in DOMAIN r /\ i < Len(fs) + 1
  BY <1>2, <1>3, <1>4
<1>7. ToSet(r) = ToSet(fs) \union {f}
  <2>1. Len(fs) + 1 \in DOMAIN r /\ r[Len(fs) + 1] = f
    BY <1>2, <1>3
  <2> QED BY <1>2, <1>3, <1>4, <1>5, <1>6, <2>1
<1>8. Unique(r)
  BY <1>1, <1>5, <1>6 DEF Unique
<1>9. OwnLast(r, c)
  <2> SUFFICES ASSUME NEW i \in DOMAIN r, NEW j \in DOMAIN r, i < j, r[i].owner = c
               PROVE  r[j].owner = c
    BY DEF OwnLast
  <2>1. CASE j = Len(fs) + 1
    BY <1>2, <2>1
  <2>2. CASE j # Len(fs) + 1
    BY <1>1, <1>2, <1>3, <2>2 DEF OwnLast
  <2> QED BY <2>1, <2>2
<1> QED BY <1>2, <1>7, <1>8, <1>9 DEF Listing, r

\* The boots of a file after a write.
Grown(f, blocks) == f.boots \union blocks

\* The same files, in any order.
SameFiles(fs, gs) == ToSet(fs) = ToSet(gs)

\* What is at path is a file of c.
OwnedAt(fs, path, c) == \A f \in ToSet(fs) : f.path = path => f.owner = c

\* ts is fs with a write to the files at path.
Written(fs, ts, path, blocks, c) ==
  /\ \A f \in ToSet(fs) : f.path # path => f \in ToSet(ts)
  /\ \A f \in ToSet(ts) : f.path # path => f \in ToSet(fs)
  /\ \A f \in ToSet(ts) : f.path = path =>
       f.owner = c /\ \E g \in ToSet(fs) : g.path = path /\ f.boots = Grown(g, blocks)
  /\ \A g \in ToSet(fs) : g.path = path =>
       \E f \in ToSet(ts) : f.path = path /\ f.boots = Grown(g, blocks)

\* A write to a file of c makes it the last one, and adds blocks to it alone.
LEMMA TouchedListing ==
  ASSUME NEW c, NEW fs, Listing(fs, c), NEW path, NEW blocks, blocks \subseteq 1..MaxBoot,
         OwnedAt(fs, path, c), NEW ts, ts = Touched(fs, path, blocks)
  PROVE  /\ Listing(ts, c) /\ Written(fs, ts, path, blocks, c)
         /\ blocks = {} => SameFiles(fs, ts)
<1>0. fs \in Seq(FileType) /\ Unique(fs)
  BY DEF Listing
<1>1. CASE ~Has(fs, path)
  <2>1. ts = fs /\ \A f \in ToSet(fs) : f.path # path
    BY <1>0, <1>1, HasFile DEF Touched
  <2> QED BY <2>1 DEF Written, SameFiles
<1>2. CASE Has(fs, path)
  <2> DEFINE g == The(fs, path)
             e == [g EXCEPT !.boots = @ \union blocks]
             os == Others(fs, path)
  <2>1. g \in ToSet(fs) /\ g.path = path /\ \A f \in ToSet(fs) : f.path = path => f = g
    BY <1>0, <1>2, HasFile
  <2>2. g \in FileType /\ g.owner = c
    <3>1. \A f \in ToSet(fs) : f \in FileType
      BY <1>0 DEF ToSet
    <3> QED BY <2>1, <3>1 DEF OwnedAt
  <2> HIDE DEF g
  <2>3. /\ e \in FileType /\ e.path = path /\ e.owner = c /\ e.boots = Grown(g, blocks)
        /\ blocks = {} => e = g
    BY <2>1, <2>2 DEF FileType, Grown
  <2>4. ts = Append(os, e)
    BY <1>2 DEF Touched, g
  <2> HIDE DEF e
  <2>5. Listing(os, c) /\ ToSet(os) = {f \in ToSet(fs) : f.path # path}
    BY OthersListing
  <2> HIDE DEF os
  <2>6. Listing(ts, c) /\ ToSet(ts) = ToSet(os) \union {e}
    BY <2>3, <2>4, <2>5, AppendListing
  <2>7. blocks = {} => ToSet(ts) = ToSet(fs)
    BY <2>1, <2>3, <2>5, <2>6
  <2>8. Written(fs, ts, path, blocks, c)
    BY <2>1, <2>3, <2>5, <2>6 DEF Written
  <2> QED BY <2>6, <2>7, <2>8 DEF SameFiles
<1> QED BY <1>1, <1>2

\* A set of numbers that has a bound has a greatest one.
LEMMA MaxIsGreatest ==
  ASSUME NEW S, S \subseteq Nat, S # {}, NEW m \in Nat, \A x \in S : x <= m
  PROVE  Max(S) \in S /\ \A x \in S : x <= Max(S)
<1> DEFINE T == {k \in Nat : m - k \in S}
<1>1. T \subseteq Nat /\ T # {}
  <2>1. PICK x \in S : x \in Nat /\ x <= m
    OBVIOUS
  <2>2. m - x \in Nat /\ m - (m - x) = x
    BY <2>1
  <2> QED BY <2>1, <2>2
<1>2. PICK k \in T : \A j \in T : ~ (<<j, k>> \in OpToRel(<, Nat))
  <2> HIDE DEF T
  <2> QED BY <1>1, NatLessThanWellFounded, WFMin
<1>3. m - k \in S /\ k \in Nat
  OBVIOUS
<1>4. ASSUME NEW x \in S PROVE x <= m - k
  <2>1. x \in Nat /\ x <= m /\ m - x \in Nat /\ m - (m - x) = x
    OBVIOUS
  <2>2. m - x \in T
    BY <2>1
  <2>3. ~(m - x < k)
    BY <1>2, <1>3, <2>1, <2>2 DEF OpToRel
  <2> QED BY <1>3, <2>1, <2>3
<1>5. \E y \in S : \A x \in S : y >= x
  <2>1. \A x \in S : m - k >= x
    BY <1>3, <1>4
  <2> QED BY <1>3, <2>1
<1>6. Max(S) \in S /\ \A x \in S : Max(S) >= x
  BY <1>5 DEF Max
<1> QED BY <1>6

\* next_session_n() gives a number above those of today's files.
LEMMA NextNAbove ==
  ASSUME NEW fs \in Seq(FileType)
  PROVE  /\ NextN(fs) \in Nat \ {0}
         /\ \A f \in ToSet(fs) : f.path[1] = day => f.path[2] < NextN(fs)
<1>1. \A f \in ToSet(fs) : f.path[2] \in 1..MaxN
  <2>1. \A f \in ToSet(fs) : f \in FileType
    BY DEF ToSet
  <2> QED BY <2>1, FileParts, PathParts
<1>2. \A f \in ToSet(fs) : f.path[1] = day => f.path[2] \in Numbers(fs)
  BY DEF ToSet, Numbers
<1>3. \A m \in Numbers(fs) : m \in 1..MaxN
  <2>1. \A i \in DOMAIN fs : fs[i].path[2] \in 1..MaxN
    BY <1>1 DEF ToSet
  <2> QED BY <2>1 DEF Numbers
<1>4. CASE Numbers(fs) = {}
  BY <1>2, <1>4 DEF NextN
<1>5. CASE Numbers(fs) # {}
  <2>1. Max(Numbers(fs)) \in Numbers(fs) /\ \A m \in Numbers(fs) : m <= Max(Numbers(fs))
    <3>1. MaxN \in Nat /\ Numbers(fs) \subseteq Nat /\ \A m \in Numbers(fs) : m <= MaxN
      BY <1>3, Constants
    <3> QED BY <1>5, <3>1, MaxIsGreatest
  <2>2. NextN(fs) = 1 + Max(Numbers(fs))
    BY <1>5 DEF NextN
  <2>3. Max(Numbers(fs)) \in Nat
    BY <1>3, <2>1
  <2>4. ASSUME NEW f \in ToSet(fs), f.path[1] = day PROVE f.path[2] < NextN(fs)
    <3>1. f.path[2] \in Nat /\ f.path[2] <= Max(Numbers(fs))
      BY <1>1, <1>2, <2>1, <2>4
    <3> QED BY <2>2, <2>3, <3>1
  <2> QED BY <2>2, <2>3, <2>4
<1> QED BY <1>4, <1>5

----------------------------------------------------------------------------
(* The invariant *)

\* Nothing was written later than today or by a child that has not started.
Past(F) == \A f \in F : f.path[1] <= day /\ f.owner <= children

\* Paired, of a set of files.
PairedIn(F) ==
  \A f, g \in F : f.path[1] = g.path[1] /\ f.path[2] = g.path[2] => f.owner = g.owner

\* The child's numbers are above those that its predecessors used today.
Below(F, p) ==
  \A f \in F : f.owner # children /\ f.path[1] = day => f.path[2] < n /\ (p # 0 => f.path[2] < p)

\* The child has one tlog, and keeps it open.
OwnTlog(F, t) == \A f \in F : f.owner = children /\ f.path[3] = "tlog" => f.path = t

\* When it has no .bin open, the next one gets a number above those it used today.
OwnBin(F, b, p) ==
  \A f \in F : f.owner = children /\ f.path[3] = "bin" /\ b = NoFile =>
                 p # 0 /\ (f.path[1] = day => f.path[2] < p)

\* A file at a path that is open is one of the child.
ActiveOwn(F, t, b) == \A f \in F : f.path = t \/ f.path = b => f.owner = children

\* What the quota pass will unlink is there, and a file that is open comes after all
\* files of others.
Listed(F) == \A i \in DOMAIN victims : \E f \in F : f.path = victims[i]
Spares(F, t, b) ==
  \A i \in DOMAIN victims : victims[i] = t \/ victims[i] = b =>
    \A f \in F : f.owner # children => \E k \in DOMAIN victims : k < i /\ f.path = victims[k]

\* The files fs with the paths t and b open and the number p pending.
Consistent(fs, t, b, p) ==
  /\ Listing(fs, children) /\ Past(ToSet(fs)) /\ PairedIn(ToSet(fs))
  /\ alive = TRUE => Below(ToSet(fs), p) /\ OwnTlog(ToSet(fs), t) /\ OwnBin(ToSet(fs), b, p)
  /\ ActiveOwn(ToSet(fs), t, b) /\ Listed(ToSet(fs)) /\ Spares(ToSet(fs), t, b)

\* After a report that showed the boot, the open .bin holds blocks of this boot only.
OneBoot(F, b) ==
  told.boot = boot /\ short = FALSE /\ stray = FALSE =>
    \A f \in F : f.path = b => f.boots = {boot}

\* What a child has open, and that none runs with nothing of the last one's left.
Child ==
  /\ alive = TRUE => n # 0 /\ children # 0
  /\ alive = FALSE => /\ tlog = NoFile /\ bin = NoFile /\ pending = 0
                      /\ told = NoReport /\ stray = FALSE
  /\ tlog # NoFile => "tlog" \in kinds
  /\ bin # NoFile => "bin" \in kinds /\ bin[3] = "bin"

\* last_system_time_boot_ms_ is the clock of the report that the history has.
Reports ==
  /\ told.boot <= boot /\ (told.boot = boot => told.up <= up)
  /\ stray = TRUE => told = NoReport /\ short = TRUE
  /\ told.boot # 0 /\ "bin" \in kinds => last = told.up % Wrap

\* A file is on the quota pass's list once.
Once == \A i, j \in DOMAIN victims : victims[i] = victims[j] => i = j

\* The types, without the lists.
Switches == alive \in BOOLEAN /\ kinds \subseteq Kinds /\ short \in BOOLEAN /\ stray \in BOOLEAN
Counts ==
  /\ day \in 0..MaxDay /\ children \in 0..MaxChildren /\ n \in 0..MaxN /\ pending \in 0..MaxN
  /\ last \in 0..(Wrap - 1) /\ boot \in 1..MaxBoot /\ up \in 0..MaxUp
  /\ told \in [boot : 0..MaxBoot, up : 0..MaxUp]
Open ==
  /\ tlog \in PathType \union {NoFile} /\ bin \in PathType \union {NoFile}
  /\ victims \in Seq(PathType)

\* The inductive invariant.
Inv ==
  /\ Switches /\ Counts /\ Open /\ Child /\ Reports /\ Once
  /\ Consistent(disk, tlog, bin, pending) /\ OneBoot(ToSet(disk), bin)

\* TypeOK in these parts.
LEMMA TypeParts ==
  TypeOK <=> Switches /\ Counts /\ Open /\ disk \in Seq(FileType)
BY DEF TypeOK, Switches, Counts, Open

----------------------------------------------------------------------------
(* Opening, writing and closing *)

\* Files of the same paths and owners, or fewer.
LEMMA FewerConsistent ==
  ASSUME NEW fs, NEW gs, NEW t, NEW b, NEW p, Consistent(fs, t, b, p), Listing(gs, children),
         \A g \in ToSet(gs) : \E f \in ToSet(fs) : g.path = f.path /\ g.owner = f.owner,
         Listed(ToSet(gs))
  PROVE  Consistent(gs, t, b, p)
<1> DEFINE F == ToSet(fs)
           G == ToSet(gs)
<1>0. \A g \in G : \E f \in F : g.path = f.path /\ g.owner = f.owner
  OBVIOUS
<1>1. /\ Past(F) /\ PairedIn(F) /\ ActiveOwn(F, t, b) /\ Spares(F, t, b)
      /\ alive = TRUE => Below(F, p) /\ OwnTlog(F, t) /\ OwnBin(F, b, p)
  BY DEF Consistent
<1> HIDE DEF F, G
<1>2. Past(G)
  BY <1>0, <1>1 DEF Past
<1>3. PairedIn(G)
  BY <1>0, <1>1 DEF PairedIn
<1>4. alive = TRUE => Below(G, p)
  BY <1>0, <1>1 DEF Below
<1>5. alive = TRUE => OwnTlog(G, t)
  BY <1>0, <1>1 DEF OwnTlog
<1>6. alive = TRUE => OwnBin(G, b, p)
  BY <1>0, <1>1 DEF OwnBin
<1>7. ActiveOwn(G, t, b)
  BY <1>0, <1>1 DEF ActiveOwn
<1>8. Spares(G, t, b)
  BY <1>0, <1>1 DEF Spares
<1> QED BY <1>2, <1>3, <1>4, <1>5, <1>6, <1>7, <1>8 DEF Consistent, F, G

\* The child's tlog is a new file.
LEMMA TlogOpened ==
  ASSUME Switches, Counts, Open, Child, alive = TRUE, NEW fs, NEW b \in PathType \union {NoFile},
         NEW p, Consistent(fs, NoFile, b, p), NEW gs, Listing(gs, children),
         NEW f0 \in FileType, f0.path = Path(day, n, "tlog"), f0.owner = children,
         ToSet(gs) = ToSet(fs) \union {f0}, b # NoFile => b[3] = "bin"
  PROVE  Consistent(gs, f0.path, b, p) /\ \A f \in ToSet(fs) : f.path # f0.path
<1> DEFINE F == ToSet(fs)
           G == ToSet(gs)
           t == f0.path
<1>0. G = F \union {f0} /\ \A f \in F : f \in FileType
  <2>1. \A f \in F : f \in FileType
    BY DEF Consistent, Listing, ToSet
  <2> QED BY <2>1
<1>1. /\ Past(F) /\ PairedIn(F) /\ ActiveOwn(F, NoFile, b) /\ Listed(F) /\ Spares(F, NoFile, b)
      /\ Below(F, p) /\ OwnTlog(F, NoFile) /\ OwnBin(F, b, p)
  BY DEF Consistent
<1>2. /\ t \in PathType /\ t # NoFile /\ t[1] = day /\ t[2] = n /\ t[3] = "tlog" /\ t # b
      /\ day \in Nat /\ n \in Nat
  <2>1. day \in 0..MaxDay /\ n \in 1..MaxN /\ "tlog" \in Kinds
    BY DEF Counts, Child, Kinds
  <2>2. t \in PathType /\ t # NoFile /\ t[1] = day /\ t[2] = n /\ t[3] = "tlog"
    BY <2>1, PathMade
  <2> QED BY <2>1, <2>2
<1>3. \A f \in F : f.path \in PathType /\ f.path # NoFile /\ f.path[2] \in Nat
  BY <1>0, FileParts, PathParts
<1> HIDE DEF F, G, t
<1>4. \A f \in F : f.owner # children /\ f.path[1] = day => f.path[2] < n
  BY <1>1 DEF Below
<1>5. \A f \in F : f.path # t
  BY <1>1, <1>2, <1>3, <1>4 DEF OwnTlog
<1>6. f0.owner = children /\ f0.path = t
  BY DEF t
<1>7. Past(G)
  <2>1. f0.path[1] <= day /\ f0.owner <= children
    BY <1>2, <1>6, Constants DEF Counts
  <2> QED BY <1>0, <1>1, <2>1 DEF Past
<1>8. PairedIn(G)
  <2>1. \A f \in F : f.path[1] = t[1] /\ f.path[2] = t[2] => f.owner = children
    BY <1>2, <1>3, <1>4
  <2> QED BY <1>0, <1>1, <1>6, <2>1 DEF PairedIn
<1>9. Below(G, p)
  BY <1>0, <1>1, <1>6 DEF Below
<1>10. OwnTlog(G, t)
  BY <1>0, <1>1, <1>3, <1>6 DEF OwnTlog
<1>11. OwnBin(G, b, p)
  BY <1>0, <1>1, <1>2, <1>6 DEF OwnBin
<1>12. ActiveOwn(G, t, b)
  BY <1>0, <1>1, <1>5, <1>6 DEF ActiveOwn
<1>13. Listed(G)
  BY <1>0, <1>1 DEF Listed
<1>14. Spares(G, t, b)
  <2>1. \A i \in DOMAIN victims : victims[i] # t
    BY <1>1, <1>5 DEF Listed
  <2> QED BY <1>0, <1>1, <1>6, <2>1 DEF Spares
<1> QED
  BY <1>5, <1>7, <1>8, <1>9, <1>10, <1>11, <1>12, <1>13, <1>14 DEF Consistent, F, G, t

\* The file that an open makes.
LEMMA FileMade ==
  ASSUME NEW path \in PathType, Counts, children # 0
  PROVE  /\ File(path, children) \in FileType /\ File(path, children).path = path
         /\ File(path, children).owner = children /\ File(path, children).boots = {}
<1>1. children \in 1..MaxChildren
  BY Constants DEF Counts
<1> QED BY <1>1 DEF File, FileType

\* A frame that is logged: the files and the open tlog are as before, or the tlog is a
\* new file.
LEMMA LoggedConsistent ==
  ASSUME Switches, Counts, Open, Child, alive = TRUE, Consistent(disk, tlog, bin, pending),
         NEW log \in Logged
  PROVE  /\ Consistent(log[1], log[2], bin, pending)
         /\ log[2] \in PathType \union {NoFile} /\ (log[2] # NoFile => "tlog" \in kinds)
         /\ \/ ToSet(log[1]) = ToSet(disk) /\ log[2] = tlog
            \/ /\ \A f \in ToSet(disk) : f.path # log[2]
               /\ ToSet(log[1]) = ToSet(disk) \union {File(log[2], children)}
               /\ log[2] = Path(day, n, "tlog")
<1>0. /\ Listing(disk, children) /\ ActiveOwn(ToSet(disk), tlog, bin) /\ Listed(ToSet(disk))
      /\ disk \in Seq(FileType) /\ Unique(disk)
  BY DEF Consistent, Listing
<1>1. CASE log = <<disk, NoFile>> /\ tlog = NoFile
  BY <1>1 DEF Open
<1>2. CASE "tlog" \in kinds /\ tlog # NoFile /\ log = <<Touched(disk, tlog, {}), tlog>>
  <2> DEFINE ts == Touched(disk, tlog, {})
  <2>1. Listing(ts, children) /\ ToSet(ts) = ToSet(disk)
    <3>1. OwnedAt(disk, tlog, children)
      BY <1>0 DEF ActiveOwn, OwnedAt
    <3>2. Listing(ts, children) /\ SameFiles(disk, ts)
      BY <1>0, <3>1, TouchedListing
    <3> QED BY <3>2 DEF SameFiles
  <2>2. log[1] = ts /\ log[2] = tlog
    BY <1>2
  <2> HIDE DEF ts
  <2>3. Consistent(ts, tlog, bin, pending)
    BY <1>0, <2>1, FewerConsistent
  <2> QED BY <1>2, <2>1, <2>2, <2>3 DEF Open
<1>3. CASE /\ "tlog" \in kinds /\ tlog = NoFile
           /\ log = <<Touched(Appended(disk, Path(day, n, "tlog")), Path(day, n, "tlog"), {}),
                      Path(day, n, "tlog")>>
  <2> DEFINE t == Path(day, n, "tlog")
             f0 == File(t, children)
             as == Appended(disk, t)
             ts == Touched(as, t, {})
  <2>1. t \in PathType /\ t # NoFile /\ t[2] = n /\ t[1] = day /\ t[3] = "tlog"
    <3>1. day \in 0..MaxDay /\ n \in 1..MaxN /\ "tlog" \in Kinds
      BY DEF Counts, Child, Kinds
    <3> QED BY <3>1, PathMade
  <2> HIDE DEF t
  <2>2. f0 \in FileType /\ f0.path = t /\ f0.owner = children /\ f0.boots = {}
    BY <2>1, FileMade DEF Child
  <2> HIDE DEF f0
  <2>3. \A f \in ToSet(disk) : f.path # t
    <3>1. \A f \in ToSet(disk) : f \in FileType
      BY <1>0 DEF ToSet
    <3>2. \A f \in ToSet(disk) : f.path # NoFile /\ f.path[2] \in Nat /\ n \in Nat
      BY <3>1, FileParts, PathParts DEF Counts
    <3>3. Below(ToSet(disk), pending) /\ OwnTlog(ToSet(disk), tlog)
      BY DEF Consistent
    <3>4. \A f \in ToSet(disk) : f.path = t => f.owner = children
      BY <2>1, <3>2, <3>3 DEF Below
    <3> QED BY <1>3, <2>1, <3>2, <3>3, <3>4 DEF OwnTlog
  <2>4. as = Append(disk, f0)
    BY <1>0, <2>3, HasFile DEF Appended, f0
  <2>5. Listing(as, children) /\ ToSet(as) = ToSet(disk) \union {f0}
    BY <1>0, <2>2, <2>3, <2>4, AppendListing
  <2> HIDE DEF as
  <2>6. Listing(ts, children) /\ ToSet(ts) = ToSet(as)
    <3>1. OwnedAt(as, t, children)
      BY <2>2, <2>3, <2>5 DEF OwnedAt
    <3>2. Listing(as, children)
      BY <2>5
    <3>3. Listing(ts, children) /\ SameFiles(as, ts)
      BY <3>1, <3>2, TouchedListing
    <3> QED BY <3>3 DEF SameFiles
  <2>7. log[1] = ts /\ log[2] = t
    BY <1>3 DEF as, t
  <2> HIDE DEF ts
  <2>8. Consistent(disk, NoFile, bin, pending)
    BY <1>3
  <2>9. bin \in PathType \union {NoFile} /\ (bin # NoFile => bin[3] = "bin")
    BY DEF Open, Child
  <2>10. Consistent(ts, t, bin, pending)
    <3>1. f0.path = Path(day, n, "tlog") /\ ToSet(ts) = ToSet(disk) \union {f0}
      BY <2>2, <2>5, <2>6 DEF t
    <3>2. Consistent(ts, f0.path, bin, pending)
      BY <2>2, <2>6, <2>8, <2>9, <3>1, TlogOpened
    <3> QED BY <2>2, <3>2
  <2> QED BY <1>3, <2>1, <2>3, <2>5, <2>6, <2>7, <2>10 DEF f0, t
<1>4. tlog = NoFile \/ "tlog" \in kinds
  BY DEF Child
<1> QED
  <2>1. \/ log = <<disk, NoFile>> /\ tlog = NoFile
        \/ "tlog" \in kinds /\ tlog # NoFile /\ log = <<Touched(disk, tlog, {}), tlog>>
        \/ /\ "tlog" \in kinds /\ tlog = NoFile
           /\ log = <<Touched(Appended(disk, Path(day, n, "tlog")), Path(day, n, "tlog"), {}),
                      Path(day, n, "tlog")>>
    BY <1>4 DEF Logged
  <2> QED BY <1>1, <1>2, <1>3, <2>1

\* gs is fs with a new file at path, which holds blocks.
Created(fs, gs, path, blocks) ==
  /\ \A f \in ToSet(fs) : f.path # path /\ f \in ToSet(gs)
  /\ \A f \in ToSet(gs) :
       f \in ToSet(fs) \/ (f.path = path /\ f.owner = children /\ f.boots = blocks)

\* A file that fopen("wb+") makes, and its first block.
LEMMA TruncatedListing ==
  ASSUME Counts, children # 0, NEW fs, Listing(fs, children), NEW path \in PathType,
         \A f \in ToSet(fs) : f.path # path, NEW blocks, blocks \subseteq 1..MaxBoot,
         NEW gs, gs = Touched(Truncated(fs, path), path, blocks)
  PROVE  Listing(gs, children) /\ Created(fs, gs, path, blocks)
<1> DEFINE f0 == File(path, children)
           cs == Truncated(fs, path)
<1>1. f0 \in FileType /\ f0.path = path /\ f0.owner = children /\ f0.boots = {}
  BY FileMade
<1> HIDE DEF f0
<1>2. Others(fs, path) = fs
  BY HasFile DEF Others, Listing
<1>3. cs = Append(fs, f0) /\ gs = Touched(cs, path, blocks)
  BY <1>2 DEF Truncated, f0
<1> HIDE DEF cs
<1>4. Listing(cs, children) /\ ToSet(cs) = ToSet(fs) \union {f0}
  BY <1>1, <1>3, AppendListing
<1>5. OwnedAt(cs, path, children)
  BY <1>1, <1>4 DEF OwnedAt
<1>6. Listing(cs, children)
  BY <1>4
<1>7. Listing(gs, children) /\ Written(cs, gs, path, blocks, children)
  BY <1>3, <1>5, <1>6, TouchedListing
<1>8. \A g \in ToSet(cs) : g.path = path => Grown(g, blocks) = blocks
  <2>1. Grown(f0, blocks) = blocks
    BY <1>1 DEF Grown
  <2> QED BY <1>1, <1>4, <2>1
<1>9. \A f \in ToSet(fs) : f \in ToSet(gs)
  BY <1>4, <1>7 DEF Written
<1>10. \A f \in ToSet(gs) : f.path # path => f \in ToSet(fs)
  BY <1>1, <1>4, <1>7 DEF Written
<1>11. \A f \in ToSet(gs) : f.path = path => f.owner = children /\ f.boots = blocks
  BY <1>7, <1>8 DEF Written
<1> QED BY <1>7, <1>9, <1>10, <1>11 DEF Created

\* The .bin that block 0 opens is a new file, and holds that block.
LEMMA BinOpened ==
  ASSUME Switches, Counts, Child, alive = TRUE, NEW fs,
         NEW t \in PathType \union {NoFile}, Consistent(fs, t, NoFile, pending),
         NEW blocks, blocks \subseteq 1..MaxBoot,
         NEW path \in PathType, path[1] = day, path[3] = "bin",
         path[2] = IF pending # 0 THEN pending ELSE n,
         NEW gs, gs = Touched(Truncated(fs, path), path, blocks)
  PROVE  Consistent(gs, t, path, 0) /\ Created(fs, gs, path, blocks)
<1> DEFINE F == ToSet(fs)
           G == ToSet(gs)
           m == IF pending # 0 THEN pending ELSE n
<1>1. /\ path \in PathType /\ path # NoFile /\ path[1] = day /\ path[2] = m /\ path[3] = "bin"
      /\ m \in Nat /\ n \in Nat /\ pending \in Nat
  <2>1. n \in Nat /\ pending \in Nat
    BY DEF Counts
  <2> QED BY <2>1, PathParts
<1>2. /\ Listing(fs, children) /\ fs \in Seq(FileType) /\ Unique(fs)
      /\ Past(F) /\ PairedIn(F) /\ ActiveOwn(F, t, NoFile) /\ Listed(F) /\ Spares(F, t, NoFile)
      /\ Below(F, pending) /\ OwnTlog(F, t) /\ OwnBin(F, NoFile, pending)
  BY DEF Consistent, Listing
<1>3. \A f \in F : f.path \in PathType /\ f.path # NoFile /\ f.path[2] \in Nat
  <2>1. \A f \in F : f \in FileType
    BY <1>2 DEF ToSet
  <2> QED BY <2>1, FileParts, PathParts
<1> HIDE DEF F
<1>4. \A f \in F : f.owner # children /\ f.path[1] = day => f.path[2] < m
  BY <1>2 DEF Below
<1>5. \A f \in F : f.path # path
  <2>1. \A f \in F : f.path = path => f.owner = children
    BY <1>1, <1>3, <1>4
  <2> QED BY <1>1, <1>2, <1>3, <2>1 DEF OwnBin
<1> HIDE DEF m
<1>6. /\ \A f \in F : f \in G
      /\ \A f \in G : f \in F \/ (f.path = path /\ f.owner = children /\ f.boots = blocks)
      /\ Listing(gs, children) /\ Created(fs, gs, path, blocks)
  <2>1. children # 0 /\ \A f \in ToSet(fs) : f.path # path
    BY <1>5 DEF Child, F
  <2>2. Listing(gs, children) /\ Created(fs, gs, path, blocks)
    BY <1>2, <2>1, TruncatedListing
  <2> QED BY <2>2 DEF Created, F, G
<1> HIDE DEF G
<1>7. Past(G)
  BY <1>1, <1>2, <1>6, Constants DEF Past, Counts
<1>8. PairedIn(G)
  <2>1. \A f \in F : f.path[1] = path[1] /\ f.path[2] = path[2] => f.owner = children
    BY <1>1, <1>3, <1>4
  <2> QED BY <1>2, <1>6, <2>1 DEF PairedIn
<1>9. Below(G, 0)
  BY <1>2, <1>6 DEF Below
<1>10. OwnTlog(G, t)
  BY <1>1, <1>2, <1>6 DEF OwnTlog
<1>11. OwnBin(G, path, 0)
  BY <1>1 DEF OwnBin
<1>12. ActiveOwn(G, t, path)
  BY <1>2, <1>5, <1>6 DEF ActiveOwn
<1>13. Listed(G)
  BY <1>2, <1>6 DEF Listed
<1>14. Spares(G, t, path)
  <2>1. \A i \in DOMAIN victims : victims[i] # path
    BY <1>2, <1>5 DEF Listed
  <2> QED BY <1>2, <1>6, <2>1 DEF Spares
<1> QED
  BY <1>5, <1>6, <1>7, <1>8, <1>9, <1>10, <1>11, <1>12, <1>13, <1>14
     DEF Consistent, F, G

\* A block in the open .bin changes no path and no owner.
LEMMA BinContinued ==
  ASSUME NEW fs, NEW t, NEW b, NEW p, Consistent(fs, t, b, p), NEW blocks, blocks \subseteq 1..MaxBoot,
         NEW ts, ts = Touched(fs, b, blocks)
  PROVE  Consistent(ts, t, b, p) /\ Written(fs, ts, b, blocks, children)
<1>1. Listing(fs, children) /\ OwnedAt(fs, b, children) /\ Listed(ToSet(fs))
  BY DEF Consistent, ActiveOwn, OwnedAt
<1>2. Listing(ts, children) /\ Written(fs, ts, b, blocks, children)
  BY <1>1, TouchedListing
<1>3. \A g \in ToSet(ts) : \E f \in ToSet(fs) : g.path = f.path /\ g.owner = f.owner
  <2>1. ASSUME NEW g \in ToSet(ts), g.path = b
        PROVE  \E f \in ToSet(fs) : g.path = f.path /\ g.owner = f.owner
    BY <1>1, <1>2, <2>1 DEF Written, OwnedAt
  <2>2. ASSUME NEW g \in ToSet(ts), g.path # b PROVE g \in ToSet(fs)
    BY <1>2, <2>2 DEF Written
  <2> QED BY <2>1, <2>2
<1>4. Listed(ToSet(ts))
  <2>1. \A f \in ToSet(fs) : \E g \in ToSet(ts) : g.path = f.path
    BY <1>2 DEF Written
  <2> QED BY <1>1, <2>1 DEF Listed
<1> QED BY <1>2, <1>3, <1>4, FewerConsistent

\* rotate_for_reboot() takes a number above those of today's files.
LEMMA BinRotated ==
  ASSUME Open, NEW fs, NEW t, NEW b, NEW p, Consistent(fs, t, b, p)
  PROVE  Consistent(fs, t, NoFile, NextN(fs))
<1> DEFINE F == ToSet(fs)
           m == NextN(fs)
<1>1. /\ Listing(fs, children) /\ fs \in Seq(FileType) /\ Past(F) /\ PairedIn(F) /\ Listed(F)
      /\ ActiveOwn(F, t, b) /\ Spares(F, t, b)
      /\ alive = TRUE => Below(F, p) /\ OwnTlog(F, t)
  BY DEF Consistent, Listing
<1>2. m # 0 /\ \A f \in F : f.path[1] = day => f.path[2] < m
  BY <1>1, NextNAbove
<1>3. \A f \in F : f.path # NoFile
  <2>1. \A f \in F : f \in FileType
    BY <1>1 DEF ToSet
  <2> QED BY <2>1, FileParts, PathParts
<1>4. \A i \in DOMAIN victims : victims[i] # NoFile
  <2>1. \A i \in DOMAIN victims : victims[i] \in PathType
    BY DEF Open
  <2> QED BY <2>1, PathParts
<1> HIDE DEF F, m
<1>5. alive = TRUE => Below(F, m)
  BY <1>1, <1>2 DEF Below
<1>6. OwnBin(F, NoFile, m)
  BY <1>2 DEF OwnBin
<1>7. ActiveOwn(F, t, NoFile)
  BY <1>1, <1>3 DEF ActiveOwn
<1>8. Spares(F, t, NoFile)
  BY <1>1, <1>4 DEF Spares
<1> QED BY <1>1, <1>5, <1>6, <1>7, <1>8 DEF Consistent, F, m

\* A logged frame puts no block into a .bin.
LEMMA LoggedOneBoot ==
  ASSUME Switches, Counts, Open, Child, alive = TRUE, Consistent(disk, tlog, bin, pending),
         OneBoot(ToSet(disk), bin), NEW log \in Logged
  PROVE  OneBoot(ToSet(log[1]), bin) /\ (log[2] # tlog => ~Has(disk, log[2]))
<1>1. \/ ToSet(log[1]) = ToSet(disk) /\ log[2] = tlog
      \/ /\ \A f \in ToSet(disk) : f.path # log[2]
         /\ ToSet(log[1]) = ToSet(disk) \union {File(log[2], children)}
         /\ log[2] = Path(day, n, "tlog")
  BY LoggedConsistent
<1>2. CASE ToSet(log[1]) = ToSet(disk) /\ log[2] = tlog
  BY <1>2 DEF OneBoot
<1>3. CASE /\ \A f \in ToSet(disk) : f.path # log[2]
           /\ ToSet(log[1]) = ToSet(disk) \union {File(log[2], children)}
           /\ log[2] = Path(day, n, "tlog")
  <2>1. log[2] # bin /\ File(log[2], children).path = log[2]
    <3>1. day \in 0..MaxDay /\ n \in 1..MaxN /\ "tlog" \in Kinds
      BY DEF Counts, Child, Kinds
    <3>2. log[2] # NoFile /\ log[2][3] = "tlog"
      BY <1>3, <3>1, PathMade
    <3> QED BY <3>2 DEF Child, File
  <2>2. ~Has(disk, log[2])
    BY <1>3, HasFile DEF Consistent, Listing
  <2>3. \A f \in ToSet(log[1]) : f.path = bin => f \in ToSet(disk)
    BY <1>3, <2>1
  <2> QED BY <2>2, <2>3 DEF OneBoot
<1> QED BY <1>1, <1>2, <1>3

\* Paths that may be open and a number that may be pending.
Writers(t, b, p) ==
  /\ t \in PathType \union {NoFile} /\ b \in PathType \union {NoFile} /\ p \in 0..MaxN
  /\ t # NoFile => "tlog" \in kinds
  /\ b # NoFile => "bin" \in kinds /\ b[3] = "bin"

\* OpensFresh, of a step.
Fresh ==
  /\ bin' \notin {bin, NoFile} => ~Has(disk, bin')
  /\ tlog' \notin {tlog, NoFile} => ~Has(disk, tlog')

\* The files after a step, with what is open then.
After ==
  /\ Writers(tlog', bin', pending') /\ Consistent(disk', tlog', bin', pending')
  /\ OneBoot(ToSet(disk'), bin') /\ Fresh

\* handle_block(): a block of the running boot, or a late one that opens nothing and
\* comes before any block of the new boot.
LEMMA BlockAfter ==
  ASSUME Switches, Counts, Open, Child, alive = TRUE, Consistent(disk, tlog, bin, pending),
         OneBoot(ToSet(disk), bin), NEW b \in 1..MaxBoot, NEW first \in BOOLEAN, Block(b, first),
         b = boot \/ (first = FALSE /\ \A f \in ToSet(disk) : boot \notin f.boots)
  PROVE  After
<1>1. PICK log \in Logged :
        /\ tlog' = log[2]
        /\ \/ disk' = log[1] /\ bin' = bin /\ pending' = pending
           \/ /\ "bin" \in kinds /\ bin = NoFile /\ Opens(first)
              /\ LET path == Path(day, IF pending # 0 THEN pending ELSE n, "bin") IN
                   /\ bin' = path /\ pending' = 0
                   /\ disk' = Touched(Truncated(log[1], path), path, {b})
           \/ /\ "bin" \in kinds /\ bin # NoFile
              /\ disk' = Touched(log[1], bin, {b}) /\ bin' = bin /\ pending' = pending
  BY DEF Block
<1> DEFINE fs == log[1]
           t == log[2]
<1>2. /\ Consistent(fs, t, bin, pending)
      /\ t \in PathType \union {NoFile} /\ (t # NoFile => "tlog" \in kinds)
      /\ \/ ToSet(fs) = ToSet(disk)
         \/ ToSet(fs) = ToSet(disk) \union {File(t, children)}
  BY LoggedConsistent
<1>3. OneBoot(ToSet(fs), bin) /\ (t # tlog => ~Has(disk, t))
  BY LoggedOneBoot
<1>4. \A f \in ToSet(disk) : f \in ToSet(fs)
  BY <1>2
<1>5. b = boot \/ \A f \in ToSet(fs) : boot \notin f.boots
  <2>1. File(t, children).boots = {}
    BY DEF File
  <2> QED BY <1>2, <2>1
<1>6. tlog' = t /\ pending \in 0..MaxN /\ bin \in PathType \union {NoFile}
      /\ (bin # NoFile => "bin" \in kinds /\ bin[3] = "bin")
  BY <1>1 DEF Counts, Open, Child
<1>7. disk \in Seq(FileType) /\ Unique(disk)
  BY DEF Consistent, Listing
<1>8. CASE disk' = fs /\ bin' = bin /\ pending' = pending
  BY <1>2, <1>3, <1>6, <1>8 DEF After, Writers, Fresh
<1> HIDE DEF fs, t
<1>9. CASE /\ "bin" \in kinds /\ bin = NoFile /\ Opens(first)
           /\ LET path == Path(day, IF pending # 0 THEN pending ELSE n, "bin") IN
                /\ bin' = path /\ pending' = 0
                /\ disk' = Touched(Truncated(fs, path), path, {b})
  <2> DEFINE path == Path(day, IF pending # 0 THEN pending ELSE n, "bin")
             gs == Touched(Truncated(fs, path), path, {b})
  <2>1. /\ path \in PathType /\ path # NoFile /\ path[1] = day /\ path[3] = "bin"
        /\ path[2] = IF pending # 0 THEN pending ELSE n
    <3>1. /\ day \in 0..MaxDay /\ (IF pending # 0 THEN pending ELSE n) \in 1..MaxN
          /\ "bin" \in Kinds
      BY DEF Counts, Child, Kinds
    <3> QED BY <3>1, PathMade
  <2>2. bin' = path /\ pending' = 0 /\ disk' = gs
    BY <1>9
  <2> HIDE DEF path
  <2>3. {b} \subseteq 1..MaxBoot /\ Consistent(fs, t, NoFile, pending)
    BY <1>2, <1>9
  <2>4. Consistent(gs, t, path, 0) /\ Created(fs, gs, path, {b})
    BY <1>2, <2>1, <2>3, BinOpened
  <2> HIDE DEF gs
  <2>5. b = boot
    BY <1>9 DEF Opens
  <2>6. OneBoot(ToSet(gs), path)
    BY <2>4, <2>5 DEF Created, OneBoot
  <2>7. ~Has(disk, path)
    BY <1>4, <1>7, <2>4, HasFile DEF Created
  <2>8. 0 \in 0..MaxN
    BY Constants
  <2> QED BY <1>2, <1>3, <1>6, <1>9, <2>1, <2>2, <2>4, <2>6, <2>7, <2>8 DEF After, Writers, Fresh
<1>10. CASE /\ "bin" \in kinds /\ bin # NoFile
            /\ disk' = Touched(fs, bin, {b}) /\ bin' = bin /\ pending' = pending
  <2>1. {b} \subseteq 1..MaxBoot
    OBVIOUS
  <2>2. Consistent(disk', t, bin, pending) /\ Written(fs, disk', bin, {b}, children)
    BY <1>2, <1>10, <2>1, BinContinued
  <2>3. OneBoot(ToSet(disk'), bin)
    <3> SUFFICES ASSUME told.boot = boot, short = FALSE, stray = FALSE,
                        NEW f \in ToSet(disk'), f.path = bin
                 PROVE  f.boots = {boot}
      BY DEF OneBoot
    <3>1. PICK g \in ToSet(fs) : g.path = bin /\ f.boots = Grown(g, {b})
      BY <2>2 DEF Written
    <3>2. g.boots = {boot}
      BY <1>3, <3>1 DEF OneBoot
    <3>3. b = boot
      BY <1>5, <3>2
    <3> QED BY <3>1, <3>2, <3>3 DEF Grown
  <2> QED BY <1>2, <1>3, <1>6, <1>10, <2>2, <2>3 DEF After, Writers, Fresh
<1> QED BY <1>1, <1>8, <1>9, <1>10 DEF fs, t

\* A frame that the bin writer does not look at.
LEMMA FrameAfter ==
  ASSUME Switches, Counts, Open, Child, alive = TRUE, Consistent(disk, tlog, bin, pending),
         OneBoot(ToSet(disk), bin), NEW log \in Logged, disk' = log[1], tlog' = log[2],
         bin' = bin, pending' = pending
  PROVE  After
<1>1. /\ Consistent(log[1], log[2], bin, pending)
      /\ log[2] \in PathType \union {NoFile} /\ (log[2] # NoFile => "tlog" \in kinds)
  BY LoggedConsistent
<1>2. OneBoot(ToSet(log[1]), bin) /\ (log[2] # tlog => ~Has(disk, log[2]))
  BY LoggedOneBoot
<1> QED BY <1>1, <1>2 DEF After, Writers, Fresh, Counts, Open, Child

\* observe() closes the .bin and takes the next number, or leaves it.
LEMMA ObserveAfter ==
  ASSUME Switches, Counts, Open, Child, alive = TRUE, Consistent(disk, tlog, bin, pending),
         OneBoot(ToSet(disk), bin), NEW ms \in 0..(Wrap - 1), Observe(ms)
  PROVE  /\ After /\ bin' \in {bin, NoFile}
         /\ "bin" \in kinds => last' = ms /\ (Backward(ms) => bin' = NoFile)
         /\ "bin" \notin kinds => last' = last /\ bin' = bin
         /\ bin' # bin => Backward(ms)
<1>1. PICK log \in Logged :
        /\ disk' = log[1] /\ tlog' = log[2]
        /\ IF "bin" \notin kinds THEN bin' = bin /\ pending' = pending /\ last' = last
           ELSE /\ last' = ms
                /\ IF Backward(ms) /\ bin # NoFile
                   THEN bin' = NoFile /\ pending' = NextN(log[1]) /\ NextN(log[1]) <= MaxN
                   ELSE bin' = bin /\ pending' = pending
  BY DEF Observe, Rotated
<1>2. CASE bin' = bin /\ pending' = pending
  <2>1. After
    BY <1>1, <1>2, FrameAfter
  <2> QED BY <1>1, <1>2, <2>1
<1>3. CASE /\ "bin" \in kinds /\ Backward(ms) /\ last' = ms
           /\ bin' = NoFile /\ pending' = NextN(log[1]) /\ NextN(log[1]) <= MaxN
  <2>1. /\ Consistent(log[1], log[2], bin, pending)
        /\ log[2] \in PathType \union {NoFile} /\ (log[2] # NoFile => "tlog" \in kinds)
    BY LoggedConsistent
  <2>2. OneBoot(ToSet(log[1]), bin) /\ (log[2] # tlog => ~Has(disk, log[2]))
    BY LoggedOneBoot
  <2>3. Consistent(log[1], log[2], NoFile, NextN(log[1]))
    BY <2>1, BinRotated
  <2>4. log[1] \in Seq(FileType)
    BY <2>1 DEF Consistent, Listing
  <2>5. NextN(log[1]) \in 0..MaxN
    BY <1>3, <2>4, NextNAbove, Constants
  <2>6. OneBoot(ToSet(log[1]), NoFile)
    <3>1. \A f \in ToSet(log[1]) : f \in FileType
      BY <2>4 DEF ToSet
    <3>2. \A f \in ToSet(log[1]) : f.path # NoFile
      BY <3>1, FileParts, PathParts
    <3> QED BY <3>2 DEF OneBoot
  <2>7. After
    BY <1>1, <1>3, <2>1, <2>2, <2>3, <2>5, <2>6 DEF After, Writers, Fresh
  <2> QED BY <1>3, <2>7
<1> QED BY <1>1, <1>2, <1>3

----------------------------------------------------------------------------
(* The steps *)

\* What every step gives: the invariant, and the two facts about the step itself.
Step == Inv' /\ Fresh /\ OneBoot(ToSet(disk'), bin')

\* No file is at NoFile.
LEMMA NoFileHasNone ==
  ASSUME Open, NEW fs \in Seq(FileType)
  PROVE  /\ \A f \in ToSet(fs) : f \in FileType /\ f.path \in PathType /\ f.path # NoFile
         /\ \A i \in DOMAIN victims : victims[i] \in PathType /\ victims[i] # NoFile
<1>1. \A f \in ToSet(fs) : f \in FileType
  BY DEF ToSet
<1>2. \A i \in DOMAIN victims : victims[i] \in PathType
  BY DEF Open
<1> QED BY <1>1, <1>2, FileParts, PathParts

\* A step of the child that has written files, opened or closed.
LEMMA Kept ==
  ASSUME Inv, After, alive = TRUE, day' = day, children' = children, alive' = alive,
         kinds' = kinds, n' = n, victims' = victims
  PROVE  Open' /\ Child' /\ Once' /\ Consistent(disk, tlog, bin, pending)'
<1>1. Writers(tlog', bin', pending') /\ Consistent(disk', tlog', bin', pending')
  BY DEF After
<1>2. Open'
  BY <1>1 DEF Inv, Open, Writers
<1>3. Child'
  BY <1>1 DEF Inv, Child, Writers
<1>4. Once'
  BY DEF Inv, Once
<1>5. Past(ToSet(disk))' /\ PairedIn(ToSet(disk))'
  BY <1>1 DEF Consistent, Past, PairedIn
<1>6. Below(ToSet(disk), pending)' /\ OwnTlog(ToSet(disk), tlog)' /\ OwnBin(ToSet(disk), bin, pending)'
  BY <1>1 DEF Consistent, Below, OwnTlog, OwnBin
<1>7. ActiveOwn(ToSet(disk), tlog, bin)'
  BY <1>1 DEF Consistent, ActiveOwn
<1>8. Listed(ToSet(disk))' /\ Spares(ToSet(disk), tlog, bin)'
  BY <1>1 DEF Consistent, Listed, Spares
<1>9. Listing(disk, children)'
  BY <1>1 DEF Consistent
<1> QED BY <1>2, <1>3, <1>4, <1>5, <1>6, <1>7, <1>8, <1>9 DEF Consistent

\* At first there is no file and no child.
LEMMA InitInv == Init => Inv
<1> SUFFICES ASSUME Init PROVE Inv
  OBVIOUS
<1>1. Switches
  BY DEF Init, Switches
<1>2. Counts
  BY Constants DEF Init, Counts, NoReport
<1>3. Open
  BY DEF Init, Open
<1>4. Child /\ Once
  BY DEF Init, Child, Once
<1>5. Reports
  BY Constants DEF Init, Reports, NoReport
<1>6. disk = <<>> /\ ToSet(disk) = {} /\ alive = FALSE /\ victims = <<>>
  BY DEF Init, ToSet
<1>7. Listing(disk, children)
  BY <1>6 DEF Listing, Unique, OwnLast
<1>8. Consistent(disk, tlog, bin, pending)
  BY <1>6, <1>7 DEF Consistent, Past, PairedIn, ActiveOwn, Listed, Spares
<1>9. OneBoot(ToSet(disk), bin)
  BY <1>6 DEF OneBoot
<1> QED BY <1>1, <1>2, <1>3, <1>4, <1>5, <1>8, <1>9 DEF Inv

\* A new child: every file is of an earlier one, and its number is above today's.
LEMMA StartChildStep == Inv /\ StartChild => Step
<1> SUFFICES ASSUME Inv, StartChild PROVE Step
  OBVIOUS
<1>0. /\ Switches /\ Counts /\ Open /\ Child /\ Reports /\ Once
      /\ Consistent(disk, tlog, bin, pending) /\ OneBoot(ToSet(disk), bin)
  BY DEF Inv
<1>1. /\ alive = FALSE /\ children < MaxChildren /\ NextN(disk) <= MaxN
      /\ alive' = TRUE /\ children' = children + 1 /\ kinds' \subseteq Kinds /\ n' = NextN(disk)
  BY <1>0 DEF StartChild, Switches
<1>2. /\ day' = day /\ disk' = disk /\ tlog' = tlog /\ bin' = bin /\ pending' = pending
      /\ last' = last /\ victims' = victims /\ boot' = boot /\ up' = up
      /\ told' = told /\ short' = short /\ stray' = stray
  BY DEF StartChild, vehicleVars, historyVars
<1>3. /\ tlog = NoFile /\ bin = NoFile /\ pending = 0 /\ told = NoReport /\ stray = FALSE
  BY <1>0, <1>1 DEF Child
<1>4. /\ Listing(disk, children) /\ disk \in Seq(FileType) /\ Unique(disk)
      /\ Past(ToSet(disk)) /\ PairedIn(ToSet(disk)) /\ Listed(ToSet(disk))
  BY <1>0 DEF Consistent, Listing
<1>5. /\ \A f \in ToSet(disk) : f \in FileType /\ f.path \in PathType /\ f.path # NoFile
      /\ \A i \in DOMAIN victims : victims[i] \in PathType /\ victims[i] # NoFile
  BY <1>0, <1>4, NoFileHasNone
<1>6. NextN(disk) \in Nat \ {0} /\ \A f \in ToSet(disk) : f.path[1] = day => f.path[2] < NextN(disk)
  BY <1>4, NextNAbove
<1>7. \A f \in ToSet(disk) : f.owner <= children /\ f.owner # children'
  <2>1. \A f \in ToSet(disk) : f.owner \in Nat /\ f.owner <= children
    BY <1>4, <1>5, FileParts DEF Past
  <2> QED BY <1>0, <1>1, <2>1, Constants DEF Counts
<1>8. Switches'
  BY <1>0, <1>1, <1>2 DEF Switches
<1>9. Counts'
  BY <1>0, <1>1, <1>2, <1>6, Constants DEF Counts
<1>10. Open' /\ Once'
  BY <1>0, <1>2 DEF Open, Once
<1>11. Child'
  BY <1>0, <1>1, <1>2, <1>3, <1>6, Constants DEF Child, Counts
<1>12. Reports'
  BY <1>0, <1>2, <1>3 DEF Reports, NoReport
<1>13. Listing(disk, children)'
  <2>1. \A i \in DOMAIN disk : disk[i].owner # children'
    BY <1>7 DEF ToSet
  <2> QED BY <1>2, <1>4, <2>1 DEF Listing, OwnLast, Unique
<1>14. Past(ToSet(disk))'
  <2>1. \A f \in ToSet(disk) : f.owner <= children'
    BY <1>0, <1>1, <1>5, <1>7, FileParts, Constants DEF Counts
  <2> QED BY <1>2, <1>4, <2>1 DEF Past
<1>15. PairedIn(ToSet(disk))' /\ Listed(ToSet(disk))'
  BY <1>2, <1>4 DEF PairedIn, Listed
<1>16. Below(ToSet(disk), pending)'
  BY <1>1, <1>2, <1>3, <1>6 DEF Below
<1>17. OwnTlog(ToSet(disk), tlog)' /\ OwnBin(ToSet(disk), bin, pending)'
  BY <1>2, <1>7 DEF OwnTlog, OwnBin
<1>18. ActiveOwn(ToSet(disk), tlog, bin)' /\ Spares(ToSet(disk), tlog, bin)'
  BY <1>2, <1>3, <1>5 DEF ActiveOwn, Spares
<1>19. Consistent(disk, tlog, bin, pending)'
  BY <1>13, <1>14, <1>15, <1>16, <1>17, <1>18 DEF Consistent
<1>20. OneBoot(ToSet(disk), bin)' /\ OneBoot(ToSet(disk'), bin') /\ Fresh
  BY <1>0, <1>2 DEF OneBoot, Fresh
<1> QED BY <1>8, <1>9, <1>10, <1>11, <1>12, <1>19, <1>20 DEF Inv, Step

\* A child that ends leaves its files.
LEMMA EndChildStep == Inv /\ EndChild => Step
<1> SUFFICES ASSUME Inv, EndChild PROVE Step
  OBVIOUS
<1>0. /\ Switches /\ Counts /\ Open /\ Once /\ Reports
      /\ Consistent(disk, tlog, bin, pending)
  BY DEF Inv
<1>1. /\ alive' = FALSE /\ kinds' = {} /\ n' = 0 /\ tlog' = NoFile /\ bin' = NoFile
      /\ pending' = 0 /\ last' = 0 /\ told' = NoReport /\ short' = TRUE /\ stray' = FALSE
      /\ day' = day /\ disk' = disk /\ children' = children /\ victims' = victims
      /\ boot' = boot /\ up' = up
  BY DEF EndChild, vehicleVars
<1>2. /\ Listing(disk, children) /\ disk \in Seq(FileType)
      /\ Past(ToSet(disk)) /\ PairedIn(ToSet(disk)) /\ Listed(ToSet(disk))
  BY <1>0 DEF Consistent, Listing
<1>3. /\ \A f \in ToSet(disk) : f.path # NoFile
      /\ \A i \in DOMAIN victims : victims[i] # NoFile
  BY <1>0, <1>2, NoFileHasNone
<1>4. Switches'
  BY <1>1 DEF Switches
<1>5. Counts'
  BY <1>0, <1>1, Constants DEF Counts, NoReport
<1>6. Open' /\ Once' /\ Child'
  BY <1>0, <1>1 DEF Open, Once, Child
<1>7. Reports'
  BY <1>0, <1>1 DEF Reports, NoReport, Counts
<1>8. Consistent(disk, tlog, bin, pending)'
  <2>1. Listing(disk, children)'
    BY <1>1, <1>2
  <2>2. Past(ToSet(disk))' /\ PairedIn(ToSet(disk))' /\ Listed(ToSet(disk))'
    BY <1>1, <1>2 DEF Past, PairedIn, Listed
  <2>3. ActiveOwn(ToSet(disk), tlog, bin)' /\ Spares(ToSet(disk), tlog, bin)'
    BY <1>1, <1>3 DEF ActiveOwn, Spares
  <2> QED BY <1>1, <2>1, <2>2, <2>3 DEF Consistent
<1>9. OneBoot(ToSet(disk), bin)' /\ OneBoot(ToSet(disk'), bin') /\ Fresh
  BY <1>1, <1>3 DEF OneBoot, Fresh
<1> QED BY <1>4, <1>5, <1>6, <1>7, <1>8, <1>9 DEF Inv, Step

\* A step of the child that leaves the history, the vehicle and its clock alone.
LEMMA WriterStep ==
  ASSUME Inv, After, alive = TRUE, alive' = alive, kinds' = kinds, n' = n, last' = last,
         day' = day, children' = children, victims' = victims, boot' = boot, up' = up,
         told' = told, short' = short, stray' = stray
  PROVE  Step
<1>1. Open' /\ Child' /\ Once' /\ Consistent(disk, tlog, bin, pending)'
  BY Kept
<1>2. Switches' /\ Reports'
  BY DEF Inv, Switches, Reports
<1>3. Counts'
  BY DEF Inv, Counts, After, Writers
<1>4. OneBoot(ToSet(disk), bin)' /\ OneBoot(ToSet(disk'), bin') /\ Fresh
  BY DEF After, OneBoot
<1> QED BY <1>1, <1>2, <1>3, <1>4 DEF Inv, Step

\* Telemetry.
LEMMA FrameStep == Inv /\ Frame => Step
<1> SUFFICES ASSUME Inv, Frame PROVE Step
  OBVIOUS
<1>1. PICK log \in Logged : disk' = log[1] /\ tlog' = log[2]
  BY DEF Frame
<1>2. /\ alive = TRUE /\ alive' = alive /\ kinds' = kinds /\ n' = n /\ last' = last
      /\ day' = day /\ children' = children /\ victims' = victims /\ boot' = boot /\ up' = up
      /\ told' = told /\ short' = short /\ stray' = stray /\ bin' = bin /\ pending' = pending
  BY DEF Frame, vehicleVars, historyVars, Inv, Switches
<1>3. After
  BY <1>1, <1>2, FrameAfter DEF Inv
<1> QED BY <1>2, <1>3, WriterStep

\* A block of the running boot.
LEMMA BlockArrivesStep == ASSUME NEW first \in BOOLEAN PROVE Inv /\ BlockArrives(first) => Step
<1> SUFFICES ASSUME Inv, BlockArrives(first) PROVE Step
  OBVIOUS
<1>1. /\ alive = TRUE /\ alive' = alive /\ kinds' = kinds /\ n' = n /\ last' = last
      /\ day' = day /\ children' = children /\ victims' = victims /\ boot' = boot /\ up' = up
      /\ told' = told /\ short' = short /\ stray' = stray
  BY DEF BlockArrives, vehicleVars, historyVars, Inv, Switches
<1>2. Block(boot, first) /\ boot \in 1..MaxBoot
  BY DEF BlockArrives, Inv, Counts
<1>3. After
  BY <1>1, <1>2, BlockAfter DEF Inv
<1> QED BY <1>1, <1>3, WriterStep

\* A block of the boot before.
LEMMA LateBlockStep == Inv /\ LateBlock => Step
<1> SUFFICES ASSUME Inv, LateBlock PROVE Step
  OBVIOUS
<1>1. /\ alive = TRUE /\ alive' = alive /\ kinds' = kinds /\ n' = n /\ last' = last
      /\ day' = day /\ children' = children /\ victims' = victims /\ boot' = boot /\ up' = up
      /\ told' = told /\ short' = short /\ stray' = stray
  BY DEF LateBlock, vehicleVars, historyVars, Inv, Switches
<1>2. Block(boot - 1, FALSE) /\ boot - 1 \in 1..MaxBoot
  <2>1. Block(boot - 1, FALSE)
    BY DEF LateBlock
  <2>2. boot > 1 /\ boot \in 1..MaxBoot
    BY DEF LateBlock, Inv, Counts
  <2>3. boot - 1 \in 1..MaxBoot
    BY <2>2, Constants
  <2> QED BY <2>1, <2>3
<1>3. \A f \in ToSet(disk) : boot \notin f.boots
  BY DEF LateBlock, ToSet
<1>4. After
  BY <1>1, <1>2, <1>3, BlockAfter DEF Inv
<1> QED BY <1>1, <1>4, WriterStep

\* The clock in a report is a number of 32 bits.
LEMMA ClockWraps == ASSUME NEW t \in Nat PROVE t % Wrap \in 0..(Wrap - 1) /\ (t < Wrap => t % Wrap = t)
<1>1. Wrap \in Nat \ {0}
  BY Constants
<1>2. t % Wrap \in 0..(Wrap - 1)
  BY <1>1
<1>3. t < Wrap => t % Wrap = t
  BY <1>1
<1> QED BY <1>2, <1>3

\* The first report of a boot that shows the reboot closes the file.
LEMMA SystemTimeStep == Inv /\ SystemTime => Step
<1> SUFFICES ASSUME Inv, SystemTime PROVE Step
  OBVIOUS
<1> DEFINE ms == up % Wrap
<1>0. /\ Switches /\ Counts /\ Open /\ Child /\ Reports
      /\ Consistent(disk, tlog, bin, pending) /\ OneBoot(ToSet(disk), bin)
  BY DEF Inv
<1>1. /\ alive = TRUE /\ alive' = alive /\ kinds' = kinds /\ n' = n /\ day' = day
      /\ children' = children /\ victims' = victims /\ boot' = boot /\ up' = up /\ stray' = stray
      /\ told' = (IF stray THEN NoReport ELSE [boot |-> boot, up |-> up])
      /\ short' = (IF told.boot = boot \/ stray THEN short
                   ELSE told.boot = 0 \/ told.up % Wrap = 0 \/ told.up >= Wrap
                        \/ up + Back > told.up \/ up + Back >= Wrap)
  BY <1>0 DEF SystemTime, vehicleVars, Switches
<1>2. Observe(ms) /\ ms \in 0..(Wrap - 1)
  <2>1. up \in Nat
    BY <1>0, Constants DEF Counts
  <2> QED BY <2>1, ClockWraps DEF SystemTime
<1> HIDE DEF ms
<1>3. /\ After /\ bin' \in {bin, NoFile}
      /\ "bin" \in kinds => last' = ms /\ (Backward(ms) => bin' = NoFile)
      /\ "bin" \notin kinds => last' = last /\ bin' = bin
  BY <1>0, <1>1, <1>2, ObserveAfter
<1>4. Open' /\ Child' /\ Once' /\ Consistent(disk, tlog, bin, pending)'
  BY <1>1, <1>3, Kept
<1>5. Switches'
  <2>1. short' \in BOOLEAN
    BY <1>0, <1>1 DEF Switches
  <2> QED BY <1>0, <1>1, <2>1 DEF Switches
<1>6. Counts'
  <2>1. last' \in 0..(Wrap - 1)
    BY <1>0, <1>2, <1>3 DEF Counts
  <2>2. told' \in [boot : 0..MaxBoot, up : 0..MaxUp]
    BY <1>0, <1>1, Constants DEF Counts, NoReport
  <2>3. pending' \in 0..MaxN
    BY <1>3 DEF After, Writers
  <2> QED BY <1>0, <1>1, <2>1, <2>2, <2>3 DEF Counts
<1>7. Reports'
  <2>1. CASE stray = TRUE
    BY <1>0, <1>1, <2>1, Constants DEF Reports, NoReport, Counts
  <2>2. CASE stray = FALSE
    <3>1. told'.boot = boot /\ told'.up = up
      BY <1>1, <2>2
    <3>2. "bin" \in kinds => last' = up % Wrap
      BY <1>3 DEF ms
    <3>3. boot' <= boot' /\ up' <= up'
      BY <1>0, <1>1, Constants DEF Counts
    <3> QED BY <1>1, <2>2, <3>1, <3>2, <3>3 DEF Reports
  <2> QED BY <1>0, <2>1, <2>2 DEF Switches
<1>8. OneBoot(ToSet(disk'), bin') /\ Fresh
  BY <1>3 DEF After
<1>9. \A f \in ToSet(disk') : f.path # NoFile
  <2>1. disk' \in Seq(FileType)
    BY <1>3 DEF After, Consistent, Listing
  <2> QED BY <1>0, <2>1, NoFileHasNone
<1>10. OneBoot(ToSet(disk), bin)'
  <2> SUFFICES ASSUME told'.boot = boot', short' = FALSE, stray' = FALSE
               PROVE  \A f \in ToSet(disk') : f.path = bin' => f.boots = {boot'}
    BY DEF OneBoot
  <2>1. stray = FALSE
    BY <1>1
  <2>2. CASE told.boot = boot
    BY <1>1, <1>8, <2>1, <2>2 DEF OneBoot
  <2>3. CASE told.boot # boot
    <3>1. /\ told.boot # 0 /\ told.up % Wrap # 0 /\ ~(told.up >= Wrap)
          /\ ~(up + Back > told.up) /\ ~(up + Back >= Wrap)
      BY <1>1, <2>1, <2>3
    <3>2. bin' = NoFile
      <4>1. CASE "bin" \in kinds
        <5>1. /\ up \in Nat /\ told.up \in Nat /\ Back \in Nat /\ Wrap \in Nat
              /\ last = told.up % Wrap
          BY <1>0, <3>1, <4>1, Constants DEF Counts, Reports
        <5>2. up < Wrap /\ up + Back < Wrap /\ told.up < Wrap /\ up + Back <= told.up
              /\ up + Back \in Nat
          BY <3>1, <5>1, Constants
        <5>3. last = told.up /\ last # 0 /\ ms = up /\ (up + Back) % Wrap = up + Back
          BY <3>1, <5>1, <5>2, ClockWraps DEF ms
        <5>4. Backward(ms)
          BY <5>2, <5>3 DEF Backward
        <5> QED BY <1>3, <4>1, <5>4
      <4>2. CASE "bin" \notin kinds
        BY <1>0, <1>3, <4>2 DEF Child
      <4> QED BY <4>1, <4>2
    <3> QED BY <1>9, <3>2
  <2> QED BY <2>2, <2>3
<1> QED BY <1>4, <1>5, <1>6, <1>7, <1>8, <1>10 DEF Inv, Step

\* After a report out of order nothing is said of the file's boots.
LEMMA StrayTimeStep == ASSUME NEW ms \in 0..(Wrap - 1) PROVE Inv /\ StrayTime(ms) => Step
<1> SUFFICES ASSUME Inv, StrayTime(ms) PROVE Step
  OBVIOUS
<1>0. /\ Switches /\ Counts /\ Open /\ Child /\ Reports
      /\ Consistent(disk, tlog, bin, pending) /\ OneBoot(ToSet(disk), bin)
  BY DEF Inv
<1>1. /\ alive = TRUE /\ alive' = alive /\ kinds' = kinds /\ n' = n /\ day' = day
      /\ children' = children /\ victims' = victims /\ boot' = boot /\ up' = up /\ stray' = TRUE
      /\ told' = NoReport /\ short' = TRUE /\ Observe(ms)
  BY <1>0 DEF StrayTime, vehicleVars, Switches
<1>2. /\ After /\ last' \in {ms, last}
  BY <1>0, <1>1, ObserveAfter
<1>3. Open' /\ Child' /\ Once' /\ Consistent(disk, tlog, bin, pending)'
  BY <1>1, <1>2, Kept
<1>4. Switches'
  BY <1>0, <1>1 DEF Switches
<1>5. Counts'
  <2>1. told' \in [boot : 0..MaxBoot, up : 0..MaxUp]
    BY <1>1, Constants DEF NoReport
  <2>2. pending' \in 0..MaxN /\ last' \in 0..(Wrap - 1)
    BY <1>0, <1>2 DEF After, Writers, Counts
  <2> QED BY <1>0, <1>1, <2>1, <2>2 DEF Counts
<1>6. Reports'
  BY <1>0, <1>1, Constants DEF Reports, NoReport, Counts
<1>7. OneBoot(ToSet(disk), bin)' /\ OneBoot(ToSet(disk'), bin') /\ Fresh
  BY <1>1, <1>2 DEF After, OneBoot
<1> QED BY <1>3, <1>4, <1>5, <1>6, <1>7 DEF Inv, Step

\* A file that is removed, of those that the quota pass will not look for.
LEMMA RemovedStep ==
  ASSUME Inv, NEW path, disk' = Others(disk, path), Listed(ToSet(disk))',
         victims' \in Seq(PathType), Once', Spares(ToSet(disk), tlog, bin)',
         day' = day, children' = children, alive' = alive, kinds' = kinds, n' = n, tlog' = tlog,
         bin' = bin, pending' = pending, last' = last, boot' = boot, up' = up,
         told' = told, short' = short, stray' = stray
  PROVE  Step
<1>0. /\ Switches /\ Counts /\ Open /\ Child /\ Reports
      /\ Consistent(disk, tlog, bin, pending) /\ OneBoot(ToSet(disk), bin)
  BY DEF Inv
<1>1. /\ Listing(disk, children) /\ Past(ToSet(disk)) /\ PairedIn(ToSet(disk))
      /\ ActiveOwn(ToSet(disk), tlog, bin)
      /\ alive = TRUE => /\ Below(ToSet(disk), pending) /\ OwnTlog(ToSet(disk), tlog)
                         /\ OwnBin(ToSet(disk), bin, pending)
  BY <1>0 DEF Consistent
<1>2. Listing(disk', children) /\ \A f \in ToSet(disk') : f \in ToSet(disk)
  BY <1>1, OthersListing
<1>3. Switches' /\ Counts' /\ Open' /\ Child' /\ Reports'
  BY <1>0 DEF Switches, Counts, Open, Child, Reports
<1>4. Past(ToSet(disk))' /\ PairedIn(ToSet(disk))' /\ ActiveOwn(ToSet(disk), tlog, bin)'
  BY <1>1, <1>2 DEF Past, PairedIn, ActiveOwn
<1>5. alive' = TRUE => /\ Below(ToSet(disk), pending)' /\ OwnTlog(ToSet(disk), tlog)'
                       /\ OwnBin(ToSet(disk), bin, pending)'
  BY <1>1, <1>2 DEF Below, OwnTlog, OwnBin
<1>6. Consistent(disk, tlog, bin, pending)'
  BY <1>2, <1>4, <1>5 DEF Consistent
<1>7. OneBoot(ToSet(disk), bin)' /\ OneBoot(ToSet(disk'), bin') /\ Fresh
  BY <1>0, <1>2 DEF OneBoot, Fresh
<1> QED BY <1>3, <1>6, <1>7 DEF Inv, Step

\* retention_pass() comes when the quota pass has nothing left to do.
LEMMA ExpireStep == ASSUME NEW i \in DOMAIN disk PROVE Inv /\ Expire(i) => Step
<1> SUFFICES ASSUME Inv, Expire(i) PROVE Step
  OBVIOUS
<1>1. /\ victims = <<>> /\ disk' = Others(disk, disk[i].path) /\ victims' = victims
      /\ day' = day /\ children' = children /\ alive' = alive /\ kinds' = kinds /\ n' = n
      /\ tlog' = tlog /\ bin' = bin /\ pending' = pending /\ last' = last /\ boot' = boot
      /\ up' = up /\ told' = told /\ short' = short /\ stray' = stray
  BY DEF Expire, childVars, writerVars, vehicleVars, historyVars
<1>2. Listed(ToSet(disk))' /\ Spares(ToSet(disk), tlog, bin)' /\ Once'
      /\ victims' \in Seq(PathType)
  BY <1>1 DEF Listed, Spares, Once
<1> QED BY <1>1, <1>2, RemovedStep

\* The oldest file leaves the disk and the list.
LEMMA UnlinkStep == Inv /\ UnlinkForQuota => Step
<1> SUFFICES ASSUME Inv, UnlinkForQuota PROVE Step
  OBVIOUS
<1>0. /\ Once /\ Listing(disk, children) /\ victims \in Seq(PathType)
      /\ Listed(ToSet(disk)) /\ Spares(ToSet(disk), tlog, bin)
  BY DEF Inv, Consistent, Open
<1>1. /\ victims # <<>> /\ disk' = Others(disk, Head(victims))
      /\ day' = day /\ children' = children /\ alive' = alive /\ kinds' = kinds /\ n' = n
      /\ tlog' = tlog /\ bin' = bin /\ pending' = pending /\ last' = last /\ boot' = boot
      /\ up' = up /\ told' = told /\ short' = short /\ stray' = stray
  BY DEF UnlinkForQuota, childVars, writerVars, vehicleVars, historyVars
<1>a. CASE victims' = <<>>
  <2>1. Once' /\ Listed(ToSet(disk))' /\ Spares(ToSet(disk), tlog, bin)'
        /\ victims' \in Seq(PathType)
    BY <1>a DEF Once, Listed, Spares
  <2> QED BY <1>1, <2>1, RemovedStep
<1> SUFFICES ASSUME victims' = Tail(victims) PROVE Step
  BY <1>a DEF UnlinkForQuota
<1>2. ToSet(disk') = {f \in ToSet(disk) : f.path # Head(victims)}
  BY <1>0, <1>1, OthersListing
<1>3. /\ Head(victims) = victims[1] /\ Tail(victims) \in Seq(PathType)
      /\ Len(victims) \in Nat \ {0} /\ Len(Tail(victims)) = Len(victims) - 1
      /\ \A i \in 1..(Len(victims) - 1) : Tail(victims)[i] = victims[i + 1]
  BY <1>0, <1>1
<1>4. DOMAIN victims = 1..Len(victims) /\ DOMAIN Tail(victims) = 1..(Len(victims) - 1)
  BY <1>0, <1>3
<1>5. ASSUME NEW i \in DOMAIN Tail(victims)
      PROVE  /\ i + 1 \in DOMAIN victims /\ Tail(victims)[i] = victims[i + 1] /\ i \in Nat
             /\ victims[i + 1] # victims[1]
  <2>1. i + 1 \in DOMAIN victims /\ Tail(victims)[i] = victims[i + 1] /\ i + 1 # 1
        /\ 1 \in DOMAIN victims /\ i \in Nat
    BY <1>3, <1>4
  <2> QED BY <1>0, <2>1 DEF Once
<1>6. Once'
  <2> SUFFICES ASSUME NEW i \in DOMAIN Tail(victims), NEW j \in DOMAIN Tail(victims),
                      Tail(victims)[i] = Tail(victims)[j]
               PROVE  i = j
    BY <1>1 DEF Once
  <2>1. i + 1 = j + 1
    BY <1>0, <1>5 DEF Once
  <2> QED BY <1>5, <2>1
<1>7. Listed(ToSet(disk))'
  <2> SUFFICES ASSUME NEW i \in DOMAIN Tail(victims)
               PROVE  \E f \in ToSet(disk') : f.path = Tail(victims)[i]
    BY <1>1 DEF Listed
  <2>1. PICK f \in ToSet(disk) : f.path = victims[i + 1]
    BY <1>0, <1>5 DEF Listed
  <2> QED BY <1>2, <1>3, <1>5, <2>1
<1>8. Spares(ToSet(disk), tlog, bin)'
  <2> SUFFICES ASSUME NEW i \in DOMAIN Tail(victims),
                      Tail(victims)[i] = tlog \/ Tail(victims)[i] = bin,
                      NEW f \in ToSet(disk'), f.owner # children
               PROVE  \E k \in DOMAIN Tail(victims) : k < i /\ f.path = Tail(victims)[k]
    BY <1>1 DEF Spares
  <2>1. PICK k \in DOMAIN victims : k < i + 1 /\ f.path = victims[k]
    BY <1>0, <1>2, <1>5 DEF Spares
  <2>2. k # 1
    BY <1>2, <1>3, <2>1
  <2>3. k - 1 \in DOMAIN Tail(victims) /\ k - 1 < i /\ (k - 1) + 1 = k
    BY <1>3, <1>4, <1>5, <2>1, <2>2
  <2>4. Tail(victims)[k - 1] = victims[k]
    BY <1>5, <2>3
  <2> QED BY <2>1, <2>3, <2>4
<1>9. victims' \in Seq(PathType)
  BY <1>1, <1>3
<1> QED BY <1>1, <1>6, <1>7, <1>8, <1>9, RemovedStep

\* enforce_port2_quota() lists files in the order of their last write, so those of the
\* child come last.
LEMMA ListForQuotaStep == Inv /\ ListForQuota => Step
<1> SUFFICES ASSUME Inv, ListForQuota PROVE Step
  OBVIOUS
<1>0. /\ Switches /\ Counts /\ Open /\ Child /\ Reports
      /\ Consistent(disk, tlog, bin, pending) /\ OneBoot(ToSet(disk), bin)
      /\ Listing(disk, children) /\ disk \in Seq(FileType) /\ Unique(disk)
      /\ OwnLast(disk, children) /\ ActiveOwn(ToSet(disk), tlog, bin)
  BY DEF Inv, Consistent, Listing
<1> DEFINE m == Len(disk)
<1>1. /\ victims' = Paths(disk)
      /\ day' = day /\ children' = children /\ alive' = alive /\ kinds' = kinds /\ n' = n
      /\ disk' = disk /\ tlog' = tlog /\ bin' = bin /\ pending' = pending /\ last' = last
      /\ boot' = boot /\ up' = up /\ told' = told /\ short' = short /\ stray' = stray
  BY DEF ListForQuota, OldestFirst, childVars, writerVars, vehicleVars, historyVars
<1>2. m \in Nat /\ m <= Len(disk) /\ Len(disk) \in Nat /\ DOMAIN disk = 1..Len(disk)
  BY <1>0
<1> HIDE DEF m
<1>3. \A i \in 1..Len(disk) : disk[i] \in FileType /\ disk[i].path \in PathType
  BY <1>0, FileParts
<1>4. Paths(disk) \in Seq(PathType) /\ Len(Paths(disk)) = Len(disk)
      /\ \A i \in 1..Len(disk) : Paths(disk)[i] = disk[i].path
  <2>1. Paths(disk) = [i \in 1..Len(disk) |-> disk[i].path]
    BY <1>2 DEF Paths
  <2> QED BY <1>2, <1>3, <2>1
<1>5. /\ victims' \in Seq(PathType) /\ Len(victims') = m
      /\ \A i \in 1..m : victims'[i] = Paths(disk)[i]
  BY <1>1, <1>2, <1>4 DEF m
<1>6. DOMAIN victims' = 1..m /\ \A i \in 1..m : victims'[i] = disk[i].path /\ i \in DOMAIN disk
  BY <1>2, <1>4, <1>5
<1>7. Once'
  BY <1>0, <1>6 DEF Once, Unique
<1>8. Listed(ToSet(disk))'
  <2>1. \A i \in 1..m : disk[i] \in ToSet(disk)
    BY <1>6 DEF ToSet
  <2> QED BY <1>1, <1>6, <2>1 DEF Listed
<1>9. Spares(ToSet(disk), tlog, bin)'
  <2> SUFFICES ASSUME NEW i \in DOMAIN victims', victims'[i] = tlog \/ victims'[i] = bin,
                      NEW f \in ToSet(disk), f.owner # children
               PROVE  \E k \in DOMAIN victims' : k < i /\ f.path = victims'[k]
    BY <1>1 DEF Spares
  <2>1. PICK j \in DOMAIN disk : f = disk[j]
    BY DEF ToSet
  <2>2. disk[i].owner = children /\ i \in DOMAIN disk /\ i \in 1..m
    <3>1. i \in 1..m /\ i \in DOMAIN disk /\ (disk[i].path = tlog \/ disk[i].path = bin)
      BY <1>6
    <3>2. disk[i] \in ToSet(disk)
      BY <3>1 DEF ToSet
    <3> QED BY <1>0, <3>1, <3>2 DEF ActiveOwn
  <2>3. ~(i < j) /\ i # j
    BY <1>0, <2>1, <2>2 DEF OwnLast
  <2>4. j < i /\ j \in 1..m
    BY <1>2, <2>1, <2>2, <2>3
  <2> QED BY <1>6, <2>1, <2>4
<1>10. Switches' /\ Counts' /\ Child' /\ Reports' /\ OneBoot(ToSet(disk), bin)'
  BY <1>0, <1>1 DEF Switches, Counts, Child, Reports, OneBoot
<1>11. Open'
  BY <1>0, <1>1, <1>5 DEF Open
<1>12. Consistent(disk, tlog, bin, pending)'
  <2>1. Listing(disk, children)' /\ Past(ToSet(disk))' /\ PairedIn(ToSet(disk))'
    BY <1>0, <1>1 DEF Consistent, Past, PairedIn
  <2>2. alive' = TRUE => /\ Below(ToSet(disk), pending)' /\ OwnTlog(ToSet(disk), tlog)'
                         /\ OwnBin(ToSet(disk), bin, pending)'
    BY <1>0, <1>1 DEF Consistent, Below, OwnTlog, OwnBin
  <2>3. ActiveOwn(ToSet(disk), tlog, bin)'
    BY <1>0, <1>1 DEF ActiveOwn
  <2> QED BY <1>8, <1>9, <2>1, <2>2, <2>3 DEF Consistent
<1>13. OneBoot(ToSet(disk'), bin') /\ Fresh
  BY <1>0, <1>1 DEF OneBoot, Fresh
<1> QED BY <1>7, <1>10, <1>11, <1>12, <1>13 DEF Inv, Step

\* Files and writers in a step of the vehicle or of the calendar.
LEMMA Untouched ==
  ASSUME Inv, disk' = disk, children' = children, alive' = alive, kinds' = kinds, n' = n,
         tlog' = tlog, bin' = bin, pending' = pending, last' = last, victims' = victims,
         told' = told, short' = short, stray' = stray, day <= day', day' \in 0..MaxDay
  PROVE  /\ Switches' /\ Open' /\ Child' /\ Once' /\ Consistent(disk, tlog, bin, pending)'
         /\ OneBoot(ToSet(disk'), bin') /\ Fresh
<1>0. /\ Switches /\ Open /\ Child /\ Once /\ Consistent(disk, tlog, bin, pending)
      /\ Listing(disk, children) /\ disk \in Seq(FileType)
      /\ Past(ToSet(disk)) /\ PairedIn(ToSet(disk))
      /\ ActiveOwn(ToSet(disk), tlog, bin) /\ Listed(ToSet(disk)) /\ Spares(ToSet(disk), tlog, bin)
  BY DEF Inv, Consistent, Listing
<1>1. Switches' /\ Open' /\ Child' /\ Once'
  BY <1>0 DEF Switches, Open, Child, Once
<1>2. \A f \in ToSet(disk) : f.path[1] <= day' /\ (f.path[1] = day' => f.path[1] = day)
  <2>1. \A f \in ToSet(disk) : f.path[1] \in Nat /\ f.path[1] <= day
    BY <1>0, NoFileHasNone, PathParts DEF Past
  <2>2. day \in Nat /\ day' \in Nat
    BY Constants DEF Inv, Counts
  <2> QED BY <2>1, <2>2
<1>3. Past(ToSet(disk))' /\ PairedIn(ToSet(disk))'
  BY <1>0, <1>2 DEF Past, PairedIn
<1>4. alive' = TRUE => Below(ToSet(disk), pending)'
  BY <1>0, <1>2 DEF Consistent, Below
<1>5. alive' = TRUE => OwnTlog(ToSet(disk), tlog)'
  BY <1>0 DEF Consistent, OwnTlog
<1>6. alive' = TRUE => OwnBin(ToSet(disk), bin, pending)'
  BY <1>0, <1>2 DEF Consistent, OwnBin
<1>7. ActiveOwn(ToSet(disk), tlog, bin)' /\ Listed(ToSet(disk))' /\ Spares(ToSet(disk), tlog, bin)'
  BY <1>0 DEF ActiveOwn, Listed, Spares
<1>8. Listing(disk, children)'
  BY <1>0
<1>9. OneBoot(ToSet(disk'), bin') /\ Fresh
  BY DEF Inv, OneBoot, Fresh
<1> QED BY <1>1, <1>3, <1>4, <1>5, <1>6, <1>7, <1>8, <1>9 DEF Consistent

\* The vehicle's clock, a reboot that nobody has reported yet, and midnight.
LEMMA RunStep == Inv /\ Run => Step
<1> SUFFICES ASSUME Inv, Run PROVE Step
  OBVIOUS
<1>1. /\ disk' = disk /\ children' = children /\ alive' = alive /\ kinds' = kinds /\ n' = n
      /\ tlog' = tlog /\ bin' = bin /\ pending' = pending /\ last' = last /\ victims' = victims
      /\ told' = told /\ short' = short /\ stray' = stray /\ day' = day /\ boot' = boot
      /\ up' = up + 1 /\ up < MaxUp
  BY DEF Run, childVars, writerVars, historyVars
<1>2. Counts /\ Reports /\ OneBoot(ToSet(disk), bin)
  BY DEF Inv
<1>3. day \in Nat /\ day' \in 0..MaxDay /\ day <= day'
  BY <1>1, <1>2, Constants DEF Counts
<1>4. Counts'
  BY <1>1, <1>2, Constants DEF Counts
<1>5. Reports'
  BY <1>1, <1>2, Constants DEF Counts, Reports
<1>6. OneBoot(ToSet(disk), bin)'
  BY <1>1, <1>2 DEF OneBoot
<1> QED BY <1>1, <1>3, <1>4, <1>5, <1>6, Untouched DEF Inv, Step

\* After it no report is of the running boot.
LEMMA RebootStep == Inv /\ Reboot => Step
<1> SUFFICES ASSUME Inv, Reboot PROVE Step
  OBVIOUS
<1>1. /\ disk' = disk /\ children' = children /\ alive' = alive /\ kinds' = kinds /\ n' = n
      /\ tlog' = tlog /\ bin' = bin /\ pending' = pending /\ last' = last /\ victims' = victims
      /\ told' = told /\ short' = short /\ stray' = stray /\ day' = day
      /\ boot' = boot + 1 /\ boot < MaxBoot /\ up' = 0
  BY DEF Reboot, childVars, writerVars, historyVars
<1>2. Counts /\ Reports
  BY DEF Inv
<1>3. day \in Nat /\ day' \in 0..MaxDay /\ day <= day'
  BY <1>1, <1>2, Constants DEF Counts
<1>4. Counts'
  BY <1>1, <1>2, Constants DEF Counts
<1>5. told.boot < boot'
  BY <1>1, <1>2, Constants DEF Counts, Reports
<1>6. Reports' /\ OneBoot(ToSet(disk), bin)'
  <2>1. told'.boot <= boot' /\ told'.boot # boot'
    BY <1>1, <1>2, <1>5, Constants DEF Counts
  <2> QED BY <1>1, <1>2, <2>1 DEF Reports, OneBoot
<1> QED BY <1>1, <1>3, <1>4, <1>6, Untouched DEF Inv, Step

\* No file is of the new date.
LEMMA MidnightStep == Inv /\ Midnight => Step
<1> SUFFICES ASSUME Inv, Midnight PROVE Step
  OBVIOUS
<1>1. /\ disk' = disk /\ children' = children /\ alive' = alive /\ kinds' = kinds /\ n' = n
      /\ tlog' = tlog /\ bin' = bin /\ pending' = pending /\ last' = last /\ victims' = victims
      /\ told' = told /\ short' = short /\ stray' = stray /\ boot' = boot /\ up' = up
      /\ day' = day + 1 /\ day < MaxDay
  BY DEF Midnight, childVars, writerVars, vehicleVars, historyVars
<1>2. Counts /\ Reports /\ OneBoot(ToSet(disk), bin)
  BY DEF Inv
<1>3. day \in Nat /\ day' \in 0..MaxDay /\ day <= day'
  BY <1>1, <1>2, Constants DEF Counts
<1>4. Counts' /\ Reports' /\ OneBoot(ToSet(disk), bin)'
  BY <1>1, <1>2, <1>3 DEF Counts, Reports, OneBoot
<1> QED BY <1>1, <1>3, <1>4, Untouched DEF Inv, Step

\* Nothing happens.
LEMMA StutterStep == Inv /\ UNCHANGED vars => Step
<1> SUFFICES ASSUME Inv, UNCHANGED vars PROVE Step
  OBVIOUS
<1>1. /\ disk' = disk /\ children' = children /\ alive' = alive /\ kinds' = kinds /\ n' = n
      /\ tlog' = tlog /\ bin' = bin /\ pending' = pending /\ last' = last /\ victims' = victims
      /\ told' = told /\ short' = short /\ stray' = stray /\ day' = day /\ boot' = boot /\ up' = up
  BY DEF vars, childVars, writerVars, vehicleVars, historyVars
<1>2. Counts /\ Reports /\ OneBoot(ToSet(disk), bin)
  BY DEF Inv
<1>3. day' \in 0..MaxDay /\ day <= day'
  BY <1>1, <1>2, Constants DEF Counts
<1>4. Counts' /\ Reports' /\ OneBoot(ToSet(disk), bin)'
  BY <1>1, <1>2 DEF Counts, Reports, OneBoot
<1> QED BY <1>1, <1>3, <1>4, Untouched DEF Inv, Step

\* Every step.
LEMMA NextStep == Inv /\ [Next]_vars => Step
BY StartChildStep, EndChildStep, FrameStep, BlockArrivesStep, LateBlockStep, SystemTimeStep,
   StrayTimeStep, ExpireStep, UnlinkStep, ListForQuotaStep, RunStep, RebootStep, MidnightStep,
   StutterStep DEF Next

\* The invariant holds in every behaviour.
LEMMA InvHolds == Spec => []Inv
<1>1. Inv /\ [Next]_vars => Inv'
  BY NextStep DEF Step
<1> QED BY InitInv, <1>1, PTL DEF Spec

----------------------------------------------------------------------------
(* The theorems *)

\* Theorem: the type invariant.
THEOREM TypeCorrect == Spec => []TypeOK
<1>1. Inv => TypeOK
  BY TypeParts DEF Inv, Consistent, Listing
<1> QED BY <1>1, InvHolds, PTL

\* Theorem: sessionN.tlog and sessionN.bin of a day are of one child, however many
\* children, reboots, failed opens, dates and cleanups there were.
THEOREM PairedCorrect == Spec => []Paired
<1>1. Inv => Paired
  <2> SUFFICES ASSUME Inv, NEW i \in DOMAIN disk, NEW j \in DOMAIN disk,
                      disk[i].path[1] = disk[j].path[1], disk[i].path[2] = disk[j].path[2]
               PROVE  disk[i].owner = disk[j].owner
    BY DEF Paired
  <2>1. disk[i] \in ToSet(disk) /\ disk[j] \in ToSet(disk)
    BY DEF ToSet
  <2>2. PairedIn(ToSet(disk))
    BY DEF Inv, Consistent
  <2> QED BY <2>1, <2>2 DEF PairedIn
<1> QED BY <1>1, InvHolds, PTL

\* Theorem: the quota pass unlinks an open file only when all files are of the child that
\* has it open, whatever was written, opened or removed since the pass listed the files.
THEOREM QuotaCorrect == Spec => []QuotaSparesActive
<1>1. Inv => QuotaSparesActive
  <2> SUFFICES ASSUME Inv, victims # <<>>, Head(victims) \in Active, NEW i \in DOMAIN disk
               PROVE  disk[i].owner = children
    BY DEF QuotaSparesActive
  <2>1. victims \in Seq(PathType) /\ Spares(ToSet(disk), tlog, bin)
    BY DEF Inv, Open, Consistent
  <2>2. 1 \in DOMAIN victims /\ DOMAIN victims \subseteq Nat \ {0} /\ victims[1] = Head(victims)
    BY <2>1
  <2>3. victims[1] = tlog \/ victims[1] = bin
    BY <2>2 DEF Active
  <2>4. ~ \E k \in DOMAIN victims : k < 1
    BY <2>2
  <2>5. disk[i] \in ToSet(disk)
    BY DEF ToSet
  <2> QED BY <2>1, <2>2, <2>3, <2>4, <2>5 DEF Spares
<1> QED BY <1>1, InvHolds, PTL

\* Theorem: no open finds a file there.
THEOREM OpensFreshCorrect == Spec => OpensFresh
<1>1. Inv /\ [Next]_vars
        => [/\ bin' \notin {bin, NoFile} => ~Has(disk, bin')
            /\ tlog' \notin {tlog, NoFile} => ~Has(disk, tlog')]_vars
  BY NextStep DEF Step, Fresh
<1> QED BY <1>1, InvHolds, PTL DEF Spec, OpensFresh

\* The boots of the only file at a path.
LEMMA BootsKnown ==
  ASSUME NEW fs \in Seq(FileType), Unique(fs), NEW path, NEW B,
         \A f \in ToSet(fs) : f.path = path => f.boots = B
  PROVE  BootsOf(fs, path) \in {{}, B}
<1>1. CASE Has(fs, path)
  <2>1. The(fs, path) \in ToSet(fs) /\ The(fs, path).path = path
    BY <1>1, HasFile
  <2> QED BY <1>1, <2>1 DEF BootsOf
<1>2. CASE ~Has(fs, path)
  BY <1>2 DEF BootsOf
<1> QED BY <1>1, <1>2

\* Theorem: once a report has shown a reboot, the open .bin gets blocks of one boot.
THEOREM OneBootCorrect == Spec => OneBootPerFile
<1> DEFINE Pure ==
      bin' # NoFile /\ told.boot = boot /\ ~short /\ ~stray =>
        \A b \in BootsOf(disk', bin') \ BootsOf(disk, bin') :
           BootsOf(disk, bin') \subseteq {b} /\ BootsOf(disk', bin') = {b}
<1>1. Inv /\ [Next]_vars => Pure
  <2> SUFFICES ASSUME Inv, [Next]_vars, bin' # NoFile, told.boot = boot, ~short, ~stray,
                      NEW b \in BootsOf(disk', bin') \ BootsOf(disk, bin')
               PROVE  BootsOf(disk, bin') \subseteq {b} /\ BootsOf(disk', bin') = {b}
    OBVIOUS
  <2>1. Inv' /\ Fresh /\ OneBoot(ToSet(disk'), bin')
    BY NextStep DEF Step
  <2>2. short = FALSE /\ stray = FALSE
    BY DEF Inv, Switches
  <2>3. BootsOf(disk', bin') \in {{}, {boot}}
    <3>1. disk' \in Seq(FileType) /\ Unique(disk')
      BY <2>1 DEF Inv, Consistent, Listing, Unique
    <3>2. \A f \in ToSet(disk') : f.path = bin' => f.boots = {boot}
      BY <2>1, <2>2 DEF OneBoot
    <3> QED BY <3>1, <3>2, BootsKnown
  <2>4. BootsOf(disk, bin') \in {{}, {boot}}
    <3>1. CASE bin' = bin
      <4>1. disk \in Seq(FileType) /\ Unique(disk)
        BY DEF Inv, Consistent, Listing
      <4>2. \A f \in ToSet(disk) : f.path = bin => f.boots = {boot}
        BY <2>2 DEF Inv, OneBoot
      <4> QED BY <3>1, <4>1, <4>2, BootsKnown
    <3>2. CASE bin' # bin
      BY <2>1, <3>2 DEF Fresh, BootsOf
    <3> QED BY <3>1, <3>2
  <2> QED BY <2>3, <2>4
<1>2. Inv /\ [Next]_vars => [Pure]_vars
  BY <1>1
<1> QED BY <1>2, InvHolds, PTL DEF Spec, OneBootPerFile

\* A file is closed by a SYSTEM_TIME that goes back, and by nothing else while the child runs.
LEMMA ClosedByReport ==
  ASSUME Inv, [Next]_vars, Closes, ~stray'
  PROVE  SystemTime /\ Backward(up % Wrap)
<1>0. Switches /\ Counts /\ Open /\ Child /\ Consistent(disk, tlog, bin, pending)
      /\ OneBoot(ToSet(disk), bin)
  BY DEF Inv
<1>1. alive' /\ bin # NoFile /\ bin' = NoFile /\ bin' # bin
  BY DEF Closes
<1>2. ~ UNCHANGED vars /\ ~StartChild /\ ~EndChild /\ ~Frame /\ ~ListForQuota /\ ~UnlinkForQuota
      /\ ~Run /\ ~Reboot /\ ~Midnight /\ ~ \E i \in DOMAIN disk : Expire(i)
  BY <1>1 DEF vars, childVars, writerVars, StartChild, EndChild, Frame, ListForQuota,
              UnlinkForQuota, Run, Reboot, Midnight, Expire
<1>3. ASSUME NEW b, NEW first \in BOOLEAN, Block(b, first) PROVE FALSE
  <2>1. \A d, m, k : Path(d, m, k) # NoFile
    BY DEF Path, NoFile
  <2> QED BY <1>1, <1>3, <2>1 DEF Block
<1>4. ~LateBlock /\ ~ \E first \in BOOLEAN : BlockArrives(first)
  BY <1>3 DEF LateBlock, BlockArrives
<1>5. ~ \E ms \in 0..(Wrap - 1) : StrayTime(ms)
  BY DEF StrayTime
<1>6. SystemTime
  BY <1>2, <1>4, <1>5 DEF Next
<1>7. up % Wrap \in 0..(Wrap - 1) /\ Observe(up % Wrap) /\ alive = TRUE
  <2>1. up \in Nat
    BY <1>0, Constants DEF Counts
  <2>2. alive = TRUE
    BY <1>0, <1>6 DEF SystemTime, Switches
  <2> QED BY <1>6, <2>1, <2>2, ClockWraps DEF SystemTime
<1> QED BY <1>0, <1>1, <1>6, <1>7, ObserveAfter

\* Theorem: a file is closed at most once in a boot, with its first report.
THEOREM RotatesCorrect == Spec => RotatesOncePerBoot
<1> DEFINE First == Closes /\ ~stray' /\ up + Back < Wrap => told.boot < boot
<1>1. Inv /\ [Next]_vars => First
  <2> SUFFICES ASSUME Inv, [Next]_vars, Closes, ~stray', up + Back < Wrap
               PROVE  told.boot < boot
    OBVIOUS
  <2>1. Backward(up % Wrap)
    BY ClosedByReport
  <2>2. /\ up \in Nat /\ Back \in Nat \ {0} /\ Wrap \in Nat \ {0} /\ last \in Nat
        /\ boot \in Nat \ {0} /\ told.boot \in Nat /\ told.up \in Nat
    BY Constants DEF Inv, Counts
  <2>3. told.boot <= boot /\ (told.boot = boot => told.up <= up)
        /\ (told.boot # 0 => last = told.up % Wrap)
    BY DEF Inv, Reports, Child, Closes
  <2>4. last # 0 /\ up + Back <= last /\ up < Wrap
    <3>1. up + Back \in Nat /\ up < Wrap
      BY <2>2
    <3>2. (up + Back) % Wrap = up + Back
      BY <3>1, ClockWraps
    <3>3. up % Wrap = up
      BY <2>2, <3>1, ClockWraps
    <3> QED BY <2>1, <3>1, <3>2, <3>3 DEF Backward
  <2>5. told.boot # boot
    <3>1. ASSUME told.boot = boot PROVE FALSE
      <4>1. told.up <= up /\ last = told.up % Wrap
        BY <2>2, <2>3, <3>1
      <4>2. last = told.up
        BY <2>2, <2>4, <4>1, ClockWraps
      <4> QED BY <2>2, <2>4, <4>1, <4>2
    <3> QED BY <3>1
  <2> QED BY <2>2, <2>3, <2>5
<1>2. Inv /\ [Next]_vars => [First]_vars
  BY <1>1
<1> QED BY <1>2, InvHolds, PTL DEF Spec, RotatesOncePerBoot
=============================================================================
