------------------------ MODULE BinlogWriter_proofs ------------------------
(***************************************************************************)
(* Proofs about BinlogWriter, for every number of blocks, every cap, every *)
(* NACK budget and every timeout.                                          *)
(***************************************************************************)
EXTENDS BinlogWriter, TLAPS

USE SeqnoAssumption

----------------------------------------------------------------------------
(* Values of nack_state *)

\* A new gap, a NACK and time yield values of nack_state, never its absence.
LEMMA NackValues ==
  /\ NewGap \in NackState /\ NoGap \notin NackState
  /\ \A n \in NackState : Nacked(n) \in NackState /\ Older(n) \in NackState
<1>1. NewGap \in NackState /\ NoGap \notin NackState
  BY NackAssumption DEF NewGap, NoGap, NackState, Never
<1>2. ASSUME NEW n \in NackState
      PROVE  Nacked(n) \in NackState
  BY <1>2, NackAssumption DEF Nacked, NackState
<1>3. ASSUME NEW n \in NackState
      PROVE  Older(n) \in NackState
  <2>1. n.age \in 0..GiveUpTime + 1 /\ n.sent \in {Never} \union 0..NackRepeat
    BY DEF NackState
  <2>2. (IF n.age <= GiveUpTime THEN n.age + 1 ELSE n.age) \in 0..GiveUpTime + 1
    BY <2>1, NackAssumption
  <2>3. (IF n.sent = Never \/ n.sent = NackRepeat THEN n.sent ELSE n.sent + 1)
          \in {Never} \union 0..NackRepeat
    BY <2>1, NackAssumption DEF Never
  <2> QED
    BY <2>2, <2>3 DEF Older, NackState
<1> QED
  BY <1>1, <1>2, <1>3

NackType == nacks \in [Seqnos -> NackState \union {NoGap}]

\* Gaps is where nack_state has an entry.
LEMMA GapType ==
  ASSUME NackType, NEW s \in Gaps
  PROVE  s \in Seqnos /\ nacks[s] \in NackState
BY DEF NackType, Gaps

\* After a block, a gap is an old one other than the block, or a new hole
\* between the highest block and this one.
LEMMA GapsAfterWrite ==
  ASSUME NackType, highest \in Seqnos, NEW s \in Seqnos, nacks' = GapsAfter(s)
  PROVE  /\ NackType'
         /\ Gaps' = (Gaps \ {s})
                      \union {g \in Seqnos : highest < g /\ g < s /\ g \notin seen}
<1>1. NackType'
  BY NackValues DEF GapsAfter, NackType
<1>2. Gaps' = (Gaps \ {s})
                \union {g \in Seqnos : highest < g /\ g < s /\ g \notin seen}
  <2>1. ASSUME NEW g \in Seqnos
        PROVE  nacks'[g] # NoGap
                 <=> \/ nacks[g] # NoGap /\ g # s
                     \/ highest < g /\ g < s /\ g \notin seen
    <3>1. NewGap # NoGap
      BY NackValues
    <3>2. g < s => g # s
      BY DEF Seqnos
    <3> QED
      BY <3>1, <3>2 DEF GapsAfter
  <2> QED
    BY <2>1 DEF Gaps
<1> QED
  BY <1>1, <1>2

\* A tick() removes the stale gaps and no other.
LEMMA GapsAfterTick ==
  ASSUME NackType, NEW told, NEW chosen \in SUBSET Due, Answer(told, chosen)
  PROVE  NackType' /\ Gaps' = Gaps \ Stale
<1>1. \A s \in chosen : s \in Gaps /\ s \in Seqnos
  BY DEF Due, Gaps
<1>2. \A s \in chosen : Nacked(nacks[s]) \in NackState
  BY <1>1, GapType, NackValues
<1>3. NackType'
  BY <1>2 DEF Answer, NackType
<1>4. ASSUME NEW s \in Seqnos
      PROVE  nacks'[s] # NoGap <=> nacks[s] # NoGap /\ s \notin Stale
  BY <1>1, <1>2, NackValues DEF Answer, Gaps
<1>5. Gaps' = Gaps \ Stale
  BY <1>4 DEF Gaps
<1> QED
  BY <1>3, <1>5

\* What a tick() with a file sends: some of the ACKs, NACKs for some due gaps.
LEMMA TickSends ==
  ASSUME open, NEW sent \in BOOLEAN, StreamTick(sent)
  PROVE  \E told \in SUBSET acks, chosen \in SUBSET Due : Answer(told, chosen)
BY DEF StreamTick, NackChoices

\* Time removes no gap and makes none.
LEMMA GapsAfterPass ==
  ASSUME NackType, Pass
  PROVE  NackType' /\ Gaps' = Gaps
<1>1. ASSUME NEW s \in Seqnos
      PROVE  /\ nacks'[s] \in NackState \union {NoGap}
             /\ nacks'[s] # NoGap <=> nacks[s] # NoGap
  BY NackValues DEF NackType, Pass
<1>2. NackType'
  BY <1>1 DEF NackType, Pass
<1>3. Gaps' = Gaps
  BY <1>1 DEF Gaps
<1> QED
  BY <1>2, <1>3

----------------------------------------------------------------------------
(* Type correctness *)

FileType == /\ open \in BOOLEAN /\ seen \in SUBSET Seqnos /\ highest \in Seqnos
            /\ size \in 0..LastSeqno + 1 /\ other \in Nat /\ disk \in OtherSizes
            /\ writes \in 0..RefreshEvery - 1
LinkType == /\ acks \in SUBSET Seqnos /\ acked \in SUBSET Seqnos
            /\ abandoned \in SUBSET Seqnos /\ NackType
StartType == streaming \in BOOLEAN /\ startAge \in 0..Keepalive

\* The three parts of TypeOK.
LEMMA TypeSplit == TypeOK <=> FileType /\ LinkType /\ StartType
BY DEF TypeOK, FileType, LinkType, StartType, NackType

\* The values a block finds are of the types of the variables.
LEMMA BlockTypes ==
  ASSUME FileType, NEW s \in Seqnos
  PROVE  /\ SizeBefore \in 0..LastSeqno + 1 /\ OtherBefore \in Nat
         /\ WritesBefore \in 0..RefreshEvery - 1
         /\ Grown(s) \in 0..LastSeqno + 1 /\ Larger(highest, s) \in Seqnos
         /\ ~RefreshDue => WritesBefore + 1 \in 0..RefreshEvery - 1
         /\ disk \in Nat /\ 0 \in 0..RefreshEvery - 1
<1>1. SizeBefore \in 0..LastSeqno + 1 /\ OtherBefore \in Nat /\ disk \in Nat
  BY SizeAssumption DEF FileType, SizeBefore, OtherBefore
<1>2. WritesBefore \in 0..RefreshEvery - 1 /\ 0 \in 0..RefreshEvery - 1
  BY SizeAssumption DEF FileType, WritesBefore
<1>3. ~RefreshDue => WritesBefore + 1 \in 0..RefreshEvery - 1
  BY <1>2, SizeAssumption DEF RefreshDue
<1>4. Grown(s) \in 0..LastSeqno + 1 /\ Larger(highest, s) \in Seqnos
  BY <1>1 DEF Grown, Larger, Seqnos, FileType
<1> QED
  BY <1>1, <1>2, <1>3, <1>4

\* No step takes the file outside its types.
LEMMA FileTypes ==
  ASSUME FileType, [Next]_vars
  PROVE  FileType'
<1>1. ASSUME NEW s \in Seqnos, DropBlock(s) \/ FailBlock(s)
      PROVE  FileType'
  BY <1>1, BlockTypes DEF DropBlock, FailBlock, FileType
<1>2. ASSUME NEW s \in Seqnos, WriteBlock(s)
      PROVE  FileType'
  <2>1. writes' \in 0..RefreshEvery - 1 /\ other' \in Nat
    BY <1>2, BlockTypes DEF WriteBlock
  <2>2. size' \in 0..LastSeqno + 1 /\ highest' \in Seqnos
    BY <1>2, BlockTypes DEF WriteBlock
  <2> QED
    BY <1>2, <2>1, <2>2 DEF WriteBlock, FileType
<1>3. CASE RotateForReboot
  <2>1. open' \in BOOLEAN
    BY <1>3 DEF RotateForReboot
  <2>2. seen' \in SUBSET Seqnos /\ highest' \in Seqnos
    BY <1>3 DEF RotateForReboot, Seqnos
  <2> QED
    BY <1>3, <2>1, <2>2 DEF RotateForReboot, FileType
<1>4. CASE Tick \/ Pass \/ DiskChanges \/ UNCHANGED vars
  <2>1. CASE Tick \/ Pass \/ UNCHANGED vars
    BY <2>1 DEF Tick, StartTick, StreamTick, Pass, vars, fileVars, FileType
  <2>2. CASE DiskChanges
    BY <2>2 DEF DiskChanges, fileVars, FileType
  <2> QED
    BY <1>4, <2>1, <2>2
<1> QED
  BY <1>1, <1>2, <1>3, <1>4 DEF Next

\* Nor the queues of ACKs and NACKs.
LEMMA LinkTypes ==
  ASSUME FileType, LinkType, [Next]_vars
  PROVE  LinkType'
<1>1. ASSUME NEW s \in Seqnos, WriteBlock(s)
      PROVE  LinkType'
  BY <1>1, GapsAfterWrite DEF WriteBlock, LinkType, FileType
<1>2. ASSUME NEW sent \in BOOLEAN, StreamTick(sent)
      PROVE  LinkType'
  <2>1. CASE open
    <3>1. PICK told \in SUBSET acks, chosen \in SUBSET Due : Answer(told, chosen)
      BY <1>2, <2>1, TickSends
    <3>2. NackType'
      BY <3>1, GapsAfterTick DEF LinkType
    <3>3. Stale \subseteq Seqnos
      BY DEF Stale, Gaps
    <3> QED
      BY <3>1, <3>2, <3>3 DEF Answer, LinkType
  <2>2. CASE ~open
    BY <1>2, <2>2 DEF StreamTick, linkVars, LinkType, NackType
  <2> QED
    BY <2>1, <2>2
<1>3. CASE RotateForReboot
  BY <1>3 DEF RotateForReboot, LinkType, NackType
<1>4. CASE Pass
  BY <1>4, GapsAfterPass DEF Pass, LinkType
<1>5. ASSUME UNCHANGED linkVars
      PROVE  LinkType'
  BY <1>5 DEF linkVars, LinkType, NackType
<1>6. ASSUME NEW s \in Seqnos, DropBlock(s) \/ FailBlock(s)
      PROVE  LinkType'
  BY <1>5, <1>6 DEF DropBlock, FailBlock
<1>7. CASE StartTick \/ DiskChanges \/ UNCHANGED vars
  BY <1>5, <1>7 DEF StartTick, DiskChanges, vars
<1> QED
  BY <1>1, <1>2, <1>3, <1>4, <1>6, <1>7 DEF Next, Tick

\* Nor the START timer.
LEMMA StartTypes ==
  ASSUME StartType, [Next]_vars
  PROVE  StartType'
<1> USE StartAssumption DEF StartType
<1>1. CASE \E s \in Seqnos : DropBlock(s) \/ FailBlock(s) \/ WriteBlock(s)
  BY <1>1 DEF DropBlock, FailBlock, WriteBlock
<1>2. CASE Tick
  BY <1>2 DEF Tick, StartTick, StreamTick
<1>3. CASE RotateForReboot \/ Pass
  BY <1>3 DEF RotateForReboot, Pass
<1>4. CASE DiskChanges \/ UNCHANGED vars
  BY <1>4 DEF DiskChanges, vars
<1> QED
  BY <1>1, <1>2, <1>3, <1>4 DEF Next

\* Theorem: BinlogWriter's variables keep their types; the count of writes never
\* reaches RefreshEvery and highest_seen stays a seqno.
THEOREM TypeCorrect == Spec => []TypeOK
<1>1. ASSUME Init PROVE TypeOK
  <2>1. FileType
    <3>1. open \in BOOLEAN
      BY <1>1 DEF Init
    <3>2. writes \in 0..RefreshEvery - 1 /\ size \in 0..LastSeqno + 1 /\ other \in Nat
      BY <1>1, SizeAssumption DEF Init
    <3>3. seen \in SUBSET Seqnos /\ highest \in Seqnos /\ disk \in OtherSizes
      BY <1>1 DEF Init, Seqnos
    <3> QED
      BY <3>1, <3>2, <3>3 DEF FileType
  <2>2. LinkType
    BY <1>1 DEF Init, LinkType, NackType
  <2>3. StartType
    <3>1. streaming \in BOOLEAN
      BY <1>1 DEF Init
    <3>2. startAge \in 0..Keepalive
      BY <1>1, StartAssumption DEF Init
    <3> QED
      BY <3>1, <3>2 DEF StartType
  <2> QED
    BY <2>1, <2>2, <2>3, TypeSplit
<1>2. TypeOK /\ [Next]_vars => TypeOK'
  <2> SUFFICES ASSUME TypeOK, [Next]_vars PROVE TypeOK'
    OBVIOUS
  <2>1. FileType /\ LinkType /\ StartType
    BY TypeSplit
  <2>2. FileType' /\ LinkType' /\ StartType'
    BY <2>1, FileTypes, LinkTypes, StartTypes
  <2> QED
    BY <2>2 DEF TypeOK, FileType, LinkType, StartType, NackType
<1> QED
  BY <1>1, <1>2, PTL DEF Spec

----------------------------------------------------------------------------
(* What the file, the queues and the ACKs have to do with each other *)

\* Between two files nothing is left of the last one.
EmptyWhenClosed ==
  ~open => seen = {} /\ highest = 0 /\ acks = {} /\ acked = {}

\* Blocks are acknowledged, or going to be, only if they are in the file.
AcksInFile == acks \subseteq seen /\ acked \subseteq seen

FileInv == EmptyWhenClosed /\ AcksInFile /\ ExtentAgrees

\* No step breaks FileInv.
LEMMA FileInvariant ==
  ASSUME TypeOK, FileInv, [Next]_vars
  PROVE  FileInv'
<1> USE DEF FileInv, EmptyWhenClosed, AcksInFile, ExtentAgrees
<1>1. ASSUME NEW s \in Seqnos, DropBlock(s) \/ FailBlock(s)
      PROVE  FileInv'
  BY <1>1 DEF DropBlock, FailBlock, linkVars, SizeBefore
<1>2. ASSUME NEW s \in Seqnos, WriteBlock(s)
      PROVE  FileInv'
  <2>1. open' /\ seen' = seen \union {s} /\ acks' = acks \union {s} /\ acked' = acked
    BY <1>2 DEF WriteBlock
  <2>2. highest' \in seen' /\ size' = highest' + 1
    <3>1. highest' = Larger(highest, s) /\ size' = Larger(SizeBefore, s + 1)
      BY <1>2 DEF WriteBlock, Grown
    <3>2. s \in Nat /\ highest \in Nat
      BY DEF Seqnos, TypeOK
    <3>3. CASE seen = {}
      <4>1. highest = 0 /\ SizeBefore = 0
        BY <3>3 DEF SizeBefore
      <4> QED
        BY <2>1, <3>1, <3>2, <4>1 DEF Larger
    <3>4. CASE seen # {}
      <4>1. highest \in seen /\ SizeBefore = highest + 1
        BY <3>4 DEF SizeBefore
      <4> QED
        BY <2>1, <3>1, <3>2, <4>1 DEF Larger
    <3> QED
      BY <3>3, <3>4
  <2> QED
    BY <2>1, <2>2
<1>3. CASE Tick
  <2>1. CASE StartTick
    BY <2>1 DEF StartTick, fileVars, linkVars
  <2>2. ASSUME NEW sent \in BOOLEAN, StreamTick(sent)
        PROVE  FileInv'
    <3>1. CASE open
      <4>1. PICK told \in SUBSET acks, chosen \in SUBSET Due : Answer(told, chosen)
        BY <2>2, <3>1, TickSends
      <4> QED
        BY <2>2, <3>1, <4>1 DEF StreamTick, Answer, fileVars
    <3>2. CASE ~open
      BY <2>2, <3>2 DEF StreamTick, fileVars, linkVars
    <3> QED
      BY <3>1, <3>2
  <2> QED
    BY <1>3, <2>1, <2>2 DEF Tick
<1>4. CASE RotateForReboot
  BY <1>4 DEF RotateForReboot
<1>5. CASE Pass \/ DiskChanges \/ UNCHANGED vars
  BY <1>5 DEF Pass, DiskChanges, vars, fileVars, linkVars
<1> QED
  BY <1>1, <1>2, <1>3, <1>4, <1>5 DEF Next

\* No step loses track of a hole.
LEMMA GapsInvariant ==
  ASSUME TypeOK, FileInv, GapsTracked, [Next]_vars
  PROVE  GapsTracked'
<1> NackType /\ seen \in SUBSET Seqnos /\ highest \in Seqnos
  BY DEF TypeOK, NackType
<1>1. ASSUME UNCHANGED <<seen, highest, nacks, abandoned>>
      PROVE  GapsTracked'
  BY <1>1 DEF GapsTracked, Gaps
<1>2. ASSUME NEW s \in Seqnos, WriteBlock(s)
      PROVE  GapsTracked'
  <2>1. Gaps' = (Gaps \ {s})
                  \union {g \in Seqnos : highest < g /\ g < s /\ g \notin seen}
    BY <1>2, GapsAfterWrite DEF WriteBlock
  <2>2. /\ seen' = seen \union {s} /\ abandoned' = abandoned
        /\ highest' = IF highest < s THEN s ELSE highest
    BY <1>2 DEF WriteBlock, Larger
  <2>3. s \in 0..LastSeqno /\ highest \in 0..LastSeqno
    BY DEF Seqnos
  <2>4. ASSUME NEW g \in 1..highest'
        PROVE  g \in seen' \union Gaps' \union abandoned'
    <3>1. g \in Seqnos /\ g \in Int
      BY <2>2, <2>3 DEF Seqnos
    <3>2. CASE g <= highest
      <4>1. g \in 1..highest
        BY <2>2, <2>3, <3>2
      <4> QED
        BY <2>1, <2>2, <4>1 DEF GapsTracked
    <3>3. CASE ~(g <= highest)
      <4>1. highest < g /\ g <= s
        BY <2>2, <2>3, <3>1, <3>3
      <4>2. g = s \/ g < s
        BY <2>3, <3>1, <4>1
      <4> QED
        BY <2>1, <2>2, <3>1, <4>1, <4>2
    <3> QED
      BY <3>2, <3>3
  <2>5. ASSUME NEW g \in Gaps'
        PROVE  g \in 1..highest' /\ g \notin seen'
    <3>1. CASE g \in Gaps /\ g # s
      <4>1. g \in 1..highest /\ g \notin seen
        BY <3>1 DEF GapsTracked
      <4>2. g \in 1..highest'
        BY <2>2, <2>3, <4>1
      <4> QED
        BY <2>2, <3>1, <4>1, <4>2
    <3>2. CASE g \in Seqnos /\ highest < g /\ g < s /\ g \notin seen
      <4>1. g \in 1..highest' /\ g # s
        BY <2>2, <2>3, <3>2 DEF Seqnos
      <4> QED
        BY <2>2, <3>2, <4>1
    <3> QED
      BY <2>1, <2>5, <3>1, <3>2
  <2> QED
    BY <2>4, <2>5 DEF GapsTracked
<1>3. CASE Tick
  <2>1. CASE StartTick
    BY <1>1, <2>1 DEF StartTick, fileVars, linkVars
  <2>2. ASSUME NEW sent \in BOOLEAN, StreamTick(sent), open
        PROVE  GapsTracked'
    <3>1. PICK told \in SUBSET acks, chosen \in SUBSET Due : Answer(told, chosen)
      BY <2>2, TickSends
    <3>2. Gaps' = Gaps \ Stale
      BY <3>1, GapsAfterTick
    <3>3. abandoned' = abandoned \union Stale
      BY <3>1 DEF Answer
    <3>4. seen' = seen /\ highest' = highest
      BY <2>2 DEF StreamTick, fileVars
    <3> QED
      BY <3>2, <3>3, <3>4 DEF GapsTracked
  <2>3. ASSUME NEW sent \in BOOLEAN, StreamTick(sent), ~open
        PROVE  GapsTracked'
    BY <1>1, <2>3 DEF StreamTick, fileVars, linkVars
  <2> QED
    BY <1>3, <2>1, <2>2, <2>3 DEF Tick
<1>4. CASE RotateForReboot
  <2>1. Gaps' = {} /\ highest' = 0
    BY <1>4 DEF RotateForReboot, Gaps
  <2> QED
    BY <2>1 DEF GapsTracked
<1>5. CASE Pass
  <2>1. Gaps' = Gaps
    BY <1>5, GapsAfterPass
  <2> QED
    BY <1>5, <2>1 DEF Pass, fileVars, GapsTracked
<1>6. CASE (\E s \in Seqnos : DropBlock(s) \/ FailBlock(s)) \/ DiskChanges \/ UNCHANGED vars
  BY <1>1, <1>6 DEF DropBlock, FailBlock, DiskChanges, vars, fileVars, linkVars
<1> QED
  BY <1>2, <1>3, <1>4, <1>5, <1>6 DEF Next

----------------------------------------------------------------------------
(* Theorems *)

\* Theorem: current_file_size_ and highest_seen follow the blocks in the file.
THEOREM ExtentCorrect == Spec => []ExtentAgrees
<1>1. Init => FileInv
  BY DEF Init, FileInv, EmptyWhenClosed, AcksInFile, ExtentAgrees
<1>2. TypeOK /\ FileInv /\ [Next]_vars => FileInv'
  BY FileInvariant
<1>3. FileInv => ExtentAgrees
  BY DEF FileInv
<1> QED
  BY <1>1, <1>2, <1>3, TypeCorrect, PTL DEF Spec

\* Theorem: every hole below the highest block is asked for or was given up,
\* whatever the order of the blocks.
THEOREM GapsCorrect == Spec => []GapsTracked
<1>1. Init => FileInv /\ GapsTracked
  BY DEF Init, FileInv, EmptyWhenClosed, AcksInFile, ExtentAgrees, GapsTracked, Gaps
<1>2. TypeOK /\ FileInv /\ GapsTracked /\ [Next]_vars => FileInv' /\ GapsTracked'
  BY FileInvariant, GapsInvariant
<1> QED
  BY <1>1, <1>2, TypeCorrect, PTL DEF Spec

\* Theorem: BinlogWriter implements AckedStore: only blocks that are in the file
\* are acknowledged, and they stay in it.
THEOREM AcksCorrect == Spec => AcksHonest
<1>1. Init => Store!Init
  BY DEF Init, Store!Init
<1>2. ASSUME TypeOK, FileInv, [Next]_vars
      PROVE  [Store!Next]_Store!vars
  <2>1. ASSUME UNCHANGED <<seen, acked>>
        PROVE  [Store!Next]_Store!vars
    BY <2>1 DEF Store!vars
  <2>2. ASSUME NEW s \in Seqnos, WriteBlock(s)
        PROVE  [Store!Next]_Store!vars
    BY <2>2 DEF WriteBlock, Store!Next, Store!Store
  <2>3. ASSUME NEW sent \in BOOLEAN, StreamTick(sent), open
        PROVE  [Store!Next]_Store!vars
    <3>1. PICK told \in SUBSET acks, chosen \in SUBSET Due : Answer(told, chosen)
      BY <2>3, TickSends
    <3>2. acked' = acked \union told /\ seen' = seen
      BY <2>3, <3>1 DEF StreamTick, Answer, fileVars
    <3>3. Store!Acknowledge(told)
      BY <1>2, <3>2 DEF Store!Acknowledge, FileInv, AcksInFile
    <3>4. told \in SUBSET Seqnos
      BY <1>2 DEF TypeOK
    <3> QED
      BY <3>3, <3>4 DEF Store!Next
  <2>4. ASSUME NEW sent \in BOOLEAN, StreamTick(sent), ~open
        PROVE  [Store!Next]_Store!vars
    BY <2>1, <2>4 DEF StreamTick, fileVars, linkVars
  <2>5. CASE RotateForReboot
    BY <2>5 DEF RotateForReboot, Store!Next, Store!NewFile
  <2>6. ASSUME NEW s \in Seqnos, DropBlock(s) \/ FailBlock(s)
        PROVE  [Store!Next]_Store!vars
    BY <2>1, <2>6 DEF DropBlock, FailBlock, linkVars
  <2>7. CASE StartTick \/ Pass \/ DiskChanges \/ UNCHANGED vars
    BY <2>1, <2>7 DEF StartTick, Pass, DiskChanges, vars, fileVars, linkVars
  <2> QED
    BY <1>2, <2>2, <2>3, <2>4, <2>5, <2>6, <2>7 DEF Next, Tick
<1>3. Init => FileInv
  BY DEF Init, FileInv, EmptyWhenClosed, AcksInFile, ExtentAgrees
<1>4. TypeOK /\ FileInv /\ [Next]_vars => FileInv'
  BY FileInvariant
<1> QED
  BY <1>1, <1>2, <1>3, <1>4, TypeCorrect, PTL DEF Spec, AcksHonest, Store!Spec
=============================================================================
