---------------------------- MODULE BinlogWriter ----------------------------
(***************************************************************************)
(* BinlogWriter (binlog.cpp): the log blocks a vehicle streams over        *)
(* MAVLink, the file they are written to, the ACKs and NACKs that go back, *)
(* and the START packets that make the vehicle stream.                     *)
(*                                                                         *)
(* handle_block() runs for every block the child receives, tick() once per *)
(* iteration of main_loop(), rotate_for_reboot() when observe() has seen   *)
(* the flight controller reboot (BinlogReboot).  Blocks arrive in any      *)
(* order, repeated or not at all.  Sizes are counted in blocks of          *)
(* BLOCK_BYTES and times in units that Pass lets go by.                    *)
(***************************************************************************)
EXTENDS Integers, FiniteSets

CONSTANTS
  LastSeqno,     \* seqnos are 0..LastSeqno
  JumpCap,       \* MAX_FORWARD_JUMP_BYTES
  Quota,         \* MAX_PER_PORT2_BYTES
  OtherSizes,    \* what the other files under logs/<port2>/ may add up to
  RefreshEvery,  \* the 10000 writes between scans of logs/<port2>/
  NackBudget,    \* MAX_NACKS_PER_TICK
  NackRepeat,    \* NACK_REPEAT_S
  GiveUpTime,    \* NACK_GIVEUP_S
  GiveUpBlocks,  \* NACK_GIVEUP_BLOCKS
  StartRepeat,   \* START_REPEAT_S
  Keepalive      \* START_KEEPALIVE_S

ASSUME SeqnoAssumption == LastSeqno \in Nat
ASSUME SizeAssumption == /\ JumpCap \in Nat /\ Quota \in Nat
                         /\ OtherSizes \subseteq Nat /\ OtherSizes # {}
                         /\ RefreshEvery \in Nat \ {0}
ASSUME NackAssumption == /\ NackBudget \in Nat /\ NackRepeat \in Nat
                         /\ GiveUpTime \in Nat /\ GiveUpBlocks \in Nat
ASSUME StartAssumption == /\ StartRepeat \in Nat /\ Keepalive \in Nat
                          /\ StartRepeat <= Keepalive

Seqnos == 0..LastSeqno

VARIABLES
  open,       \* fp # nullptr
  seen,       \* seen_bitmap: the blocks in the file
  highest,    \* highest_seen
  streaming,  \* any_block_seen
  acks,       \* pending_acks
  nacks,      \* nack_state, or NoGap
  size,       \* current_file_size_
  other,      \* other_sessions_bytes_
  writes,     \* writes_since_quota_refresh_
  startAge,   \* time since last_start_sent_s, up to Keepalive
  disk,       \* the real size of the other files under logs/<port2>/
  acked,      \* the blocks of this file for which an ACK was sent
  abandoned   \* the gaps of this file that were given up

fileVars == <<open, seen, highest, size, other, writes>>
linkVars == <<acks, nacks, acked, abandoned>>
vars == <<fileVars, linkVars, streaming, startAge, disk>>

Never == -1                             \* last_sent_s = 0.0: no NACK sent yet
NoGap == [age |-> -1, sent |-> Never]   \* not in nack_state

\* age: time since first_seen_s; sent: time since last_sent_s.
NackState == [age : 0..GiveUpTime + 1, sent : {Never} \union 0..NackRepeat]
NewGap == [age |-> 0, sent |-> Never]

Larger(a, b) == IF a < b THEN b ELSE a
Gaps == {s \in Seqnos : nacks[s] # NoGap}

\* last_start_sent_s is 0.0: the first START is due.
Init == /\ open = FALSE /\ seen = {} /\ highest = 0 /\ streaming = FALSE
        /\ acks = {} /\ nacks = [s \in Seqnos |-> NoGap]
        /\ size = 0 /\ other = 0 /\ writes = 0
        /\ startAge = Keepalive /\ disk \in OtherSizes
        /\ acked = {} /\ abandoned = {}

----------------------------------------------------------------------------
(* handle_block() *)

\* Strict-start gate: only block 0 opens a file, which is empty, and scans the
\* directory.
Accepts(s) == open \/ s = 0
SizeBefore == IF open THEN size ELSE 0
OtherBefore == IF open THEN other ELSE disk
WritesBefore == IF open THEN writes ELSE 0

\* Mutant: an older block shortens the file.
GrownToLast(s) == s + 1

Grown(s) == Larger(SizeBefore, s + 1)
WithinCaps(s) == /\ Grown(s) - SizeBefore <= JumpCap
                 /\ OtherBefore + Grown(s) <= Quota

\* A cap is exceeded: at most, the file has been opened.
DropBlock(s) ==
  /\ Accepts(s) /\ ~WithinCaps(s)
  /\ open' = TRUE
  /\ size' = SizeBefore /\ other' = OtherBefore /\ writes' = WritesBefore
  /\ UNCHANGED <<seen, highest, linkVars, streaming, startAge, disk>>

\* The seek or the write fails: no ACK, but any_block_seen is set.
FailBlock(s) ==
  /\ Accepts(s) /\ WithinCaps(s)
  /\ open' = TRUE /\ streaming' = TRUE
  /\ size' = SizeBefore /\ other' = OtherBefore /\ writes' = WritesBefore
  /\ UNCHANGED <<seen, highest, linkVars, startAge, disk>>

\* Mutants: the first block of a gap is forgotten; a scan too late.
GapsAfterOffByOne(s) ==
  [g \in Seqnos |->
     IF g = s THEN NoGap
     ELSE IF highest + 1 < g /\ g < s /\ g \notin seen /\ nacks[g] = NoGap
          THEN NewGap ELSE nacks[g]]
RefreshDueLate == WritesBefore >= RefreshEvery

\* nack_state after block s: s is no gap, a forward jump leaves new ones.
GapsAfter(s) ==
  [g \in Seqnos |->
     IF g = s THEN NoGap
     ELSE IF highest < g /\ g < s /\ g \notin seen /\ nacks[g] = NoGap THEN NewGap
     ELSE nacks[g]]

RefreshDue == WritesBefore + 1 >= RefreshEvery

WriteBlock(s) ==
  /\ Accepts(s) /\ WithinCaps(s)
  /\ open' = TRUE /\ streaming' = TRUE
  /\ size' = Grown(s)
  /\ IF RefreshDue
     THEN writes' = 0 /\ other' = disk
     ELSE writes' = WritesBefore + 1 /\ other' = OtherBefore
  /\ seen' = seen \union {s}
  /\ nacks' = GapsAfter(s)
  /\ highest' = Larger(highest, s)
  /\ acks' = acks \union {s}
  /\ UNCHANGED <<acked, abandoned, startAge, disk>>

----------------------------------------------------------------------------
(* tick() *)

\* Before the first block: START at StartRepeat.  One that is not sent changes
\* nothing.
StartTick ==
  /\ ~streaming /\ startAge >= StartRepeat
  /\ startAge' = 0
  /\ UNCHANGED <<fileVars, linkVars, streaming, disk>>

\* Mutants: a gap is only given up for newer blocks; START is never sent again.
StaleByBlocks == {s \in Gaps : s \in seen \/ highest - s > GiveUpBlocks}
KeepaliveNever == startAge > Keepalive

\* drop_stale_nack_state(): gaps given up.
Stale == {s \in Gaps : \/ s \in seen
                       \/ nacks[s].age > GiveUpTime
                       \/ highest >= s /\ highest - s > GiveUpBlocks}

\* Gaps whose NACK is due.
Due == {s \in Gaps \ Stale : \/ nacks[s].sent = Never
                             \/ nacks[s].sent >= NackRepeat}

\* The gaps asked for: as many due gaps as the budget allows, whichever the loop
\* over the unordered map comes to; fewer if NACKs are not sent.
NackChoices(sent) ==
  {chosen \in SUBSET Due :
     LET n == Cardinality(chosen)
     IN n <= NackBudget /\ (sent => n = NackBudget \/ chosen = Due)}

Nacked(n) == [age |-> n.age, sent |-> 0]

KeepaliveDue == startAge >= Keepalive

\* With a file: all ACKs are taken from the queue, sent (told) or not, then NACKs.
Answer(told, chosen) ==
  /\ acks' = {}
  /\ acked' = acked \union told
  /\ nacks' = [s \in Seqnos |-> IF s \in Stale THEN NoGap
                               ELSE IF s \in chosen THEN Nacked(nacks[s])
                               ELSE nacks[s]]
  /\ abandoned' = abandoned \union Stale

\* After the first block: START at Keepalive; sent says whether the user's link
\* takes everything that is sent in this iteration, or what it happens to take.
StreamTick(sent) ==
  /\ streaming
  /\ startAge' \in IF ~KeepaliveDue THEN {startAge}
                   ELSE IF sent THEN {0} ELSE {0, startAge}
  /\ IF open
     THEN \E told \in IF sent THEN {acks} ELSE SUBSET acks,
             chosen \in NackChoices(sent) : Answer(told, chosen)
     ELSE UNCHANGED linkVars
  /\ UNCHANGED <<fileVars, streaming, disk>>

----------------------------------------------------------------------------
(* rotate_for_reboot(): the file is closed, the next one waits for block 0;  *)
(* any_block_seen stays, START is due.                                       *)

\* Mutant: ACKs of the old file stay in the queue.
RotateKeepsAcks ==
  /\ open
  /\ open' = FALSE /\ seen' = {} /\ highest' = 0
  /\ acks' = acks /\ nacks' = [s \in Seqnos |-> NoGap]
  /\ acked' = {} /\ abandoned' = {}
  /\ startAge' = Keepalive
  /\ UNCHANGED <<size, other, writes, streaming, disk>>

RotateForReboot ==
  /\ open
  /\ open' = FALSE /\ seen' = {} /\ highest' = 0
  /\ acks' = {} /\ nacks' = [s \in Seqnos |-> NoGap]
  /\ acked' = {} /\ abandoned' = {}
  /\ startAge' = Keepalive
  /\ UNCHANGED <<size, other, writes, streaming, disk>>

----------------------------------------------------------------------------
(* The environment *)

Older(n) == [age |-> IF n.age <= GiveUpTime THEN n.age + 1 ELSE n.age,
             sent |-> IF n.sent = Never \/ n.sent = NackRepeat THEN n.sent
                      ELSE n.sent + 1]

Pass ==
  /\ startAge' = IF startAge < Keepalive THEN startAge + 1 ELSE startAge
  /\ nacks' = [s \in Seqnos |-> IF nacks[s] = NoGap THEN NoGap ELSE Older(nacks[s])]
  /\ UNCHANGED <<fileVars, acks, acked, abandoned, streaming, disk>>

\* Other files grow, and the cleanup child deletes some.
DiskChanges == /\ disk' \in OtherSizes \ {disk}
               /\ UNCHANGED <<fileVars, linkVars, streaming, startAge>>

Tick == StartTick \/ \E sent \in BOOLEAN : StreamTick(sent)

Next == \/ \E s \in Seqnos : DropBlock(s) \/ FailBlock(s) \/ WriteBlock(s)
        \/ Tick \/ RotateForReboot \/ Pass \/ DiskChanges

\* main_loop() comes to tick() again and again, the link takes what is sent again
\* and again, and time passes.
Fairness == WF_vars(Tick) /\ SF_vars(StreamTick(TRUE)) /\ WF_vars(Pass)

Spec == Init /\ [][Next]_vars /\ Fairness

----------------------------------------------------------------------------
(* Properties *)

TypeOK ==
  /\ open \in BOOLEAN /\ streaming \in BOOLEAN
  /\ seen \in SUBSET Seqnos /\ highest \in Seqnos
  /\ acks \in SUBSET Seqnos /\ acked \in SUBSET Seqnos
  /\ abandoned \in SUBSET Seqnos
  /\ nacks \in [Seqnos -> NackState \union {NoGap}]
  /\ size \in 0..LastSeqno + 1 /\ other \in Nat /\ disk \in OtherSizes
  /\ writes \in 0..RefreshEvery - 1
  /\ startAge \in 0..Keepalive

\* Every hole below the highest block is being asked for or was given up, in
\* whatever order blocks came, and nothing else is asked for.  Block 0 is apart:
\* when its write fails the hole is never asked for, for highest_seen is 0 both
\* before the first block and after block 0.
GapsTracked ==
  /\ 1..highest \subseteq seen \union Gaps \union abandoned
  /\ Gaps \subseteq 1..highest \ seen

\* current_file_size_, which the caps are computed from, and highest_seen, which
\* gaps are computed from, both follow the blocks in the file.
ExtentAgrees ==
  open => IF seen = {} THEN size = 0 /\ highest = 0
          ELSE highest \in seen /\ size = highest + 1

\* The vehicle is told to forget a block only if it is in the current file, and
\* the file keeps it.
Store == INSTANCE AckedStore WITH stored <- seen, acked <- acked
AcksHonest == Store!Spec

\* No gap is chased for ever: filled, given up or gone with its file.
GapsEnd == \A s \in Seqnos : nacks[s] # NoGap ~> nacks[s] = NoGap

\* START is sent again and again, before and after the first block and between
\* two files, so that a vehicle that stopped streaming resumes.
KeepsStarting == []<><<startAge' = 0>>_startAge
=============================================================================
