---------------------------- MODULE SessionFiles ----------------------------
(***************************************************************************)
(* The session files of one port pair, logs/<port2>/<date>/sessionN.tlog   *)
(* and .bin.  A child takes its number when it starts and opens its files  *)
(* when the first frame, or the vehicle's block 0, arrives; a reboot of    *)
(* the vehicle, seen in SYSTEM_TIME, closes the .bin and takes a new       *)
(* number; the cleanup child removes files meanwhile.  The pair has one    *)
(* child at a time (Supervisor).  Directories are left out: a missing one  *)
(* and an empty one give the same number, and one that is removed between  *)
(* mkpath_0700() and fopen() makes the open fail, which it may at any time.*)
(***************************************************************************)
EXTENDS Naturals, FiniteSets, Sequences, SequencesExt

CONSTANTS
  Wrap,        \* time_boot_ms counts modulo Wrap, in the code 2^32
  Back,        \* REBOOT_TIME_BACKWARD_MS, in the same unit
  MaxDay,      \* bound: dates
  MaxChildren, \* bound: children, one after the other
  MaxBoot,     \* bound: boots of the vehicle
  MaxUp,       \* bound: a boot's duration, which may exceed Wrap
  MaxN         \* bound: numbers of one day

NoFile == <<>>

ASSUME ClockAssumption == Back \in Nat \ {0} /\ Wrap \in Nat /\ Back < Wrap
ASSUME BoundsAssumption == MaxDay \in Nat /\ MaxChildren \in Nat /\ MaxBoot \in Nat \ {0}
                           /\ MaxUp \in Nat /\ MaxN \in Nat

VARIABLES
  day,      \* the date
  disk,     \* the files, in the order of their last write
  children, \* children so far; the last one is the owner of new files
  alive,    \* the last child runs
  kinds,    \* what the pair records: KEY_FLAG_TLOG, KEY_FLAG_BINLOG
  n,        \* the child's session_n
  tlog,     \* the path the tlog writer has open
  bin,      \* the path the bin writer has open
  pending,  \* pending_session_n_
  last,     \* last_system_time_boot_ms_
  victims,  \* what the quota pass may still unlink, oldest first
  boot,     \* the vehicle: its boots so far
  up,       \* the vehicle: how long it has been up
  told,     \* history: boot and uptime of the SYSTEM_TIME last received in order
  short,    \* history: told was too soon after the report before it to show a reboot
  stray     \* history: this child got a SYSTEM_TIME out of order or of another autopilot

writerVars == <<kinds, n, tlog, bin, pending, last>>
childVars == <<children, alive, writerVars>>
vehicleVars == <<boot, up>>
historyVars == <<told, short, stray>>
vars == <<day, disk, childVars, victims, vehicleVars, historyVars>>

Kinds == {"tlog", "bin"}
Path(d, m, kind) == <<d, m, kind>>
\* A file: who wrote it and blocks of which boots it holds.
File(path, owner) == [path |-> path, owner |-> owner, boots |-> {}]
Has(fs, path) == \E i \in DOMAIN fs : fs[i].path = path
Place(fs, path) == CHOOSE i \in DOMAIN fs : fs[i].path = path
The(fs, path) == fs[Place(fs, path)]
Others(fs, path) == IF Has(fs, path) THEN RemoveAt(fs, Place(fs, path)) ELSE fs

\* Mutant: only the telemetry logs are counted.
NumbersOfTlogs(fs) == {fs[i].path[2] : i \in {j \in DOMAIN fs : fs[j].path[1] = day
                                                 /\ fs[j].path[3] = "tlog"}}
Numbers(fs) == {fs[i].path[2] : i \in {j \in DOMAIN fs : fs[j].path[1] = day}}
\* Mutant: the first number is 0, which pending_session_n_ means as none.
NextNFromZero(fs) == IF Numbers(fs) = {} THEN 0 ELSE 1 + Max(Numbers(fs))
\* next_session_n(): one more than the highest of today's files of either kind.
NextN(fs) == IF Numbers(fs) = {} THEN 1 ELSE 1 + Max(Numbers(fs))

NoReport == [boot |-> 0, up |-> 0]

Init ==
  /\ day = 0 /\ disk = <<>> /\ children = 0 /\ alive = FALSE
  /\ kinds = {} /\ n = 0 /\ tlog = NoFile /\ bin = NoFile /\ pending = 0 /\ last = 0
  /\ victims = <<>> /\ boot = 1 /\ up = 0
  /\ told = NoReport /\ short = TRUE /\ stray = FALSE

----------------------------------------------------------------------------
(* The child *)

StartChild ==
  /\ ~alive /\ children < MaxChildren /\ NextN(disk) <= MaxN
  /\ alive' = TRUE /\ children' = children + 1
  /\ kinds' \in SUBSET Kinds \ {{}}
  /\ n' = NextN(disk)
  /\ UNCHANGED <<day, disk, tlog, bin, pending, last, victims, vehicleVars, historyVars>>

EndChild ==
  /\ alive
  /\ alive' = FALSE /\ kinds' = {} /\ n' = 0
  /\ tlog' = NoFile /\ bin' = NoFile /\ pending' = 0 /\ last' = 0
  /\ told' = NoReport /\ short' = TRUE /\ stray' = FALSE
  /\ UNCHANGED <<day, disk, children, victims, vehicleVars>>

\* A write makes the file the newest; one that was unlinked stays out of sight.
Touched(fs, path, boots) ==
  IF Has(fs, path)
  THEN Append(Others(fs, path), [The(fs, path) EXCEPT !.boots = @ \union boots])
  ELSE fs
\* fopen(path, "ab")
Appended(fs, path) == IF Has(fs, path) THEN fs ELSE Append(fs, File(path, children))
\* fopen(path, "wb+")
Truncated(fs, path) == Append(Others(fs, path), File(path, children))

\* ensure_tlog_open() and tlog_write_message(), as <<files, open path>>: the file is
\* opened with the first frame, and again with each one after a failure.
Logged ==
  LET path == IF tlog = NoFile THEN Path(day, n, "tlog") ELSE tlog
      done == <<Touched(Appended(disk, path), path, {}), path>>
  IN  IF "tlog" \notin kinds THEN {<<disk, NoFile>>}
      ELSE IF tlog # NoFile THEN {<<Touched(disk, tlog, {}), tlog>>}
      ELSE {<<disk, NoFile>>, done}

\* A frame that the bin writer does not look at.
Frame ==
  /\ alive
  /\ \E log \in Logged : disk' = log[1] /\ tlog' = log[2]
  /\ UNCHANGED <<day, children, alive, kinds, n, bin, pending, last, victims,
                 vehicleVars, historyVars>>

\* Mutant: any block opens the file.
OpensAny(first) == TRUE
\* The strict-start gate.
Opens(first) == first

\* handle_block(): a block of boot b.
Block(b, first) ==
  \E log \in Logged :
    /\ tlog' = log[2]
    /\ \/ /\ "bin" \notin kinds \/ (bin = NoFile /\ ~Opens(first))
          /\ disk' = log[1] /\ UNCHANGED <<bin, pending>>
       \/ \* fopen() fails: the number stays pending
          /\ "bin" \in kinds /\ bin = NoFile /\ Opens(first)
          /\ disk' = log[1] /\ UNCHANGED <<bin, pending>>
       \/ /\ "bin" \in kinds /\ bin = NoFile /\ Opens(first)
          /\ LET path == Path(day, IF pending # 0 THEN pending ELSE n, "bin") IN
               /\ bin' = path /\ pending' = 0
               /\ disk' = Touched(Truncated(log[1], path), path, {b})
       \/ /\ "bin" \in kinds /\ bin # NoFile
          /\ disk' = Touched(log[1], bin, {b}) /\ UNCHANGED <<bin, pending>>

\* Blocks of the running boot; a block of the boot before may be late, but is not
\* overtaken by the new boot's block 0.
BlockArrives(first) ==
  /\ alive
  /\ Block(boot, first)
  /\ UNCHANGED <<day, children, alive, kinds, n, last, victims, vehicleVars, historyVars>>
LateBlock ==
  /\ alive /\ boot > 1 /\ (told.boot = boot \/ stray)
  /\ \A i \in DOMAIN disk : boot \notin disk[i].boots
  /\ Block(boot - 1, FALSE)
  /\ UNCHANGED <<day, children, alive, kinds, n, last, victims, vehicleVars, historyVars>>

\* Mutant: the next number is taken without looking at the directory.
RotatedBlindly(fs) == n + 1
Rotated(fs) == NextN(fs)

\* Mutant: 10 s are not required.
BackwardAtAll(ms) == last # 0 /\ ms <= last
\* 32-bit unsigned arithmetic.
Backward(ms) == last # 0 /\ (ms + Back) % Wrap <= last

\* observe() of a SYSTEM_TIME and rotate_for_reboot().
Observe(ms) ==
  \E log \in Logged :
    /\ disk' = log[1] /\ tlog' = log[2]
    /\ IF "bin" \notin kinds THEN UNCHANGED <<bin, pending, last>>
       ELSE /\ last' = ms
            /\ IF Backward(ms) /\ bin # NoFile
               THEN bin' = NoFile /\ pending' = Rotated(log[1]) /\ Rotated(log[1]) <= MaxN
               ELSE UNCHANGED <<bin, pending>>

SystemTime ==
  /\ alive
  /\ Observe(up % Wrap)
  /\ told' = IF stray THEN NoReport ELSE [boot |-> boot, up |-> up]
  /\ short' = IF told.boot = boot \/ stray THEN short
              ELSE told.boot = 0 \/ told.up % Wrap = 0 \/ told.up >= Wrap
                   \/ up + Back > told.up \/ up + Back >= Wrap
  /\ UNCHANGED <<day, children, alive, kinds, n, victims, vehicleVars, stray>>

\* One that was delayed, or comes from another autopilot while fc_sysid is 0.
StrayTime(ms) ==
  /\ alive
  /\ Observe(ms)
  /\ stray' = TRUE /\ told' = NoReport /\ short' = TRUE
  /\ UNCHANGED <<day, children, alive, kinds, n, victims, vehicleVars>>

----------------------------------------------------------------------------
(* The cleanup child *)

Paths(fs) == [i \in DOMAIN fs |-> fs[i].path]
\* retention_pass(): a file that was not written for the retention time, which may
\* be a fraction of a day.  The quota pass comes after it.
Expire(i) ==
  /\ victims = <<>>
  /\ disk' = Others(disk, disk[i].path)
  /\ UNCHANGED <<day, childVars, victims, vehicleVars, historyVars>>

\* Mutant: sorted the other way.
OldestReversed(fs) == Reverse(Paths(fs))
\* By last write.  st_mtime has whole seconds: that a file's last write and another
\* one's fall into the same second, where sort() may swap them, is left out.
OldestFirst(fs) == Paths(fs)
\* enforce_port2_quota() finds too much, lists the files and sorts them ...
ListForQuota ==
  /\ victims = <<>> /\ disk # <<>>
  /\ victims' = OldestFirst(disk)
  /\ UNCHANGED <<day, disk, childVars, vehicleVars, historyVars>>
\* ... and unlinks one by one, while the child goes on, until the rest is within the
\* quota.  Sizes decide when, and can ask for all: a .tlog has no limit.
UnlinkForQuota ==
  /\ victims # <<>>
  /\ disk' = Others(disk, Head(victims))
  /\ victims' \in {Tail(victims), <<>>}
  /\ UNCHANGED <<day, childVars, vehicleVars, historyVars>>

----------------------------------------------------------------------------
(* The vehicle and the calendar *)

Run ==
  /\ up < MaxUp /\ up' = up + 1
  /\ UNCHANGED <<day, disk, childVars, victims, boot, historyVars>>
Reboot ==
  /\ boot < MaxBoot /\ boot' = boot + 1 /\ up' = 0
  /\ UNCHANGED <<day, disk, childVars, victims, historyVars>>
Midnight ==
  /\ day < MaxDay /\ day' = day + 1
  /\ UNCHANGED <<disk, childVars, victims, vehicleVars, historyVars>>

Next ==
  \/ StartChild \/ EndChild \/ Frame
  \/ \E first \in BOOLEAN : BlockArrives(first)
  \/ LateBlock \/ SystemTime
  \/ \E ms \in 0..(Wrap - 1) : StrayTime(ms)
  \/ \E i \in DOMAIN disk : Expire(i)
  \/ ListForQuota \/ UnlinkForQuota
  \/ Run \/ Reboot \/ Midnight

Spec == Init /\ [][Next]_vars

----------------------------------------------------------------------------
(* Properties *)

PathType == (0..MaxDay) \X (1..MaxN) \X Kinds
FileType == [path : PathType, owner : 1..MaxChildren, boots : SUBSET (1..MaxBoot)]
TypeOK ==
  /\ day \in 0..MaxDay /\ children \in 0..MaxChildren /\ alive \in BOOLEAN
  /\ kinds \subseteq Kinds /\ n \in 0..MaxN /\ pending \in 0..MaxN
  /\ tlog \in PathType \union {NoFile} /\ bin \in PathType \union {NoFile}
  /\ last \in 0..(Wrap - 1) /\ disk \in Seq(FileType) /\ victims \in Seq(PathType)
  /\ boot \in 1..MaxBoot /\ up \in 0..MaxUp
  /\ told \in [boot : 0..MaxBoot, up : 0..MaxUp] /\ short \in BOOLEAN /\ stray \in BOOLEAN

\* No open finds the file there: a .bin is never truncated and a .tlog never
\* continued, over restarts of the child, reboots, midnight and whatever the
\* cleanup child removes ("next_session_n() rules that out").
OpensFresh ==
  [][/\ bin' \notin {bin, NoFile} => ~Has(disk, bin')
     /\ tlog' \notin {tlog, NoFile} => ~Has(disk, tlog')]_vars

\* sessionN.tlog and sessionN.bin of a day are of one child ("paired N stays
\* paired across both extensions").
Paired ==
  \A i, j \in DOMAIN disk :
    disk[i].path[1] = disk[j].path[1] /\ disk[i].path[2] = disk[j].path[2]
      => disk[i].owner = disk[j].owner

BootsOf(fs, path) == IF Has(fs, path) THEN The(fs, path).boots ELSE {}
\* Once a reboot has been reported, and the report shows it, no block of the new
\* boot goes into a file of the old one, nor a late block into the new one's.
\* Before the report, block 0 of the new boot does go into the old file.
OneBootPerFile ==
  [][bin' # NoFile /\ told.boot = boot /\ ~short /\ ~stray =>
       \A b \in BootsOf(disk', bin') \ BootsOf(disk, bin') :
          BootsOf(disk, bin') \subseteq {b} /\ BootsOf(disk', bin') = {b}]_vars

Closes == alive' /\ bin # NoFile /\ bin' = NoFile
\* observe() closes a file at most once in a boot of the vehicle, with its first
\* SYSTEM_TIME, unless the clock comes to its 32-bit wrap or one was out of order or
\* of another autopilot: the vehicle does not send block 0 again.
RotatesOncePerBoot ==
  [][Closes /\ ~stray' /\ up + Back < Wrap => told.boot < boot]_vars

Active == {tlog, bin} \ {NoFile}
\* The quota pass works on an old list and does remove a file that is being written,
\* but only when all files of others are gone, whatever was written, opened or closed
\* since the files were listed.
QuotaSparesActive ==
  victims # <<>> /\ Head(victims) \in Active
    => \A i \in DOMAIN disk : disk[i].owner = children

----------------------------------------------------------------------------
(* What the documentation says and the code does not do *)

\* "A fresh sessionN+1.bin is opened so the new log writes from offset 0": a reboot
\* does not close a file the new boot has written to.  It does when block 0 is there
\* before the first SYSTEM_TIME.
NewLogKept ==
  [][Closes /\ ~stray' /\ up + Back < Wrap => boot \notin BootsOf(disk, bin)]_vars
=============================================================================
