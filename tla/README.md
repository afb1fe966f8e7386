# SupportProxy in TLA+

This directory holds TLA+ models of SupportProxy (the MAVLink relay in this
repository, formerly UDPProxy), the TLC configurations that check them and the
proofs that TLAPS checks. Source references are to `src/`.

| Module | Models | Checked by |
| --- | --- | --- |
| `ProxySession` | one forked child: `main_loop()`, the table of engineers | `session_safety`, `session_liveness`, `ProxySession_proofs` |
| `MCProxySession` | `ProxySession` with symmetric peers, for TLC | |
| `Supervisor` | the parent: port list, reload, epoll, fork, reaping | `supervisor_safety`, `supervisor_liveness`, `supervisor_kill_all`, `Supervisor_proofs` |
| `BinlogWriter` | the binary log writer: blocks, ACK, NACK, START, caps, rotation | `binlog`, `BinlogWriter_proofs` |
| `AckedStore` | what the writer promises the vehicle (abstract) | implemented by `BinlogWriter` |
| `ConnTdb` | connections.tdb: child, heartbeat grandchildren, parent, web admin | `conntdb`, `conntdb_drop_lost`, `ConnTdb_proofs` |
| `KeyDb` | keys.tdb: the edits of the web pages and of `keydb.py` | through `Signing`; `KeyDb_proofs` |
| `Signing` | the links of a child, savers and SETUP_SIGNING over `KeyDb` | `signing`, `Signing_proofs`, `KeyDb_proofs` |
| `SessionFiles` | session numbers, tlog and bin files, reboots of the vehicle, cleanup | `session_files`, `session_files_new_log`, `SessionFiles_proofs` |
| `WebSocketBuffer` | `pending[]`: handshake and frames in pieces, plain and over TLS | `websocket`, `WebSocketBuffer_proofs` |

To check: `tlc -config SessionSafety.cfg MCProxySession`, `tlapm
Supervisor_proofs.tla`, and so on; `PROJECT.json` lists every run with its
module and configuration, the source lines of every definition, the hazards and
the properties that answer them, and for each property a mutation of the code
that breaks it.

## 1. The system

A **vehicle** (the "user") and **support engineers** are both behind NAT and
both connect to the proxy. Each customer has a pair of ports: `port1` for the
vehicle, `port2` for the engineers. `keys.tdb` maps `port2` to an entry (port1,
signing key, flags, retention). The processes are

    web admin, keydb.py ----- keys.tdb -------------------+
          |                      |                        |
          | SIGUSR1              | reload every 5 s       | transactions
          |                      v                        v
          |                   parent --fork--> session child --fork--> heartbeat
          +--- connections.tdb <- | -----------------|---------------> grandchild
                                  |                  +--fork--> timestamp saver
                                  +--fork--> cleanup child     (logs/<port2>/...)

They share no memory after `fork()`. They meet in two TDB databases, in the
file system, in signals (SIGTERM, SIGUSR1, SIGCHLD through `waitpid`), and in
the open sockets that a fork duplicates.

### Components

**Session child** (`main_loop()`, supportproxy.cpp:200-912, of which main_loop from 227).
State: the user's sockets, `have_conn1`, `last_pkt1`, WebSocket pointers, the
table `conn2[100]` of engineers (`MAX_COMM2_LINKS`, mavlink_msgs.h:14) with the
`uint8_t` counters `conn2_count` and `max_conn2_count`, the flag `g_drops_pending`.
Operations: one block of the loop for each of: drop requests, the user's
timeout, `select()`, dead UDP engineers, user datagrams, engineers' datagrams,
user accept and data, engineer accept and data; forwarding in both directions.
Hard: four code paths close an entry and each adjusts the counters by hand;
the counters decide which part of the table every loop sees; entries are
reused; several descriptors are ready in one iteration.
Correct when: the counters agree with the table and never wrap; every connected
engineer is seen; the user side is one link; silence ends a session; a drop
request is served.

**Parent** (supportproxy.cpp:61-198, 914-1198). State: the list of
`listen_port` (port1, pid, sockets, removed), the epoll set, the time of the
last reload, the pid of the cleanup child. Operations: `upsert_port`,
`reload_ports`, `open_sockets`, `handle_connection` (fork), `check_children`
(reap, reopen), `fork_cleanup_child`, `wait_connection`. Hard: edits meet
exiting children; pids are reused; `fork()` and `bind()` fail; the epoll set
refers to open files that children keep open. Correct when: a pair has one
child; the parent listens only where no child serves; the child of a removed or
changed pair is told to exit; the list follows `keys.tdb`.

**Binary log writer** (binlog.cpp). State: the file, the bitmap of blocks,
`highest_seen`, pending ACKs, NACK state, sizes for the caps, START timer,
SYSTEM_TIME watermark. Operations: `handle_block`, `tick`, `observe`,
`rotate_for_reboot`. Hard: blocks are lost, repeated and reordered; ACKs make
the vehicle forget a block; writes fail; the caps use sizes computed earlier;
reboots start a new file while old blocks are in flight. Correct when: an
acknowledged block is in the current file; each hole is asked for until given
up; START keeps coming; a file holds one boot.

**connections.tdb** (conntdb.cpp, conntdb_lib.py, supportproxy.cpp:330-391,
818-886, 984, 1078; webadmin/connections.py). State: a record for each live
connection, with a drop flag. Operations: `request_drop()` sets the flag,
checks the process and sends SIGUSR1; the child's `process_drops()` collects and
deletes; a heartbeat grandchild rewrites all records of the pair every 5 s; the
parent removes them when the child is gone. Hard: the grandchild writes a
snapshot taken before the drop request; a record's index may name another
engineer by the time the signal is handled; a late grandchild writes for a dead
child. Correct when: a requested drop closes that engineer and no other, and
records of ended sessions disappear.

**Signing** (mavlink.cpp). State: per link the signing key, the timestamp of
the channel, `got_signed_packet`, `key_loaded`; in `keys.tdb` the saved timestamp.
Operations: `init`, `load_signing_key` (saved + 15 s or now),
`update_signing_timestamp` (every 10 s), `save_signing_timestamp` in a grandchild,
`receive_message`, `handle_setup_signing`. Hard: short sessions in a row, late
savers, several links, a reset or a new key while a saver is on its way. Correct
when: a saved timestamp does not drift into the future, savers undo no edit, and a
signature heard belongs to the key in use.

**keys.tdb** (keydb.cpp, keydb_lib.py, keydb.py; web admin routes). State:
entries by `port2`. Operations: add (one or several), remove, set name, passphrase,
port1, flags, retention, owners and roles, each in a transaction. Hard: tools that
check differently; requests that each would be right alone. Correct when: no
port is used twice; the pages leave an administrator.

**Session files** (session.cpp, tlog.cpp, binlog.cpp:461-521, cleanup.cpp). State:
files under `logs/<port2>/<date>/`. Operations: `next_session_n`, open with
truncation, append, `observe` and `rotate_for_reboot`, `retention_pass`,
`enforce_port2_quota`, removal of empty directories. Hard: the number is taken long
before the file is opened; the cleanup child and session children act on one
directory without a lock; SYSTEM_TIME and log blocks come in either order. Correct
when: a file is never truncated by a later session, a file holds one boot, and one
being written is not deleted before older ones.

**WebSocket transport** (websocket.cpp). State: `pending[1024]`, handshake and
TLS flags. Operations: `detect`, `fill_pending`, `check_headers`, `send_handshake`,
`recv`, `send`. Hard: requests, answers and frames in pieces; a buffer that fills;
bytes that OpenSSL holds and `select()` does not see. Correct when: every frame that
fits comes out once, in order, and the handshake is answered once.

**Login throttle** (webadmin/throttle.py): failures of the last 60 s for each
address; ten block it.

**Others**: the web pages, forms and log browser (no state of their own beyond
the databases), the socket, directory and hash helpers, generated MAVLink code,
tests and deployment scripts.

## 2. Session child: `ProxySession`

The loop body is a state machine over `pc`, one value for each block of the
source: `top -> drops -> fdset -> select -> reap -> user_udp -> (forward) ->
eng_udp -> user_accept -> user_tcp -> (forward) -> eng_accept -> eng_data -> top`;
`exited`, `bug` and `crashed` end it. Early `continue` and `break` statements are
steps back to `top` or to `exited`. The `for` loops in which something may fail
(forwarding, engineer data) advance `idx` one entry at a time.

| TLA+ | C++ |
| --- | --- |
| `conn2[i]` (`used`, `is_udp`, `from`, `age`, `ws`, `tcp_active`) | `Connection2 conn2[MAX_COMM2_LINKS]` |
| `conn2_count`, `max_conn2_count` | the `uint8_t` of the same names |
| `mavws[i]`, `mavws1` | `mav.ws`: null, this connection's WebSocket, a deleted one, or never initialised |
| `sock1` | which of `sock1_udp`, `sock1_tcp` is open |
| `ready` | the result of `select()`, less what was served |
| `drops`, `todo` | `g_drops_pending`, and the indices `process_drops` collected |
| `age1`, `conn2[i].age`, `idle` | `now - last_pkt` and the time in `select()`, saturating |

Abstracted: message contents (a message is forwarded, refused or fails), the
number of messages in a buffer (forwarding goes round a finite but arbitrary
number of times), counters of packets. Records of `connections.tdb` that
`process_drops()` finds are any set of indices, the user's among them. Every SIGUSR1
interrupts `select()`, also one that finds the flag set. Data of an engineer can end
in `crashed` through the user's WebSocket pointer, when it is forwarded, and through the
engineer's own, when `receive_message()` answers a bad signature with `mav_printf()`.

Runs (`MaxLinks` stands for 100, `Timeout` for 10 s):

* `session_safety` (2 entries, 2 UDP peers, timeout 1): `TypeOK`, `Accounting`,
  `UserLink`, `NewLinkServed`, `HiddenOnlyByClose`. Two entries are the fewest for
  which "entry 0 leaves, entry 1 stays" happens, three engineers the fewest that
  find the table full, and both are reached; the theorems hold for up to 250
  entries. No loop compares its index with the size of the table; that `idx` passes it
  by one entry at most (`TypeOK`) rests on the assertion after `select()`. The loop that
  fills the FD_SET runs before it and may look at that one entry; what it finds there is
  left out, for the assertion or an error of `select()` then ends the process.
* `session_liveness` (1 entry): `SilentUserEnds`, `DeadEngineerClosed`,
  `DropsServed`.

Three weaknesses of the table are in the model as the code has them, without a property
that says they are absent. (1) The dead-UDP path (supportproxy.cpp:446-454) closes
an entry without lowering `conn2_count`, so timeouts of UDP engineers add up until the
child stops at its own `BUG` assertion; `pc = "bug"` is reachable. (2) Lowering
`max_conn2_count` when a low entry leaves (line 505) can hide a higher entry that is in
use, which then is neither served nor timed out. `HiddenOnlyByClose` says when this can
happen: only in the step where a failed send or an end of file closes a lower entry, and
only to the highest one that was looked at; a requested drop, a timeout or a join hides
nobody, and `NewLinkServed` adds that no engineer is hidden in the step that lets it in. (3) `MAVLink::init()` keeps `ws`
(line 561), so an entry that is used again after a WebSocket engineer holds a pointer to
the deleted WebSocket; `mavws[i] = "dangling"`, and its use ends in `pc = "crashed"`.

Fairness. `WF(Running)`: the process runs unless it waits in `select()`.
`SF(ForwardDone)`: a received buffer holds finitely many messages, so the
forwarding loop is left. `SF(Tick)`: the clock advances also while the process is
busy. `WF(SelectTimeout)`: `select()` returns after its timeout if nothing else
ends it. Nothing is assumed of peers or of signals; `DeadEngineerClosed` has the
hypothesis that SIGUSR1 stops coming, since an interrupted `select()` skips the
check.

Proved (`ProxySession_proofs`): `TypeCorrect`, `AccountingCorrect`,
`NewLinkServedCorrect`, `HiddenOnlyByCloseCorrect`, `UserLinkCorrect`. `Accounting` says
`|Used| <= conn2_count <= max_conn2_count <= MaxLinks + 1`; it is not inductive, because
with a full table after a timeout nothing in it says that the next allocation stays in
bounds. `AccountingInv` adds `RoomForOne`: from the assertion after `select()` to the
allocation, `max_conn2_count <= MaxLinks`. `TypeOK` needs the same fact for its bound on
`idx`, and so follows from both. The lemmas `CloseAccounts`,
`DropAccounts` and `AllocateAccounts` say what each of the ways to change the table
does to the inequalities, from cardinalities of the set of used entries.
`UserLinkInv` adds to `UserLink` that only a connected user's TCP socket is read, which
rests on the accept block running first in the same iteration.

## 3. Parent: `Supervisor`

`pc` says where `wait_connection()` is: waiting in `epoll_wait`, woken by an event,
reaping, or reloading. `ports[p]` is the `listen_port` of a pair; `procs` are the
children as the kernel has them (running, exited and not waited for, absent), with
the pair and the `port1` they were forked with and whether SIGTERM is on its way.
Identifiers are reused as soon as a process has been waited for. `epset` holds the
sockets registered in `epfd` that the parent still has; `stale` the children through
which registrations live on: `handle_connection()` closes the parent's descriptors,
but a registration belongs to the open file, which the child shares. One cause for an
event is thus traffic of a running session (`ChildTraffic`), as `wait_connection()`
sees it: the descriptor belongs to no pair and nothing is done.

`EditKeys` is any change of `keys.tdb`, `Exit` any end of a child. Flags and filters
that `upsert_port` copies for the next child, `EINTR` and a failing epoll are left
out; `conn_remove_port2()` is in `ConnTdb`. When `keys.tdb` is missing at a reload,
the parent exits (`ReloadFails`, supportproxy.cpp:1059-1062): its children go on, and
nobody reaps or replaces them.

Runs:

* `supervisor_safety` (2 pairs, 2 values of port1, 3 pids, `fork()` may fail):
  `TypeOK`, `OneChild`, `PidsCurrent`, `ListensAlone`, `StaleChildSignalled`. Three
  pids for two pairs and the cleanup child: all can be alive at once, and reuse happens
  as soon as one is reaped.
* `supervisor_liveness` (1 pair, a reload after 2 idle seconds): `Converges`.
* `supervisor_kill_all` finds `OnlyReplacedSignalled` violated: -1 from `fork()` is
  kept as the child's pid and later given to `kill()`.

Fairness. `WF(Parent)`: the parent runs. `WF` of `Exit` for a signalled child and of
`ReapChild`: SIGTERM ends a child, and `waitpid` reports every child. `SF(ChildrenDone)`:
the loop over `waitpid` ends, as finitely many children exit during it. `SF(Reload /\
AllOpen)`: a port that is free is bound by one of the retries. That idle seconds keep
coming is a hypothesis of `Converges`, not fairness, for the code does not provide it:
`check_children()` and `reload_ports()` run only after a second without events, and since
registrations outlive `close()` in the parent (`ChildTraffic`), a busy session's packets are
events. While one pair is busy all the time, edits of any pair stay without effect and
children that have exited are not replaced.

Proved (`Supervisor_proofs`), for any number of pairs, ports and pids: `TypeCorrect`,
`OneChildCorrect`, `PidsCorrect`, `ListensAloneCorrect`, `StaleChildCorrect`. The
inductive invariant `ChildInv` joins these three with `CleanupCurrent` (the cleanup
child's pid is not that of a session child) and `HoldsKnown` (a pair that holds a pid or
a socket is in the list): without them, a reaped pid could belong to a pair and to
cleanup at once, or a pair that appears could already have a child. `NotDue` bounds the
idle seconds between reloads.

## 4. Binary log writer: `BinlogWriter` and `AckedStore`

`DropBlock`, `FailBlock` and `WriteBlock` are the outcomes of `handle_block()` once the
strict-start gate lets a block in: a cap refuses it, the seek or write fails, or it is
written. `StartTick` and `StreamTick` are `tick()`, before and after the first block.
`RotateForReboot` is the function of that name, allowed whenever a file is open:
when `observe()` calls it is in `SessionFiles`. `DiskChanges` changes the
size of the other files of the pair, `Pass` lets time pass. Sizes are in blocks, times
saturate just past the longest timeout. In a tick the socket takes everything that is
sent (`sent`) or any part of it. In a tick, which of the due gaps are
asked for within the budget is a choice, for the code walks an unordered map. `acked`
and `abandoned` are history: blocks of this file the vehicle was told to forget, and
gaps of this file that were given up. A new session has a writer of its own.

`AckedStore` is what the vehicle relies on: blocks are stored, then acknowledged, and
stay until a new file begins empty with nothing acknowledged. `BinlogWriter` implements
it with `stored <- seen`.

Runs:

* `binlog` (seqnos 0..3, jump cap 3, quota 4, other files 0 or 2 blocks, a scan after
  2 writes, 1 NACK a tick, give up after 1 unit of time or 1 block): `TypeOK`,
  `GapsTracked`, `ExtentAgrees`, `AcksHonest`, and the liveness properties `GapsEnd` and
  `KeepsStarting`. Four blocks allow a gap of two, both filled and given up, in either
  way; every cap refuses some block; the scan comes due.

Two limits of the writer that no property covers: the sizes of the other files are
computed again only after writes that succeed (binlog.cpp:226), so once the quota has
refused a block it goes on to refuse those that make the file longer, also when cleanup
has made room; and block 0, when its write has failed, is never asked for,
because gaps are looked for between blocks that were seen.

Fairness. `WF(Tick)`: each iteration of `main_loop()` comes to `tick()`, and `select()`
waits at most 10 s. `SF(StreamTick(TRUE))`: the link takes what is sent again and again.
`WF(Pass)`: time passes.

Proved (`BinlogWriter_proofs`), for every number of blocks, cap, budget and timeout:
`TypeCorrect`, `ExtentCorrect`, `GapsCorrect`, and `AcksCorrect`: `Spec => AcksHonest`, the
implementation of `AckedStore`. The inductive invariant `FileInv` adds `EmptyWhenClosed`
(between two files no block, ACK or mark is left of the last one) and `AcksInFile` (what
is acknowledged or queued to be is in the file). The first is why `rotate_for_reboot()`
must clear the queue of ACKs; the second is what makes a tick a step of `AckedStore`.
`GapsAfterWrite`, `GapsAfterTick` and `GapsAfterPass` say what a step does to the set of
gaps.

## 5. connections.tdb: `ConnTdb`

Four kinds of process write the records of one pair (records of different pairs never
meet). Each of their transactions is one step; what a process has read before is in a
variable of its own.

| TLA+ | code |
| --- | --- |
| `child`, `pc`, `table`, `drops` | the child: its pid, where `main_loop()` is, who holds index 0 (user) and 1..100 (`conn2[]`), `g_drops_pending` |
| `count`, `bound` | `conn2_count`, `max_conn2_count` |
| `snaps` | grandchildren that have been forked and have not written: pid and copy of the table |
| `db[i]` | the record: peer, pid, `CONN_FLAG_DROP_REQUESTED`, age of `last_update` |
| `kills` | a record is marked, `os.kill(pid, SIGUSR1)` is still to come |
| `asked` | history: a drop of this index was requested, was not served and was not lost with its record |

`ProcessDrops` collects and deletes the marked records in one transaction and closes what
they name; `Save(s)` deletes all records and writes those of its copy; `Request(i)` is
`_flip_drop_flag()`; `Reap` and `RemovePair` are the parent's clean-up. Databases that
cannot be opened (`OpenMayFail`), forks that fail and pids that are reused are steps.

The table is that of `ProxySession` with what the records need of it. `Join`, `Leave`,
`Closed` and `SelectReturns` change the two counters as the code does: an engineer takes
the first free entry, a close lowers the bound when the counters are equal, a requested
drop when the entry is the last one, a silent UDP engineer changes neither, and the
assertion on the bound ends the child. The heartbeat lists the entries in use below the
bound (`Served`, supportproxy.cpp:855), so an engineer that is hidden behind the bound is
connected and not listed. An engineer may have several connections, over UDP and TCP,
which are not told apart. Coarser than `ProxySession`: an iteration has one joining
engineer or user at its end, any number of closings before it, and no look past the end of
the table (`ProxySession` has that as `BeyondTable`); a signal between the test of the flag
and `select()` counts as one during the following iteration; the child of a removed
pair is gone at once, for what it does until SIGTERM arrives it may do just before.

Runs:

* `conntdb` (2 entries and the user, 1 engineer, 1 pid, 2 grandchildren at a time, records
  shown for less than one period): `TypeOK`, `OneDropPerRequest`, `MirrorConverges`,
  `OrphansHidden`. Two entries: the lower one leaves and hides the upper one. One engineer
  who joins again: an entry is used again between the page's reading and the signal. One
  pid: every new child has the pid of the last, the worst case for a late signal or
  record. Two grandchildren: they may commit in the other order.
* `conntdb_drop_lost` finds `DropServed` violated: a heartbeat with an older copy of the
  table writes the marked record again without the mark before the child looks.

`MirrorConverges` is about what the child serves: the list comes to name every engineer
below the bound, with the child's pid, and nobody else; an engineer who is hidden is not
on the page, which thus cannot drop them.

A request names an index, so `OneDropPerRequest` does not say who is dropped: by the time
the signal is handled another engineer may have the index. It says that a request is good
for one connection at most.

Fairness. `WF(Loop \/ SessionEnds)`: the child runs, and `select()` ends after 10 s.
`WF` of the grandchildren: each of them ends, having written or not. `SF(Heartbeat)` and
`SF(SaveCurrent)`: 5 s pass, and `fork()` and the database do not fail for ever.
`WF(Tick)`: time passes. `MirrorConverges` has the hypothesis that nobody joins, leaves or
asks for a drop any more: each request interrupts `select()`, and a `continue` skips the
heartbeat. `OrphansHidden` has the hypothesis that the parent has no child for the pair, so
that it reaps is not assumed.

Proved (`ConnTdb_proofs`): `TypeCorrect` and `OneDropCorrect`, for any number of engineers,
pids and grandchildren and up to 250 entries. `TypeOK` bounds the counters, and needs
`Counters`: the used entries are at most `count`, `count <= bound <= Links + 1`, and while
engineers are served, after the assertion, `bound <= Links`. For `OneDropPerRequest` the
invariant is `MarksAsked`: a record that carries the mark is one whose drop was asked for
and not served. A heartbeat keeps it, because what it writes carries no mark, which is
also what loses requests.

## 6. keys.tdb and signing: `KeyDb`, `Signing`

`KeyDb` has the entries with what the checks read (port1, admin, secret, timestamp) and an
action for each edit: `Add`, `AddBatch` (the page's form for several pairs, all or none),
`EditByAdmin`, `EditByOwner` (also `setpass` and `resettimestamp`), `DeleteByAdmin`, and
the calls of `keydb.py` that look at no other entry (`RemoveEntry`, `SetPort1`,
`SetFlag`). Each is one step, for each runs in a TDB transaction from the first fetch to
the commit. `edited`, `given` and `bare` are history: what an entry was last edited to be,
the timestamp it was last given, whether the last step was one of the unchecked calls.

`Signing` extends it with one child of the pair `Pair`: `link[l]` is the `MAVLink` object
of a channel with the channel's signing status, `savers` the timestamps that forked
grandchildren carry and have not written, `reloading` the link that has stored a new key
and not loaded it yet. Time is in units of 10 s.

| Action | code |
| --- | --- |
| `Connect(l)` | `MAVLink::init()`, `load_signing_key()`, first `update_signing_timestamp()` |
| `Send(l)` | `send_message()`: every 10 s it raises the timestamps and forks a saver |
| `ReceiveGood`, `ReceiveBad` | `receive_message()` with mavlink's check of the signature |
| `SetupSigning`, `Reload` | `handle_setup_signing()`: the transaction, then `load_signing_key()` |
| `Save(t)`, `SaveFails(t)` | `save_signing_timestamp()` in the grandchild |
| `EditKeys` | the web admin or `keydb.py` |

Run `signing` (2 support ports, 2 user ports of which one is also a support port, 1 link,
1 passphrase and the zero key, load buffer 2, limit 3, clocks 1 ahead, time to 2, 2
savers): `TypeOK`, `NoDrift`, `KeysAsEdited`, `HeardWithKey`, `NoNewClash`, `AdminStays`.
A port that may be either kind is what makes a clash across roles possible; a buffer
larger than the clock's steps is what would drift; two savers with different timestamps
outlive edits, resets and removals. One link is enough for TLC, because links meet only in
`Raised` and in the entry; the theorems are for any number. No fairness: nothing here is
about progress.

Proved (`Signing_proofs`): `TypeCorrect`, `NoDriftCorrect`, `KeysCorrect`, `HeardCorrect`,
and `NewLinkCorrect`: a link that loads an entry whose given timestamp is not in the
future accepts a peer whose clock is right. The inductive invariant is `Inv == KeysInv /\
LinksInv`. The edits are reduced first: `EditEffect` says that each leaves, removes, or
stores an entry, the latter with timestamp 0 or the one it had; after that the proofs of
the invariants do not look at the forms again. `SaveKeysType` is the same for savers: they
change the timestamp alone, and to at most the clock or what was there.

Proved (`KeyDb_proofs`): `NoNewClashCorrect` and `AdminStaysCorrect`. Both come from
`ChildKeeps` (nothing a child does changes a port or a role) and one lemma for each kind of
edit: `PortChecked` for one port, `BatchChecked` for the pairs of a batch against each
other and the entries, `AdminLeft` for a role that is taken away (with the cardinality of
the set of administrators). Both theorems are about edits that check. `keydb.py setport1`
makes two pairs clash, and `keydb.py clearflag` and `remove` take the last administrator
away; that is the documented use of the tool and is excluded by `bare`.

## 7. Session files and reboots: `SessionFiles`

The disk is a sequence of files in the order of their last write, each with its date,
number and kind, who wrote it and of which boots of the vehicle it holds blocks. The
child takes `n` when it starts (`StartChild`), opens the tlog with the first frame
(`Logged`) and the bin with the vehicle's block 0 (`Block`); `Observe` is
`BinlogWriter::observe()` with `rotate_for_reboot()`, in arithmetic modulo `Wrap`; the
cleanup child's `Expire`, `ListForQuota` and `UnlinkForQuota` come between any two of these.
The quota has no number here: `enforce_port2_quota()` sums bytes (cleanup.cpp:100-118), a
.tlog has no limit of its own, and so the pass may list the files at any time and
stop after any of them, or after none is left. A .tlog that alone exceeds the quota of 1 GiB
is thus unlinked while it is being written, once all others' files are gone; the writer
goes on in a file without a name. Files are sorted by an exact order of last writes; the code
compares whole seconds of `st_mtime` in a `std::sort` that is not stable (cleanup.cpp:112-113),
so of two files written in the same second either may come first. That is left out, and with it
that a file closed in this second may outlive one that is still written.
The vehicle runs, reboots, and sends SYSTEM_TIME and blocks in either order
(`BlockArrives`, `LateBlock`, `SystemTime`, `StrayTime`); midnight comes.

Runs:

* `session_files` (clock modulo 3, 10 s are 1, 2 dates, 2 children, 2 boots, 2 numbers a
  day): `TypeOK`, `Paired`, `QuotaSparesActive`, `OpensFresh`, `OneBootPerFile`,
  `RotatesOncePerBoot`. Two children: one whose files are old and one that is writing while
  they are listed, expire or are unlinked, so that the list has files of both and comes to
  the active ones; two dates: a number that was taken before midnight and is used after it;
  a clock of 3: SYSTEM_TIME at 0, in the middle, and where adding 10 s wraps. The theorems
  have no bound on children.
* `session_files_new_log` finds `NewLogKept` violated: block 0 of the new boot before its
  SYSTEM_TIME.

The hypotheses in the properties are those the code needs: `short` (the vehicle was up so
shortly at the last report, or comes so late with the first one, that 10 s do not tell
them apart, or the sum wraps) and `stray` (a SYSTEM_TIME out of order or of another
autopilot while `fc_sysid` is 0).

Proved (`SessionFiles_proofs`), for any number of children, dates, boots, files and
numbers and any wrap of the clock: `TypeCorrect`, `PairedCorrect`,
`QuotaCorrect`, `OpensFreshCorrect`, `OneBootCorrect` and `RotatesCorrect`, that is every
property of the run. None of them is inductive. The invariant `Inv` adds

* about numbers: no file is of a later date than today or of a child that has not started
  (`Past`); the child's `n` and `pending` are above all numbers of today's files of its
  predecessors (`Below`); it keeps its one tlog open (`OwnTlog`); and whenever it has no bin
  open, the number of the next one is above those it used (`OwnBin`). Together they make every open
  fresh, which keeps the numbers paired;
* about the order of the list: the files of the running child are those written last, and
  a path is there once (`Listing`); a path on the quota pass's list exists (`Listed`), and an
  open file there has all files of others before it (`Spares`). A write moves a file to the
  end, an unlink takes one away (`OthersListing`), the pass takes the first of the list, and
  in each case what comes before an active file can only become less;
* about reboots: `last_system_time_boot_ms_` is the clock of the report in `told`
  (`Reports`), and an open bin has blocks of the running boot alone once a report has shown
  it (`OneBoot`).

Files are described as a set, apart from `Listing`: `HasFile` says that the `CHOOSE` in
`The` finds the only file with a path, and `MaxIsGreatest` that a bounded set of numbers
has the maximum that `next_session_n()` takes (by well-foundedness, without induction).
`WriterStep` is the common part of the steps of the child, `ObserveAfter` that of the two
kinds of SYSTEM_TIME.

## 8. WebSocket input: `WebSocketBuffer`

Bytes are counted. What the peer has sent and `recv()` has not taken lies in the network,
in the kernel, in OpenSSL and in `pending[]`, in this order. `Fills` is `fill_pending()`: a
plain `recv()` takes what there is room for; `SSL_read()` takes a record of any length
off the descriptor and keeps what did not fit, and then the descriptor need not be
readable although bytes are there. `ends` has the place where each frame that is on its
way ends, counted from the first byte that was not taken. `Construct` is the first data of
an accepted connection (`detect()` and the constructor), `ConstructWithoutTLS` a constructor
that fails to set TLS up, `Recv` a call of `recv()`, `CheckHeaders` the search for the key
with a response that goes out in any number of parts. The bytes of the TLS handshake are not
counted, so `detect()`, which needs three of them at once, may or may not see it; if it
does not, the connection goes on as plain MAVLink (`RecvRaw`).

Run `websocket` (buffer 7, request 5 with the key complete at 4, response 2, frames of 2,
3 and 7, the largest filling the buffer, 9 bytes in flight): `TypeOK`, `NothingLost`,
`AnsweredOnce`, `KeepsServing`. Frames shorter than the buffer by more than a half: two in
one read, and one with the start of the next. Fairness: the peer keeps sending, the
network delivers, `main_loop()` reads what is readable; `KeepsServing` needs each of them,
for bytes in OpenSSL come out only after further bytes arrive.

Proved (`WebSocketBuffer_proofs`), for every size of the buffer, the request, the response
and frames: `TypeCorrect`, `NothingLostCorrect` and `AnsweredCorrect`. `NothingLost` needs
the order of the stream (`Ordered`: no frame is on its way before the request was taken and
the response was complete) and that the frames end one after the other, each its length
after the one before (`Increasing`, `Marks`): what a `recv()` takes is a whole first frame,
and what it leaves are the others, moved forward (`FirstFrame`, `MarksNext`). `FillsKeep`
says that a read, plain or TLS, moves bytes and loses none. `Answered` ties `handshake_sent`
to what the peer got.

`decode()` runs on `pending[]` also while the request is incomplete or its answer
interrupted (websocket.cpp:365): "GE" is taken for an unmasked frame of 69 bytes, and with
71 bytes there recv() hands out text of the request as data. Bytes of the request
that arrive after `check_headers()` has emptied the buffer, because the key was there
already, are likewise taken for the start of a frame. And when there is no SSL context,
certificate or key (websocket.cpp:69-80), the constructor returns with `is_SSL()` true, no SSL
object and the connection open: `recv()` then reads the TLS handshake with a plain
`recv()` and decodes it as frames. In each of these cases the model ends in mode
`"misread"`, which the properties leave out. A frame longer than the buffer never becomes
complete; the model's peer does not send one.

## 9. What is proved and what is only checked

`tlapm` checks every theorem from the named assumptions about constants in each module
(`MaxLinks` in 1..250, pids positive, timeouts, buffers and caps natural numbers, markers
outside the sets they mark), nothing else. TLC evaluates these assumptions in each run.

Every invariant and every action property of the passing runs, and the refinement of
`AckedStore`, is a theorem, for all values of the constants. The bounds that keep TLC's
instances finite (`MaxBoot`, `MaxN` and the like) are constants too, so a theorem holds
whatever they are.

Only checked by TLC, on the instances above: liveness (`SilentUserEnds`,
`DeadEngineerClosed`, `DropsServed`, `Converges`, `GapsEnd`, `KeepsStarting`,
`MirrorConverges`, `OrphansHidden`, `KeepsServing`), because TLAPS does not prove temporal
properties that rest on fairness; and the divergences, which are counterexamples.

## 10. Not modelled

* The frame parser, checksums, SHA-256, the signature itself and the generated MAVLink
  headers: data for which the models have a choice of outcomes.
* `WebSocket::send()`, which changes nothing except that an error closes the descriptor
  (`Close`), and the TLS handshake. Errors of `SSL_accept()` and `SSL_read()` within
  `fill_pending()` close it as well; errors of setting TLS up in the constructor do not
  (`ConstructWithoutTLS`).
* The socket and directory helpers (util.cpp). `open_socket_in_udp()` and
  `open_socket_in_tcp()` return without closing the descriptor when `bind()` or `listen()`
  fails (util.cpp:33 and following), so each retry of a port in use costs one; `Supervisor`
  counts no descriptors.
* The login throttle (failures of the last 60 s for each address, ten block it; in one
  process, under one lock), the log browser (read-only), login sessions, templates, forms
  beyond the checks named above, and configuration.
* Names, retention, recording flags, `fc_sysid` and counters of keys.tdb entries, and the
  layout of older records: no check reads them.
* Empty directories and their removal; files count one each in `SessionFiles`.
* Memory safety, except where control depends on it (the loop bound past `conn2[]`,
  deleted WebSockets, bytes of `pending[]`).

## 11. Plan

1. `BinlogWriter` composed with `observe()` from `SessionFiles`: the rotation with its real
   guard in both, one vehicle.
2. A module for the descriptors of the parent (util.cpp, `open_sockets`), with the leak.
3. The login throttle, and sessions of the web admin against edits of roles.
4. Theorems: `ProxySession` against an abstract table of engineers.
