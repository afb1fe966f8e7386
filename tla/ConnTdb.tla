------------------------------ MODULE ConnTdb ------------------------------
(***************************************************************************)
(* connections.tdb, the live connections of one port pair.  Four kinds of  *)
(* process write it, each in a transaction of its own: heartbeat           *)
(* grandchildren with a copy of the child's table taken when they were     *)
(* forked, the child's process_drops(), the parent when a child is gone,   *)
(* and the web admin, which marks a record and then signals the child.     *)
(* Index 0 is the user (the vehicle), 1..Links are the entries of conn2[], *)
(* of which the child looks at, and lists, only 1..bound.                  *)
(***************************************************************************)
EXTENDS Integers, FiniteSets

CONSTANTS
  Links,      \* entries of conn2[]
  Engineers,  \* peers of support engineers
  Pids,       \* process identifiers of the pair's children
  MaxAge,     \* max_age_s of iter_active(), in heartbeat periods
  OpenMayFail,\* connections.tdb can be found locked or absent
  MaxSnaps    \* bound: grandchildren of the pair at one time

User == "user"
None == "none"
NoPid == 0

ASSUME LinksAssumption == Links \in 1..250   \* uint8_t counters
ASSUME AgeAssumption == MaxAge \in Nat
ASSUME SnapsAssumption == MaxSnaps \in Nat \ {0}
ASSUME OpenAssumption == OpenMayFail \in BOOLEAN
ASSUME PeersAssumption == {User, None} \cap Engineers = {}
ASSUME PidsAssumption == NoPid \notin Pids

VARIABLES
  child,    \* the pid the parent holds for the pair
  pc,       \* where the child's main_loop() is
  table,    \* who holds each index, in the child's memory
  count,    \* conn2_count
  bound,    \* max_conn2_count
  drops,    \* g_drops_pending
  snaps,    \* grandchildren that have not written yet: [pid, table]
  db,       \* the pair's records
  kills,    \* pids request_drop() has marked a record for and not signalled yet
  asked     \* history: requested drops neither served nor lost with their record

tableVars == <<table, count, bound>>
childVars == <<pc, tableVars, drops>>
vars == <<child, childVars, snaps, db, kills, asked>>

Index == 0..Links
Slots == 1..Links
Peers(i) == IF i = 0 THEN {User} ELSE Engineers
Tables == {t \in [Index -> Engineers \union {User, None}] :
             \A i \in Index : t[i] \in Peers(i) \union {None}}
Empty == [i \in Index |-> None]
Used == {i \in Slots : table[i] # None}
\* What a loop over the table sees: used and i < max_conn2_count in the code's
\* numbering of conn2[], which starts at 0.  The user is not in conn2[].
Served == {i \in Index : i <= bound /\ table[i] # None}

\* A ConnEntry, or the absence of one.
Record == [peer : Engineers \union {User}, pid : Pids, flag : BOOLEAN,
           age : 0..(MaxAge + 1)]
NoRecord == [peer |-> None]
NoRecords == [i \in Index |-> NoRecord]
Present(i) == db[i] # NoRecord
Flagged == {i \in Index : Present(i) /\ db[i].flag = TRUE}

Running == pc # "gone"

\* The process ends, and with it its table.
Exit == /\ pc' = "gone"
        /\ table' = Empty /\ count' = 0 /\ bound' = 0

Init ==
  /\ child = NoPid /\ pc = "gone" /\ drops = FALSE
  /\ table = Empty /\ count = 0 /\ bound = 0
  /\ snaps = {} /\ db = NoRecords /\ kills = {}
  /\ asked = [i \in Index |-> FALSE]

----------------------------------------------------------------------------
(* The child: main_loop() *)

\* The first packet for the pair: a child with nobody connected.
NewChild ==
  /\ child = NoPid
  /\ child' \in Pids
  /\ pc' = "top" /\ drops' = FALSE
  /\ table' = Empty /\ count' = 0 /\ bound' = 0
  /\ UNCHANGED <<snaps, db, kills, asked>>

\* In select(): the flag was clear when the loop tested it.
Waiting == pc = "top" /\ ~drops

\* Mutant: the records stay.
WithoutNone(indices) == db
\* conn_delete() of each collected index.
Without(indices) == [i \in Index |-> IF i \in indices THEN NoRecord ELSE db[i]]

\* close() and the counters, one entry after the other: max_conn2_count goes
\* down by one for each entry that is the last one when its turn comes.  The
\* order is that of the traversal, which is arbitrary.
Closed(S) ==
  /\ table' = [i \in Index |-> IF i \in S THEN None ELSE table[i]]
  /\ count' = count - Cardinality(S)
  /\ \E b \in 0..bound :
        /\ (b + 1)..bound \subseteq S
        /\ bound \in S => b < bound
        /\ bound' = b

\* process_drops(): collect and delete the marked records in one transaction,
\* close what they name; the user's index ends the session.
ProcessDrops ==
  /\ pc = "top" /\ drops
  /\ drops' = FALSE
  /\ db' = Without(Flagged)
  /\ asked' = [i \in Index |-> asked[i] /\ i \notin Flagged]
  /\ \/ /\ 0 \in Flagged
        /\ Exit
     \/ /\ 0 \notin Flagged
        /\ pc' = "top" /\ Closed(Used \intersect Flagged)
  /\ UNCHANGED <<child, snaps, kills>>

\* connections.tdb cannot be opened: the flag is cleared all the same.
ProcessDropsFails ==
  /\ OpenMayFail /\ pc = "top" /\ drops
  /\ drops' = FALSE /\ pc' = "top"
  /\ UNCHANGED <<child, tableVars, snaps, db, kills, asked>>

\* Mutant of SelectReturns: max_conn2_count is not compared with the table.
SelectReturnsUnasserted ==
  /\ Waiting /\ pc' = "serve"
  /\ \E dead \in SUBSET (Served \ {0}) :
        table' = [i \in Index |-> IF i \in dead THEN None ELSE table[i]]
  /\ UNCHANGED <<child, count, bound, drops, snaps, db, kills, asked>>
\* select() returns: the assertion on max_conn2_count, then the UDP engineers
\* that have been silent are closed, which leaves the counters alone.
SelectReturns ==
  /\ Waiting
  /\ \/ bound > Links /\ Exit
     \/ /\ bound <= Links
        /\ pc' = "serve"
        /\ \E dead \in SUBSET (Served \ {0}) :
              table' = [i \in Index |-> IF i \in dead THEN None ELSE table[i]]
        /\ UNCHANGED <<count, bound>>
  /\ UNCHANGED <<child, drops, snaps, db, kills, asked>>

\* The user connects.  Over TCP that ends the iteration; what follows a first UDP
\* packet in its iteration is taken for an iteration of its own.
JoinUser ==
  /\ pc = "serve" /\ pc' = "top"
  /\ table[0] = None /\ table' = [table EXCEPT ![0] = User]
  /\ UNCHANGED <<child, count, bound, drops, snaps, db, kills, asked>>

MAX(a, b) == IF a > b THEN a ELSE b

\* An engineer takes the first free entry, and the same holds of the iteration.  TCP
\* compares conn2_count with the size of the table first, UDP does not.  An engineer
\* may have several connections.
Join(i) ==
  /\ pc = "serve" /\ pc' = "top"
  /\ table[i] = None /\ \A j \in Slots : j < i => table[j] # None
  /\ \E q \in Engineers : table' = [table EXCEPT ![i] = q]
  /\ count' = count + 1 /\ bound' = MAX(bound, count + 1)
  /\ UNCHANGED <<child, drops, snaps, db, kills, asked>>

\* End of file or a failed send closes an engineer's entry that is looked at.
Leave(i) ==
  /\ pc = "serve" /\ i \in Served
  /\ table' = [table EXCEPT ![i] = None]
  /\ bound' = IF count = bound THEN bound - 1 ELSE bound
  /\ count' = count - 1
  /\ UNCHANGED <<child, pc, drops, snaps, db, kills, asked>>

\* The copy of the table that fork() makes, as far as the grandchild reads it: the
\* user, and the entries in use below max_conn2_count.
Snapshot ==
  [pid |-> child,
   table |-> [i \in Index |-> IF i \in Served THEN table[i] ELSE None]]

\* The end of an iteration: a grandchild with the table as it is now.
Heartbeat ==
  /\ pc = "serve"
  /\ Cardinality(snaps) < MaxSnaps
  /\ snaps' = snaps \union {Snapshot}
  /\ pc' = "top"
  /\ UNCHANGED <<child, tableVars, drops, db, kills, asked>>
\* 5 s have not passed since the last one, fork() fails, or the `continue` of an
\* engineer that is not accepted skips it.
NoHeartbeat ==
  /\ pc = "serve"
  /\ pc' = "top"
  /\ UNCHANGED <<child, tableVars, drops, snaps, db, kills, asked>>

\* Silence of the user, SIGTERM, exit: main_loop() is left.
SessionEnds ==
  /\ Running
  /\ Exit
  /\ UNCHANGED <<child, drops, snaps, db, kills, asked>>

----------------------------------------------------------------------------
(* The heartbeat's grandchild *)

Fresh(peer, pid) == [peer |-> peer, pid |-> pid, flag |-> FALSE, age |-> 0]

\* Mutant: the pair's old records are not deleted first.
WrittenOver(s) ==
  [i \in Index |-> IF s.table[i] = None THEN db[i] ELSE Fresh(s.table[i], s.pid)]
\* conn_delete_for_port2(), then conn_write() of each entry, in one transaction.
Written(s) ==
  [i \in Index |-> IF s.table[i] = None THEN NoRecord ELSE Fresh(s.table[i], s.pid)]

Save(s) ==
  /\ s \in snaps
  /\ db' = Written(s) /\ snaps' = snaps \ {s}
  /\ asked' = [i \in Index |-> asked[i] /\ i \in Flagged']
  /\ UNCHANGED <<child, childVars, kills>>

\* connections.tdb cannot be opened.
Lose(s) ==
  /\ OpenMayFail /\ s \in snaps
  /\ snaps' = snaps \ {s}
  /\ UNCHANGED <<child, childVars, db, kills, asked>>

----------------------------------------------------------------------------
(* The web admin: request_drop() *)

\* _flip_drop_flag()
Request(i) ==
  /\ Present(i)
  /\ db' = [db EXCEPT ![i].flag = TRUE]
  /\ kills' = kills \union {db[i].pid}
  /\ asked' = [asked EXCEPT ![i] = TRUE]
  /\ UNCHANGED <<child, childVars, snaps>>

\* kill(pid, SIGUSR1), if the process is still there.  One that falls between the
\* test of the flag and select() has the effect of one that comes during the
\* iteration that follows.
Signal(p) ==
  /\ p \in kills
  /\ kills' = kills \ {p}
  /\ drops' = (drops \/ (p = child /\ Running))
  /\ UNCHANGED <<child, pc, tableVars, snaps, db, asked>>

----------------------------------------------------------------------------
(* The parent *)

\* conn_remove_port2(): without effect if the database cannot be opened.
RemoveRecords == (db' = NoRecords) \/ (OpenMayFail /\ db' = db)

Reap ==
  /\ child # NoPid /\ ~Running
  /\ child' = NoPid
  /\ RemoveRecords
  /\ asked' = [i \in Index |-> asked[i] /\ i \in Flagged']
  /\ UNCHANGED <<childVars, snaps, kills>>

\* reload_ports() finds no entry for the pair and stops its child.  What the child
\* does before the signal reaches it, it might have done just before.  Until there
\* is an entry again NewChild does not come.
RemovePair ==
  /\ Exit
  /\ RemoveRecords
  /\ asked' = [i \in Index |-> asked[i] /\ i \in Flagged']
  /\ UNCHANGED <<child, drops, snaps, kills>>

----------------------------------------------------------------------------
(* Time *)

Older(r) == [r EXCEPT !.age = IF @ > MaxAge THEN @ ELSE @ + 1]

\* A heartbeat period.
Tick ==
  /\ db' = [i \in Index |-> IF Present(i) THEN Older(db[i]) ELSE NoRecord]
  /\ UNCHANGED <<child, pc, tableVars, drops, snaps, kills, asked>>

\* Mutant: every record is listed.
ShownAll == {i \in Index : Present(i)}
\* iter_active(): the records the page lists.
Shown == {i \in Index : Present(i) /\ db[i].age <= MaxAge}

Loop == ProcessDrops \/ ProcessDropsFails \/ SelectReturns \/ Heartbeat \/ NoHeartbeat
Next ==
  \/ Loop \/ NewChild \/ SessionEnds \/ JoinUser
  \/ \E i \in Slots : Join(i) \/ Leave(i)
  \/ \E i \in Index : Request(i)
  \/ \E s \in snaps : Save(s) \/ Lose(s)
  \/ \E p \in Pids : Signal(p)
  \/ Reap \/ RemovePair
  \/ Tick

\* The loop runs, select() waits at most 10 s and then ends the session; fork(),
\* accept() and the database do not fail for ever; a grandchild ends.
SaveCurrent == \E s \in snaps : s = Snapshot /\ Save(s)
Fairness ==
  /\ WF_vars(Loop \/ SessionEnds) /\ SF_vars(Heartbeat)
  /\ WF_vars(\E s \in snaps : Save(s) \/ Lose(s)) /\ SF_vars(SaveCurrent)
  /\ WF_vars(Tick)

Spec == Init /\ [][Next]_vars /\ Fairness

----------------------------------------------------------------------------
(* Properties *)

ChildTypes ==
  /\ child \in Pids \union {NoPid}
  /\ pc \in {"top", "serve", "gone"}
  /\ table \in Tables /\ count \in 0..(Links + 1) /\ bound \in 0..(Links + 1)
  /\ drops \in BOOLEAN
SharedTypes ==
  /\ snaps \in SUBSET [pid : Pids, table : Tables]
  /\ db \in [Index -> Record \union {NoRecord}]
  /\ kills \in SUBSET Pids
  /\ asked \in [Index -> BOOLEAN]
\* A running child is the one the parent knows; records and snapshots name
\* children of the pair.  The counters that say how much of the table is listed
\* pass it by one at most: the loop's assertion looks at them in time.
TypeOK == ChildTypes /\ SharedTypes /\ (Running => child \in Pids)

\* process_drops() closes index i in this step.
Drops(i) == pc = "top" /\ drops /\ ~drops' /\ table[i] # None /\ table'[i] = None

\* A request closes one connection: process_drops() closes an index only when a
\* drop of that index was asked for, was not served yet and was not lost with its
\* record, whichever heartbeats, sessions and signals came between; the user's index
\* apart, the rest of the session stays.
OneDropPerRequest ==
  [][\A i \in Index : Drops(i) => asked[i] \/ asked[0]]_vars

\* The list mirrors what the child serves: an engineer that another one's leaving
\* has hidden behind max_conn2_count is not listed.
Mirrors == \A i \in Index :
  IF i \in Served
  THEN Present(i) /\ db[i].peer = table[i] /\ db[i].pid = child
  ELSE ~Present(i)

\* When nobody joins, leaves or is dropped any more, the list comes to agree with
\* the child's table and stays so: heartbeats that were delayed, failed or written
\* out of order, and what sessions before left behind, are repaired.  (Requests
\* that never stop would keep select() from returning, and with it the heartbeat.)
MirrorConverges ==
  <>[]Running /\ <>[][table' = table /\ kills' \subseteq kills]_vars
     => <>[]Mirrors

\* Once a pair has no child, the page lists nothing for it, even if a
\* grandchild of the last session writes after the parent's clean-up
\* ("defence in depth against orphans").
OrphansHidden == <>[](child = NoPid) => <>[](Shown = {})

----------------------------------------------------------------------------
(* What the documentation says and the code does not do *)

\* "scans for entries matching its port2 with this bit set, closes the matching
\* slot": a marked connection whose child has been signalled is closed, or its
\* session ends.
DropServed ==
  \A i \in Index, q \in Engineers \union {User} :
     (i \in Flagged /\ db[i].peer = q /\ table[i] = q /\ drops /\ Running)
        ~> (table[i] # q \/ ~Running)
=============================================================================
