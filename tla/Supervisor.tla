----------------------------- MODULE Supervisor -----------------------------
(***************************************************************************)
(* The SupportProxy parent: the list of port pairs it keeps in step with   *)
(* keys.tdb, the child it forks for a pair on its first packet, and the    *)
(* log-cleanup child (supportproxy.cpp, from upsert_port to main).         *)
(*                                                                         *)
(* wait_connection() is a loop around epoll_wait(): an event may fork a    *)
(* child; only a full second without any event lets the parent reap its    *)
(* children and, every few seconds, reload keys.tdb.                       *)
(***************************************************************************)
EXTENDS Integers, FiniteSets

CONSTANTS
  Pairs,         \* port2 values: the keys of keys.tdb
  Port1s,        \* values of KeyEntry.port1
  Pids,          \* process identifiers of the children
  ReloadEvery,   \* the 5 s between reloads, in idle seconds
  ForkMayFail    \* whether fork() can fail

None == "none"       \* no entry, no pair, no process
NoPid == 0           \* p->pid of a pair without a child
FailedPid == -1      \* what fork() returned when it failed

ASSUME PidsAssumption == Pids \subseteq Nat \ {0}
ASSUME NoneAssumption == None \notin Pairs \union Port1s
ASSUME ReloadAssumption == ReloadEvery \in Nat \ {0}
ASSUME ForkAssumption == ForkMayFail \in BOOLEAN

VARIABLES
  keys,      \* keys.tdb: port2 |-> port1, or None
  ports,     \* the list of listen_port, by port2
  epset,     \* the sockets of each pair registered in epfd
  stale,     \* children whose sockets are still registered in epfd
  pc,        \* where wait_connection() is
  since,     \* idle seconds since last_reload
  cleanup,   \* cleanup_child_pid
  procs      \* the children, as the kernel has them

vars == <<keys, ports, epset, stale, pc, since, cleanup, procs>>

\* The sockets of a pair: those on port1 and those on port2.
Ends == {"user", "eng"}

Port == [known : BOOLEAN, port1 : Port1s \union {None},
         pid : Pids \union {NoPid, FailedPid}, open : SUBSET Ends,
         removed : BOOLEAN]
Unknown == [known |-> FALSE, port1 |-> None, pid |-> NoPid, open |-> {},
            removed |-> FALSE]

\* A process: a child of a pair with the port1 it was forked with, or the
\* cleanup child (pair = None); signalled when SIGTERM is on its way; an exited
\* process stays until it is waited for.
Process == [state : {"absent", "running", "exited"}, pair : Pairs \union {None},
            port1 : Port1s \union {None}, signalled : BOOLEAN]
Absent == [state |-> "absent", pair |-> None, port1 |-> None,
           signalled |-> FALSE]
Running(pair, port1) == [state |-> "running", pair |-> pair, port1 |-> port1,
                         signalled |-> FALSE]

FreePids == {i \in Pids : procs[i].state = "absent"}
Children(p) == {i \in Pids : procs[i].state # "absent" /\ procs[i].pair = p}

----------------------------------------------------------------------------
(* Sockets and epoll *)

\* open_sockets() opens what is not open yet; any bind() may fail.
OpenedBy(open) == {o \in SUBSET Ends : open \subseteq o}

\* rebuild_epoll_set(): the sockets of the pairs the parent listens on.
Registered(ps) ==
  [p \in Pairs |-> IF ps[p].pid = NoPid /\ ~ps[p].removed THEN ps[p].open ELSE {}]

----------------------------------------------------------------------------
(* upsert_port() and reload_ports() *)

\* Mutants: a changed pair forgets its child; what failed to open is not retried.
UpsertedForgets(e, port1, opened) ==
  LET pid == IF e.port1 = port1 THEN e.pid ELSE NoPid
  IN [known |-> TRUE, port1 |-> port1, pid |-> pid, removed |-> FALSE,
      open |-> IF pid = NoPid THEN opened ELSE e.open]
UpsertedOnce(e, port1, opened) ==
  LET fresh == ~e.known \/ e.removed \/ e.port1 # port1
  IN [known |-> TRUE, port1 |-> port1, pid |-> e.pid, removed |-> FALSE,
      open |-> IF ~fresh THEN e.open ELSE IF e.pid = NoPid THEN opened ELSE {}]

\* A record of keys.tdb for a pair, and what open_sockets() opened for it.  A
\* pair with a child opens nothing; one that came back or changed port1 starts
\* from closed sockets.
Upserted(e, port1, opened) ==
  LET fresh == ~e.known \/ e.removed \/ e.port1 # port1
  IN [known |-> TRUE, port1 |-> port1, pid |-> e.pid, removed |-> FALSE,
      open |-> IF e.pid # NoPid THEN (IF fresh THEN {} ELSE e.open)
               ELSE opened]

\* A pair without a record: torn down, once.
Removed(e) == IF e.known /\ ~e.removed
              THEN [e EXCEPT !.removed = TRUE, !.open = {}] ELSE e

\* Mutant: only a changed port1 ends the session.
ReplacedOnly(e, port1) == e.pid # NoPid /\ port1 # None /\ e.port1 # port1

\* Children told to exit: their pair is gone or has a new port1.
Replaced(e, port1) == /\ e.known /\ ~e.removed /\ e.pid # NoPid
                      /\ e.port1 # port1

Signalled(c) == [c EXCEPT !.signalled = TRUE]

\* kill(pid, SIGTERM); a pid of -1 is every process there is.
Signal(targets) ==
  LET reached == IF FailedPid \in targets THEN Pids ELSE targets
  IN [i \in Pids |-> IF i \in reached /\ procs[i].state = "running"
                     THEN Signalled(procs[i]) ELSE procs[i]]

\* The traversal of keys.tdb is one transaction.  With record None, Replaced
\* says that the pair has been removed.
Reload ==
  /\ pc = "reload"
  /\ \E opened \in [Pairs -> SUBSET Ends] :
        /\ \A p \in Pairs : opened[p] \in
             OpenedBy(IF ports[p].removed \/ ports[p].port1 # keys[p] THEN {}
                      ELSE ports[p].open)
        /\ ports' = [p \in Pairs |->
                       IF keys[p] = None THEN Removed(ports[p])
                       ELSE Upserted(ports[p], keys[p], opened[p])]
  /\ procs' = Signal({ports[p].pid : p \in {q \in Pairs :
                                             Replaced(ports[q], keys[q])}})
  /\ epset' = Registered(ports') /\ stale' = {}
  /\ since' = 0
  /\ pc' = "wait"
  /\ UNCHANGED <<keys, cleanup>>

\* keys.tdb cannot be opened: the parent exits, its children go on.
ReloadFails ==
  /\ pc = "reload"
  /\ pc' = "exited"
  /\ UNCHANGED <<keys, ports, epset, stale, since, cleanup, procs>>

----------------------------------------------------------------------------
(* main() and wait_connection() *)

\* The first traversal, the cleanup child, the first epoll set.
Init ==
  /\ keys \in [Pairs -> Port1s \union {None}]
  /\ \E opened \in [Pairs -> SUBSET Ends] :
        ports = [p \in Pairs |-> IF keys[p] = None THEN Unknown
                                 ELSE Upserted(Unknown, keys[p], opened[p])]
  /\ \/ /\ cleanup \in Pids
        /\ procs = [i \in Pids |-> IF i = cleanup THEN Running(None, None)
                                   ELSE Absent]
     \/ ForkMayFail /\ cleanup = NoPid /\ procs = [i \in Pids |-> Absent]
  /\ epset = Registered(ports) /\ stale = {}
  /\ pc = "wait" /\ since = 0

\* An event for one of the pair's descriptors.  A registration that outlived its
\* descriptor, kept alive by a child, reports a number that open_sockets() may
\* since have given to any pair.
Event(p) == /\ pc = "wait"
            /\ ports[p].pid = NoPid /\ ~ports[p].removed
            /\ \/ epset[p] # {}
               \/ ports[p].open # {} /\ \E i \in stale : procs[i].state = "running"

\* The parent's side of a fork: the pid is noted, the sockets are closed.
Forked(e, pid) == [e EXCEPT !.pid = pid, !.open = {}]

\* handle_connection(): the child keeps the pair's sockets, and with them their
\* registration in epfd, although the parent closes its descriptors.
Connection(p) ==
  /\ Event(p)
  /\ \E i \in FreePids :
        /\ procs' = [procs EXCEPT ![i] = Running(p, ports[p].port1)]
        /\ ports' = [ports EXCEPT ![p] = Forked(ports[p], i)]
        /\ stale' = stale \union {i}
  /\ epset' = [epset EXCEPT ![p] = {}]
  /\ UNCHANGED <<keys, pc, since, cleanup>>

\* fork() fails: -1 is stored as the child's pid and the sockets are closed.
ConnectionFails(p) ==
  /\ ForkMayFail /\ Event(p)
  /\ ports' = [ports EXCEPT ![p] = Forked(ports[p], FailedPid)]
  /\ epset' = [epset EXCEPT ![p] = {}]
  /\ UNCHANGED <<keys, stale, pc, since, cleanup, procs>>

\* A packet for a running child whose sockets are still in epfd: epoll_wait()
\* returns, no pair of the list has that descriptor, and the wait starts over.
ChildTraffic ==
  /\ pc = "wait"
  /\ \E i \in stale : procs[i].state = "running"
  /\ pc' = "woken"
  /\ UNCHANGED <<keys, ports, epset, stale, since, cleanup, procs>>

WaitAgain ==
  /\ pc = "woken"
  /\ pc' = "wait"
  /\ UNCHANGED <<keys, ports, epset, stale, since, cleanup, procs>>

\* epoll_wait() returns 0: one second without an event.
IdleSecond ==
  /\ pc = "wait"
  /\ pc' = "children"
  /\ since' = since + 1
  /\ UNCHANGED <<keys, ports, epset, stale, cleanup, procs>>

Exited == {i \in Pids : procs[i].state = "exited"}

\* Mutants: the pid stays with a removed pair; its sockets are reopened.
AfterExitKeepsPid(e, opened) ==
  IF e.removed THEN e ELSE [e EXCEPT !.pid = NoPid, !.open = opened]
AfterExitReopens(e, opened) == [e EXCEPT !.pid = NoPid, !.open = opened]

\* A pair whose child has exited is reopened unless it is removed.
AfterExit(e, opened) ==
  [e EXCEPT !.pid = NoPid, !.open = IF e.removed THEN e.open ELSE opened]

\* check_children(), the child of a pair.  The new sockets are in epfd only after
\* the next reload.
ReapChild(i) ==
  /\ pc = "children" /\ i \in Exited \ {cleanup}
  /\ \E opened \in SUBSET Ends :
        /\ \A p \in Pairs : ports[p].pid = i => opened \in OpenedBy(ports[p].open)
        /\ ports' = [p \in Pairs |-> IF ports[p].pid = i
                                     THEN AfterExit(ports[p], opened)
                                     ELSE ports[p]]
  /\ procs' = [procs EXCEPT ![i] = Absent]
  /\ stale' = stale \ {i}
  /\ UNCHANGED <<keys, epset, pc, since, cleanup>>

\* check_children(), the cleanup child: fork another, if fork() succeeds.
ReapCleanup ==
  /\ pc = "children" /\ cleanup \in Exited
  /\ \/ \E i \in FreePids \union {cleanup} :
           /\ procs' = [procs EXCEPT ![cleanup] = Absent,
                                     ![i] = Running(None, None)]
           /\ cleanup' = i
     \/ /\ ForkMayFail
        /\ procs' = [procs EXCEPT ![cleanup] = Absent]
        /\ cleanup' = NoPid
  /\ UNCHANGED <<keys, ports, epset, stale, pc, since>>

\* Mutant: a second too late.
ChildrenDoneLate ==
  /\ pc = "children" /\ Exited = {}
  /\ \/ pc' = "reload"
     \/ since <= ReloadEvery /\ pc' = "wait"
  /\ UNCHANGED <<keys, ports, epset, stale, since, cleanup, procs>>

\* waitpid() has nothing more; reload when the last one is over 5 s ago.
ChildrenDone ==
  /\ pc = "children" /\ Exited = {}
  /\ \/ pc' = "reload"
     \/ since < ReloadEvery /\ pc' = "wait"
  /\ UNCHANGED <<keys, ports, epset, stale, since, cleanup, procs>>

----------------------------------------------------------------------------
(* The environment *)

\* keydb.py or the web admin adds, changes or removes an entry.
EditKeys ==
  /\ \E p \in Pairs, v \in Port1s \union {None} :
        keys[p] # v /\ keys' = [keys EXCEPT ![p] = v]
  /\ UNCHANGED <<ports, epset, stale, pc, since, cleanup, procs>>

Ended(c) == [c EXCEPT !.state = "exited"]

\* A child's session ends or SIGTERM reaches it.
Exit(i) ==
  /\ procs[i].state = "running"
  /\ procs' = [procs EXCEPT ![i] = Ended(procs[i])]
  /\ UNCHANGED <<keys, ports, epset, stale, pc, since, cleanup>>

Parent == \/ \E p \in Pairs : Connection(p) \/ ConnectionFails(p)
          \/ WaitAgain \/ IdleSecond \/ (\E i \in Pids : ReapChild(i))
          \/ ReapCleanup \/ ChildrenDone \/ Reload
          \/ ReloadFails

Next == Parent \/ ChildTraffic \/ EditKeys \/ \E i \in Pids : Exit(i)

\* The parent runs when epoll_wait() returns, a second of silence is noticed, a
\* signalled child dies, children do not die as fast as they are reaped for
\* ever, and a bind() that is retried succeeds in the end.
AllOpen == \A p \in Pairs : keys[p] # None /\ ports[p].pid = NoPid
                              => ports'[p].open = Ends
Fairness ==
  /\ WF_vars(Parent)
  /\ \A i \in Pids : WF_vars(procs[i].signalled /\ Exit(i)) /\ WF_vars(ReapChild(i))
  /\ SF_vars(ChildrenDone) /\ SF_vars(Reload /\ AllOpen)

Spec == Init /\ [][Next]_vars /\ Fairness

----------------------------------------------------------------------------
(* Properties *)

TypeOK ==
  /\ keys \in [Pairs -> Port1s \union {None}]
  /\ ports \in [Pairs -> Port]
  /\ epset \in [Pairs -> SUBSET Ends] /\ stale \in SUBSET Pids
  /\ pc \in {"wait", "woken", "children", "reload", "exited"}
  /\ since \in 0..ReloadEvery
  /\ cleanup \in Pids \union {NoPid} /\ procs \in [Pids -> Process]

\* One child serves a pair: every process forked for a pair is the one its
\* listen_port names, until it is waited for, across removal and return of the
\* entry, changes of port1 and reuse of process identifiers.
OneChild ==
  \A p \in Pairs : \A i \in Children(p) : ports[p].pid = i

\* A pid the parent holds is a process it has not waited for: the kill() of a
\* removed or changed pair never reaches a process that has reused the number.
PidsCurrent ==
  \A p \in Pairs : ports[p].pid \in Pids => ports[p].pid \in Children(p)

\* The parent and a child never compete for a pair's packets, and a removed pair
\* is not listened on, although open_sockets() is called from three places.
ListensAlone ==
  \A p \in Pairs : (ports[p].pid # NoPid \/ ports[p].removed)
                     => (ports[p].open = {} /\ epset[p] = {})

\* "signal the running child to exit so the old port1 is freed": a child that
\* still runs for a removed pair or an old port1 has been signalled, also when
\* the entry came back or changed again before it was gone.
StaleChildSignalled ==
  \A p \in Pairs : \A i \in Children(p) :
     ports[p].removed \/ ports[p].port1 # procs[i].port1
       => procs[i].state = "exited" \/ procs[i].signalled

\* The parent's view of an entry agrees with keys.tdb: listened on in epfd, or
\* served by a child with the right port1; or gone, with its child.
InStep(p) ==
  IF keys[p] = None
  THEN (ports[p].known => ports[p].removed) /\ Children(p) = {}
  ELSE /\ ports[p].known /\ ~ports[p].removed /\ ports[p].port1 = keys[p]
       /\ \/ ports[p].pid = NoPid /\ epset[p] = Ends
          \/ \E i \in Children(p) : procs[i].port1 = keys[p]

\* Once nobody edits keys.tdb, the parent is again and again in step with it,
\* provided that it keeps finding a second without events.
Converges ==
  (<>[][keys' = keys]_vars /\ []<><<IdleSecond>>_vars)
     => \A p \in Pairs : []<>InStep(p)

----------------------------------------------------------------------------
(* What the documentation says and the code does not do *)

\* "signal it to exit so check_children reopens with the new one": SIGTERM goes
\* to the child of a pair that was removed or changed port1, to no other.
OnlyReplacedSignalled ==
  [][\A i \in Pids : ~procs[i].signalled /\ procs'[i].signalled
        => \E p \in Pairs : ports[p].pid = i /\ Replaced(ports[p], keys[p])]_vars
=============================================================================
