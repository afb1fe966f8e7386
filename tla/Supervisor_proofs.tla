------------------------- MODULE Supervisor_proofs -------------------------
(***************************************************************************)
(* Proofs about Supervisor, for all sets of pairs and of process           *)
(* identifiers, with and without failures of fork().                       *)
(***************************************************************************)
EXTENDS Supervisor, TLAPS

----------------------------------------------------------------------------
(* Entries and processes *)

\* What the parent does to a listen_port yields a listen_port.
LEMMA PortUpdates ==
  ASSUME NEW e \in Port, NEW opened \in SUBSET Ends
  PROVE  /\ \A port1 \in Port1s : Upserted(e, port1, opened) \in Port
         /\ Removed(e) \in Port /\ AfterExit(e, opened) \in Port
         /\ \A pid \in Pids \union {FailedPid} : Forked(e, pid) \in Port
<1>1. \A port1 \in Port1s : Upserted(e, port1, opened) \in Port
  BY DEF Upserted, Port
<1>2. Removed(e) \in Port
  BY DEF Removed, Port
<1>3. AfterExit(e, opened) \in Port
  BY DEF AfterExit, Port
<1>4. \A pid \in Pids \union {FailedPid} : Forked(e, pid) \in Port
  BY DEF Forked, Port
<1> QED
  BY <1>1, <1>2, <1>3, <1>4

\* The fields each of them leaves behind.
LEMMA PortFields ==
  ASSUME NEW e \in Port, NEW opened
  PROVE  /\ \A port1 : /\ Upserted(e, port1, opened).pid = e.pid
                       /\ Upserted(e, port1, opened).known
                       /\ Upserted(e, port1, opened).port1 = port1
                       /\ ~Upserted(e, port1, opened).removed
                       /\ e.pid # NoPid /\ e.open = {}
                            => Upserted(e, port1, opened).open = {}
         /\ Removed(e).pid = e.pid /\ Removed(e).known = e.known
         /\ Removed(e).port1 = e.port1
         /\ Removed(e).removed = (e.known \/ e.removed)
         /\ Removed(e).open = {} \/ Removed(e) = e
         /\ AfterExit(e, opened).pid = NoPid
         /\ AfterExit(e, opened).known = e.known
         /\ AfterExit(e, opened).port1 = e.port1
         /\ AfterExit(e, opened).removed = e.removed
         /\ e.removed => AfterExit(e, opened).open = e.open
         /\ \A pid : /\ Forked(e, pid).pid = pid /\ Forked(e, pid).open = {}
                     /\ Forked(e, pid).known = e.known
                     /\ Forked(e, pid).port1 = e.port1
                     /\ Forked(e, pid).removed = e.removed
<1>1. \A port1 : /\ Upserted(e, port1, opened).pid = e.pid
                 /\ Upserted(e, port1, opened).known
                 /\ Upserted(e, port1, opened).port1 = port1
                 /\ ~Upserted(e, port1, opened).removed
                 /\ e.pid # NoPid /\ e.open = {}
                      => Upserted(e, port1, opened).open = {}
  BY DEF Upserted
<1>2. /\ Removed(e).pid = e.pid /\ Removed(e).known = e.known
      /\ Removed(e).port1 = e.port1
      /\ Removed(e).removed = (e.known \/ e.removed)
      /\ Removed(e).open = {} \/ Removed(e) = e
  BY DEF Removed, Port
<1>3. /\ AfterExit(e, opened).pid = NoPid
      /\ AfterExit(e, opened).known = e.known
      /\ AfterExit(e, opened).port1 = e.port1
      /\ AfterExit(e, opened).removed = e.removed
      /\ e.removed => AfterExit(e, opened).open = e.open
  BY DEF AfterExit, Port
<1>4. \A pid : /\ Forked(e, pid).pid = pid /\ Forked(e, pid).open = {}
               /\ Forked(e, pid).known = e.known
               /\ Forked(e, pid).port1 = e.port1
               /\ Forked(e, pid).removed = e.removed
  BY DEF Forked, Port
<1> QED
  BY <1>1, <1>2, <1>3, <1>4

\* Signals and exits change a process's state, not whose child it is.
LEMMA ProcessUpdates ==
  ASSUME NEW c \in Process
  PROVE  /\ Signalled(c) \in Process /\ Signalled(c).signalled
         /\ Signalled(c).state = c.state /\ Signalled(c).pair = c.pair
         /\ Signalled(c).port1 = c.port1
         /\ Ended(c) \in Process /\ Ended(c).state = "exited"
         /\ Ended(c).pair = c.pair /\ Ended(c).port1 = c.port1
BY DEF Signalled, Ended, Process

\* New table entries of the kernel.
LEMMA NewProcesses ==
  /\ Absent \in Process /\ Absent.state = "absent"
  /\ \A pair \in Pairs \union {None}, port1 \in Port1s \union {None} :
        /\ Running(pair, port1) \in Process
        /\ Running(pair, port1).state = "running"
        /\ Running(pair, port1).pair = pair
        /\ Running(pair, port1).port1 = port1
BY DEF Absent, Running, Process

----------------------------------------------------------------------------
(* Type correctness *)

\* A second is only counted when the next reload is not due.
NotDue == pc \in {"wait", "woken"} => since < ReloadEvery
TypeInv == TypeOK /\ NotDue

LEMMA InitTypes == Init => TypeInv
<1> SUFFICES ASSUME Init PROVE TypeInv
  OBVIOUS
<1>1. Unknown \in Port
  BY DEF Unknown, Port
<1>2. ports \in [Pairs -> Port]
  <2>1. PICK opened \in [Pairs -> SUBSET Ends] :
           ports = [p \in Pairs |-> IF keys[p] = None THEN Unknown
                                    ELSE Upserted(Unknown, keys[p], opened[p])]
    BY DEF Init
  <2>2. ASSUME NEW p \in Pairs, keys[p] # None
        PROVE  Upserted(Unknown, keys[p], opened[p]) \in Port
    <3>1. keys[p] \in Port1s /\ opened[p] \in SUBSET Ends
      BY <2>2 DEF Init
    <3> QED
      BY <1>1, <3>1, PortUpdates
  <2> QED
    BY <1>1, <2>1, <2>2
<1>3. procs \in [Pids -> Process] /\ cleanup \in Pids \union {NoPid}
  <2>1. Absent \in Process /\ Running(None, None) \in Process
    BY NewProcesses
  <2> QED
    BY <2>1 DEF Init
<1>4. epset \in [Pairs -> SUBSET Ends]
  BY <1>2 DEF Init, Registered, Port
<1> QED
  BY <1>2, <1>3, <1>4, ReloadAssumption DEF Init, TypeInv, TypeOK, NotDue

\* Theorem: the parent's variables keep their types, and a reload is never
\* overdue: at most ReloadEvery seconds without events pass before it.
THEOREM TypeInvariant == Spec => []TypeInv
<1>1. Init => TypeInv
  BY InitTypes
<1>2. TypeInv /\ [Next]_vars => TypeInv'
  <2> SUFFICES ASSUME TypeInv, [Next]_vars PROVE TypeInv'
    OBVIOUS
  <2> USE ReloadAssumption DEF TypeInv, TypeOK, NotDue
  <2>1. CASE Reload
    <3>1. ports' \in [Pairs -> Port]
      <4>1. PICK opened \in [Pairs -> SUBSET Ends] :
               ports' = [p \in Pairs |->
                           IF keys[p] = None THEN Removed(ports[p])
                           ELSE Upserted(ports[p], keys[p], opened[p])]
        BY <2>1 DEF Reload
      <4>2. ASSUME NEW p \in Pairs
            PROVE  /\ Removed(ports[p]) \in Port
                   /\ keys[p] # None
                        => Upserted(ports[p], keys[p], opened[p]) \in Port
        <5>1. /\ ports[p] \in Port /\ opened[p] \in SUBSET Ends
              /\ keys[p] # None => keys[p] \in Port1s
          OBVIOUS
        <5> QED
          BY <5>1, PortUpdates
      <4> QED
        BY <4>1, <4>2
    <3>2. procs' \in [Pids -> Process]
      BY <2>1, ProcessUpdates DEF Reload, Signal
    <3>3. epset' \in [Pairs -> SUBSET Ends]
      BY <2>1, <3>1 DEF Reload, Registered, Port
    <3> QED
      BY <2>1, <3>1, <3>2, <3>3 DEF Reload
  <2>2. ASSUME NEW p \in Pairs, Connection(p) PROVE TypeInv'
    <3>1. PICK i \in FreePids :
             /\ procs' = [procs EXCEPT ![i] = Running(p, ports[p].port1)]
             /\ ports' = [ports EXCEPT ![p] = Forked(ports[p], i)]
             /\ stale' = stale \union {i}
      BY <2>2 DEF Connection
    <3>2. i \in Pids /\ ports[p].port1 \in Port1s \union {None}
      BY DEF FreePids, Port
    <3>3. ports' \in [Pairs -> Port]
      BY <3>1, <3>2, PortUpdates
    <3>4. procs' \in [Pids -> Process]
      BY <3>1, <3>2, NewProcesses
    <3> QED
      BY <2>2, <3>1, <3>2, <3>3, <3>4 DEF Connection, Event
  <2>3. ASSUME NEW p \in Pairs, ConnectionFails(p) PROVE TypeInv'
    <3>1. Forked(ports[p], FailedPid) \in Port
      BY PortUpdates
    <3>2. ports' \in [Pairs -> Port]
      BY <2>3, <3>1 DEF ConnectionFails
    <3> QED
      BY <2>3, <3>2 DEF ConnectionFails, Event
  <2>4. CASE ChildTraffic \/ WaitAgain
    BY <2>4 DEF ChildTraffic, WaitAgain
  <2>5. CASE IdleSecond
    BY <2>5 DEF IdleSecond
  <2>6. ASSUME NEW i \in Pids, ReapChild(i) PROVE TypeInv'
    <3>1. ports' \in [Pairs -> Port]
      <4>1. PICK opened \in SUBSET Ends :
               ports' = [p \in Pairs |-> IF ports[p].pid = i
                                        THEN AfterExit(ports[p], opened)
                                        ELSE ports[p]]
        BY <2>6 DEF ReapChild
      <4>2. \A p \in Pairs : AfterExit(ports[p], opened) \in Port
        BY PortUpdates
      <4> QED
        BY <4>1, <4>2
    <3>2. procs' \in [Pids -> Process]
      BY <2>6, NewProcesses DEF ReapChild
    <3> QED
      BY <2>6, <3>1, <3>2 DEF ReapChild
  <2>7. CASE ReapCleanup
    <3>1. procs' \in [Pids -> Process] /\ cleanup' \in Pids \union {NoPid}
      <4>1. Absent \in Process /\ Running(None, None) \in Process
        BY NewProcesses
      <4> QED
        BY <2>7, <4>1 DEF ReapCleanup, FreePids, Exited
    <3> QED
      BY <2>7, <3>1 DEF ReapCleanup
  <2>8. CASE ChildrenDone \/ ReloadFails
    BY <2>8 DEF ChildrenDone, ReloadFails
  <2>9. CASE EditKeys
    BY <2>9 DEF EditKeys
  <2>10. ASSUME NEW i \in Pids, Exit(i) PROVE TypeInv'
    <3>1. procs' \in [Pids -> Process]
      BY <2>10, ProcessUpdates DEF Exit
    <3> QED
      BY <2>10, <3>1 DEF Exit
  <2>11. CASE UNCHANGED vars
    BY <2>11 DEF vars
  <2> QED
    BY <2>1, <2>2, <2>3, <2>4, <2>5, <2>6, <2>7, <2>8, <2>9, <2>10, <2>11
       DEF Next, Parent
<1> QED
  BY <1>1, <1>2, PTL DEF Spec

\* Theorem: the parent's variables keep their types.
THEOREM TypeCorrect == Spec => []TypeOK
<1>1. TypeInv => TypeOK
  BY DEF TypeInv
<1> QED
  BY <1>1, TypeInvariant, PTL

----------------------------------------------------------------------------
(* Children and pids *)

\* cleanup_child_pid names the cleanup child, which serves no pair.
CleanupCurrent ==
  cleanup \in Pids => procs[cleanup].state # "absent" /\ procs[cleanup].pair = None

\* What the parent holds for a pair, it holds for a known pair, with a port1.
HoldsKnown ==
  \A p \in Pairs :
     /\ (ports[p].pid # NoPid \/ ports[p].open # {} \/ epset[p] # {})
          => ports[p].known
     /\ ports[p].known => ports[p].port1 # None

ChildInv == /\ OneChild /\ PidsCurrent /\ CleanupCurrent
            /\ HoldsKnown /\ ListensAlone /\ StaleChildSignalled

LEMMA InitChildren == Init => ChildInv
<1> SUFFICES ASSUME Init PROVE ChildInv
  OBVIOUS
<1>1. PICK opened \in [Pairs -> SUBSET Ends] :
         ports = [p \in Pairs |-> IF keys[p] = None THEN Unknown
                                  ELSE Upserted(Unknown, keys[p], opened[p])]
  BY DEF Init
<1>2. ASSUME NEW p \in Pairs
      PROVE  /\ ports[p].pid = NoPid /\ ~ports[p].removed
             /\ ports[p].open # {} => ports[p].known
             /\ ports[p].known => ports[p].port1 # None
  BY <1>1 DEF Upserted, Unknown
<1>3. ASSUME NEW p \in Pairs, epset[p] # {}
      PROVE  ports[p].known
  <2>1. epset[p] = ports[p].open
    BY <1>2 DEF Init, Registered
  <2> QED
    BY <1>2, <1>3, <2>1
<1>4. \A p \in Pairs : Children(p) = {}
  BY NoneAssumption DEF Init, Children, Running, Absent
<1>5. CleanupCurrent
  <2>1. /\ Running(None, None).state = "running"
        /\ Running(None, None).pair = None
    BY NewProcesses
  <2>2. cleanup \in Pids => procs[cleanup] = Running(None, None)
    BY PidsAssumption DEF Init, NoPid
  <2> QED
    BY <2>1, <2>2 DEF CleanupCurrent
<1>6. OneChild /\ StaleChildSignalled
  BY <1>4 DEF OneChild, StaleChildSignalled
<1>7. PidsCurrent
  <2>1. NoPid \notin Pids
    BY PidsAssumption DEF NoPid
  <2> QED
    BY <1>2, <2>1 DEF PidsCurrent
<1>8. HoldsKnown
  BY <1>2, <1>3 DEF HoldsKnown
<1>9. ListensAlone
  BY <1>2 DEF ListensAlone
<1> QED
  BY <1>5, <1>6, <1>7, <1>8, <1>9 DEF ChildInv

\* A step that leaves the kernel's table, the list and the registrations alone.
LEMMA ChildrenUntouched ==
  ASSUME ChildInv, UNCHANGED <<ports, procs, epset, cleanup>>
  PROVE  ChildInv'
BY DEF ChildInv, OneChild, PidsCurrent, CleanupCurrent, HoldsKnown, ListensAlone,
       StaleChildSignalled, Children

\* A reload changes no pid and no process but for signals.
LEMMA ReloadChildren ==
  ASSUME TypeOK, ChildInv, Reload
  PROVE  ChildInv'
<1>1. PICK opened \in [Pairs -> SUBSET Ends] :
         ports' = [p \in Pairs |-> IF keys[p] = None THEN Removed(ports[p])
                                  ELSE Upserted(ports[p], keys[p], opened[p])]
  BY DEF Reload
<1>2. \A p \in Pairs : ports[p] \in Port
  BY DEF TypeOK
<1>3. ASSUME NEW p \in Pairs
      PROVE  /\ ports'[p].pid = ports[p].pid
             /\ keys[p] # None => /\ ports'[p].known /\ ports'[p].port1 = keys[p]
                                  /\ ~ports'[p].removed
             /\ keys[p] = None => /\ ports'[p].known = ports[p].known
                                  /\ ports'[p].port1 = ports[p].port1
                                  /\ ports'[p].removed
                                       = (ports[p].known \/ ports[p].removed)
  <2>1. CASE keys[p] = None
    <3>1. ports'[p] = Removed(ports[p])
      BY <1>1, <2>1
    <3> QED
      BY <1>2, <2>1, <3>1, PortFields
  <2>2. CASE keys[p] # None
    <3>1. ports'[p] = Upserted(ports[p], keys[p], opened[p])
      BY <1>1, <2>2
    <3>2. /\ ports'[p].pid = ports[p].pid /\ ports'[p].port1 = keys[p]
          /\ ports'[p].known = TRUE /\ ports'[p].removed = FALSE
      BY <3>1 DEF Upserted
    <3> QED
      BY <2>2, <3>2
  <2> QED
    BY <2>1, <2>2
<1>4. ASSUME NEW p \in Pairs, ports'[p].pid # NoPid \/ ports'[p].removed
      PROVE  ports'[p].open = {}
  <2>1. (ports[p].pid # NoPid \/ ports[p].removed) => ports[p].open = {}
    BY DEF ChildInv, ListensAlone
  <2>2. CASE keys[p] = None
    <3>1. ports'[p] = Removed(ports[p])
      BY <1>1, <2>2
    <3>2. ports[p] \in Port
      BY <1>2
    <3> QED
      BY <1>4, <2>1, <3>1, <3>2 DEF Removed, Port
  <2>3. CASE keys[p] # None
    <3>1. ports'[p] = Upserted(ports[p], keys[p], opened[p])
      BY <1>1, <2>3
    <3>2. ports'[p].pid = ports[p].pid /\ ~ports'[p].removed
      BY <1>3, <2>3
    <3>3. ports[p].pid # NoPid /\ ports[p].open = {}
      BY <1>4, <2>1, <3>2
    <3> QED
      BY <3>1, <3>3 DEF Upserted
  <2> QED
    BY <2>2, <2>3
<1>5. \A i \in Pids :
         /\ procs'[i].state = procs[i].state /\ procs'[i].pair = procs[i].pair
         /\ procs'[i].port1 = procs[i].port1
         /\ procs[i].signalled => procs'[i].signalled
  BY ProcessUpdates DEF Reload, Signal, TypeOK
<1>6. \A p \in Pairs : Children(p)' = Children(p)
  BY <1>5 DEF Children
<1>7. OneChild' /\ PidsCurrent' /\ CleanupCurrent'
  BY <1>3, <1>5, <1>6 DEF ChildInv, OneChild, PidsCurrent, CleanupCurrent, Reload
<1>8. HoldsKnown' /\ ListensAlone'
  <2>1. \A p \in Pairs : epset'[p] = IF ports'[p].pid = NoPid /\ ~ports'[p].removed
                                     THEN ports'[p].open ELSE {}
    BY DEF Reload, Registered
  <2>2. \A p \in Pairs : keys[p] = None /\ ports'[p].open # {} => ports[p].known
    BY <1>1, <1>2, PortFields DEF ChildInv, HoldsKnown
  <2> QED
    BY <1>3, <1>4, <2>1, <2>2 DEF ChildInv, HoldsKnown, ListensAlone
<1>9. StaleChildSignalled'
  <2> SUFFICES ASSUME NEW p \in Pairs, NEW i \in Children(p),
                      ports'[p].removed \/ ports'[p].port1 # procs[i].port1,
                      procs[i].state # "exited"
               PROVE  procs'[i].signalled
    <3>1. \A p \in Pairs : Children(p) \subseteq Pids
      BY DEF Children
    <3> QED
      BY <1>5, <1>6, <3>1 DEF StaleChildSignalled
  <2>1. i \in Pids /\ procs[i].state = "running"
    BY DEF Children, TypeOK, Process
  <2>2. ports[p].pid = i /\ i # NoPid /\ ports[p].known
    BY <2>1, PidsAssumption DEF ChildInv, OneChild, HoldsKnown, NoPid
  <2>3. CASE ports[p].removed \/ ports[p].port1 # procs[i].port1
    BY <1>5, <2>1, <2>3 DEF ChildInv, StaleChildSignalled
  <2>4. CASE ~ports[p].removed /\ ports[p].port1 = procs[i].port1
    <3>1. ports[p].port1 # keys[p]
      BY <1>3, <2>2, <2>4 DEF ChildInv, HoldsKnown
    <3>2. Replaced(ports[p], keys[p])
      BY <2>2, <2>4, <3>1 DEF Replaced
    <3>3. procs'[i] = Signalled(procs[i])
      BY <2>1, <2>2, <3>2 DEF Reload, Signal
    <3> QED
      BY <2>1, <3>3, ProcessUpdates DEF TypeOK
  <2> QED
    BY <2>3, <2>4
<1> QED
  BY <1>7, <1>8, <1>9 DEF ChildInv

\* A fork adds the one child of a pair that had none.
LEMMA ConnectionChildren ==
  ASSUME TypeOK, ChildInv, NEW p \in Pairs, Connection(p)
  PROVE  ChildInv'
<1>1. PICK i \in FreePids :
         /\ procs' = [procs EXCEPT ![i] = Running(p, ports[p].port1)]
         /\ ports' = [ports EXCEPT ![p] = Forked(ports[p], i)]
  BY DEF Connection
<1>2. i \in Pids /\ i # NoPid /\ procs[i].state = "absent"
  BY PidsAssumption DEF FreePids, NoPid
<1>3. /\ ports[p].pid = NoPid /\ ~ports[p].removed /\ ports[p].known
      /\ ports[p].port1 \in Port1s \union {None} /\ p # None
  BY NoneAssumption DEF Connection, Event, ChildInv, HoldsKnown, TypeOK, Port
<1>4. /\ ports'[p].pid = i /\ ports'[p].open = {} /\ ports'[p].known
      /\ ports'[p].port1 = ports[p].port1 /\ ~ports'[p].removed
      /\ \A q \in Pairs \ {p} : ports'[q] = ports[q]
  BY <1>1, <1>3, PortFields DEF TypeOK
<1>5. /\ procs'[i].state = "running" /\ procs'[i].pair = p
      /\ procs'[i].port1 = ports[p].port1
      /\ \A j \in Pids \ {i} : procs'[j] = procs[j]
  BY <1>1, <1>2, <1>3, NewProcesses DEF TypeOK
<1>6. Children(p)' = {i} /\ \A q \in Pairs \ {p} : Children(q)' = Children(q)
  <2>1. Children(p) = {}
    BY <1>3, PidsAssumption DEF ChildInv, OneChild, NoPid, Children
  <2>2. Children(p)' = {i}
    BY <1>2, <1>5, <2>1 DEF Children
  <2>3. ASSUME NEW q \in Pairs \ {p} PROVE Children(q)' = Children(q)
    BY <1>2, <1>5 DEF Children
  <2> QED
    BY <2>2, <2>3
<1>7. OneChild' /\ PidsCurrent'
  BY <1>4, <1>6 DEF ChildInv, OneChild, PidsCurrent
<1>8. CleanupCurrent'
  BY <1>2, <1>5 DEF Connection, ChildInv, CleanupCurrent
<1>9. HoldsKnown' /\ ListensAlone'
  BY <1>3, <1>4 DEF Connection, ChildInv, HoldsKnown, ListensAlone, TypeOK
<1>10. StaleChildSignalled'
  BY <1>4, <1>5, <1>6 DEF ChildInv, StaleChildSignalled, Children
<1> QED
  BY <1>7, <1>8, <1>9, <1>10 DEF ChildInv

\* A failed fork leaves the pair without a child.
LEMMA ConnectionFailsChildren ==
  ASSUME TypeOK, ChildInv, NEW p \in Pairs, ConnectionFails(p)
  PROVE  ChildInv'
<1>1. /\ ports[p].pid = NoPid /\ ports[p].known /\ ~ports[p].removed
      /\ ports' = [ports EXCEPT ![p] = Forked(ports[p], FailedPid)]
  BY DEF ConnectionFails, Event, ChildInv, HoldsKnown
<1>2. /\ ports'[p].pid = FailedPid /\ ports'[p].open = {} /\ ports'[p].known
      /\ ports'[p].port1 = ports[p].port1 /\ ~ports'[p].removed
      /\ \A q \in Pairs \ {p} : ports'[q] = ports[q]
  BY <1>1, PortFields DEF TypeOK
<1>3. Children(p) = {} /\ \A q \in Pairs : Children(q)' = Children(q)
  BY <1>1, PidsAssumption
     DEF ConnectionFails, ChildInv, OneChild, NoPid, Children
<1>4. FailedPid \notin Pids
  BY PidsAssumption DEF FailedPid
<1>5. OneChild' /\ PidsCurrent'
  BY <1>2, <1>3, <1>4 DEF ChildInv, OneChild, PidsCurrent
<1>6. CleanupCurrent' /\ StaleChildSignalled'
  BY <1>2, <1>3 DEF ConnectionFails, ChildInv, CleanupCurrent, StaleChildSignalled
<1>7. HoldsKnown' /\ ListensAlone'
  BY <1>1, <1>2 DEF ConnectionFails, ChildInv, HoldsKnown, ListensAlone, TypeOK
<1> QED
  BY <1>5, <1>6, <1>7 DEF ChildInv

\* Waiting for a pair's child clears the one pid that names it.
LEMMA ReapChildren ==
  ASSUME TypeOK, ChildInv, NEW i \in Pids, ReapChild(i)
  PROVE  ChildInv'
<1>1. PICK opened \in SUBSET Ends :
         ports' = [p \in Pairs |-> IF ports[p].pid = i
                                  THEN AfterExit(ports[p], opened) ELSE ports[p]]
  BY DEF ReapChild
<1>2. /\ i # cleanup /\ procs'[i].state = "absent"
      /\ \A j \in Pids \ {i} : procs'[j] = procs[j]
  BY NewProcesses DEF ReapChild, TypeOK
<1>3. \A p \in Pairs :
         /\ ports[p] \in Port
         /\ ports[p].pid # i => ports'[p] = ports[p]
         /\ ports[p].pid = i => /\ ports'[p].pid = NoPid
                                /\ ports'[p].known = ports[p].known
                                /\ ports'[p].port1 = ports[p].port1
                                /\ ports'[p].removed = ports[p].removed
                                /\ ports[p].removed
                                     => ports'[p].open = ports[p].open
  BY <1>1, PortFields DEF TypeOK
<1>4. \A p \in Pairs : Children(p)' = Children(p) \ {i}
  BY <1>2 DEF Children
<1>5. i # NoPid /\ NoPid \notin Pids
  BY PidsAssumption DEF NoPid
<1>6. OneChild'
  BY <1>3, <1>4 DEF ChildInv, OneChild
<1>7. PidsCurrent'
  BY <1>3, <1>4, <1>5 DEF ChildInv, PidsCurrent
<1>8. CleanupCurrent'
  BY <1>2 DEF ReapChild, ChildInv, CleanupCurrent
<1>9. HoldsKnown' /\ ListensAlone'
  <2>1. \A p \in Pairs : ports[p].pid = i => epset[p] = {} /\ ports[p].known
    BY <1>5 DEF ChildInv, HoldsKnown, ListensAlone
  <2> QED
    BY <1>3, <1>5, <2>1 DEF ReapChild, ChildInv, HoldsKnown, ListensAlone
<1>10. StaleChildSignalled'
  BY <1>2, <1>3, <1>4 DEF ChildInv, StaleChildSignalled, Children
<1> QED
  BY <1>6, <1>7, <1>8, <1>9, <1>10 DEF ChildInv

\* Replacing the cleanup child leaves the children of the pairs alone.
LEMMA ReapCleanupChildren ==
  ASSUME TypeOK, ChildInv, ReapCleanup
  PROVE  ChildInv'
<1>1. /\ Absent.state = "absent" /\ Running(None, None).state = "running"
      /\ Running(None, None).pair = None
  BY NewProcesses
<1>2. cleanup \in Pids /\ procs[cleanup].pair = None
  BY DEF ReapCleanup, Exited, ChildInv, CleanupCurrent
<1>3. /\ \A j \in Pids : procs'[j] = procs[j] \/ procs'[j].pair = None
                                              \/ procs'[j].state = "absent"
      /\ \A j \in Pids : procs'[j] = procs[j] \/ procs[j].pair = None
                                              \/ procs[j].state = "absent"
  BY <1>1, <1>2 DEF ReapCleanup, FreePids, TypeOK
<1>4. \A p \in Pairs : /\ Children(p)' = Children(p)
                        /\ \A j \in Children(p) : procs'[j] = procs[j]
  BY <1>3, NoneAssumption DEF Children
<1>5. CleanupCurrent'
  BY <1>1, <1>2, PidsAssumption
     DEF ReapCleanup, FreePids, CleanupCurrent, TypeOK, NoPid
<1> QED
  BY <1>4, <1>5
     DEF ReapCleanup, ChildInv, OneChild, PidsCurrent, HoldsKnown, ListensAlone,
         StaleChildSignalled

\* A child that ends is still there until it is waited for.
LEMMA ExitChildren ==
  ASSUME TypeOK, ChildInv, NEW i \in Pids, Exit(i)
  PROVE  ChildInv'
<1>1. /\ procs[i].state = "running" /\ procs'[i].state = "exited"
      /\ procs'[i].pair = procs[i].pair
      /\ procs'[i].port1 = procs[i].port1
      /\ \A j \in Pids \ {i} : procs'[j] = procs[j]
  BY ProcessUpdates DEF Exit, TypeOK
<1>2. \A p \in Pairs : Children(p)' = Children(p)
  BY <1>1 DEF Children
<1>3. CleanupCurrent'
  BY <1>1 DEF Exit, ChildInv, CleanupCurrent
<1>4. StaleChildSignalled'
  BY <1>1, <1>2 DEF Exit, ChildInv, StaleChildSignalled, Children
<1> QED
  BY <1>2, <1>3, <1>4
     DEF Exit, ChildInv, OneChild, PidsCurrent, HoldsKnown, ListensAlone

\* Theorem: the invariant behind the theorems below.  ListensAlone needs
\* PidsCurrent, StaleChildSignalled needs to know that a pair with a child is known.
THEOREM ChildInvariant == Spec => []ChildInv
<1>1. Init => ChildInv
  BY InitChildren
<1>2. TypeOK /\ ChildInv /\ [Next]_vars => ChildInv'
  <2> SUFFICES ASSUME TypeOK, ChildInv, [Next]_vars PROVE ChildInv'
    OBVIOUS
  <2>1. CASE Reload
    BY <2>1, ReloadChildren
  <2>2. ASSUME NEW p \in Pairs, Connection(p) PROVE ChildInv'
    BY <2>2, ConnectionChildren
  <2>3. ASSUME NEW p \in Pairs, ConnectionFails(p) PROVE ChildInv'
    BY <2>3, ConnectionFailsChildren
  <2>4. ASSUME NEW i \in Pids, ReapChild(i) PROVE ChildInv'
    BY <2>4, ReapChildren
  <2>5. CASE ReapCleanup
    BY <2>5, ReapCleanupChildren
  <2>6. ASSUME NEW i \in Pids, Exit(i) PROVE ChildInv'
    BY <2>6, ExitChildren
  <2>7. CASE ChildTraffic \/ WaitAgain \/ IdleSecond \/ ChildrenDone
             \/ ReloadFails \/ EditKeys \/ UNCHANGED vars
    <3>1. UNCHANGED <<ports, procs, epset, cleanup>>
      BY <2>7 DEF ChildTraffic, WaitAgain, IdleSecond, ChildrenDone,
                  ReloadFails, EditKeys, vars
    <3> QED
      BY <3>1, ChildrenUntouched
  <2> QED
    BY <2>1, <2>2, <2>3, <2>4, <2>5, <2>6, <2>7 DEF Next, Parent
<1> QED
  BY <1>1, <1>2, TypeCorrect, PTL DEF Spec

\* Theorem: never two processes of one pair.
THEOREM OneChildCorrect == Spec => []OneChild
<1>1. ChildInv => OneChild
  BY DEF ChildInv
<1> QED
  BY <1>1, ChildInvariant, PTL

\* Theorem: the pid that upsert_port() and reload_ports() would kill is the process
\* the parent forked for that pair, not yet waited for.
THEOREM PidsCorrect == Spec => []PidsCurrent
<1>1. ChildInv => PidsCurrent
  BY DEF ChildInv
<1> QED
  BY <1>1, ChildInvariant, PTL

\* Theorem: the parent never listens beside a child or for a removed pair.
THEOREM ListensAloneCorrect == Spec => []ListensAlone
<1>1. ChildInv => ListensAlone
  BY DEF ChildInv
<1> QED
  BY <1>1, ChildInvariant, PTL

\* Theorem: SIGTERM is on its way to every child whose entry was removed or has
\* another port1, whatever happened to the entry since.
THEOREM StaleChildCorrect == Spec => []StaleChildSignalled
<1>1. ChildInv => StaleChildSignalled
  BY DEF ChildInv
<1> QED
  BY <1>1, ChildInvariant, PTL
=============================================================================
