--------------------------- MODULE ConnTdb_proofs ---------------------------
(***************************************************************************)
(* Proofs about ConnTdb, for any number of entries, engineers, pids and    *)
(* grandchildren: types, and that process_drops() closes only what was     *)
(* asked for.  The bounds of the counters rest on their relation to the    *)
(* entries in use; the invariant behind the second is that a record        *)
(* carries a mark only for a request that was not served.                  *)
(***************************************************************************)
EXTENDS ConnTdb, FiniteSetTheorems, TLAPS

\* A record differs from a missing one.
LEMMA RecordPresent == \A r \in Record : r # NoRecord
<1> SUFFICES ASSUME NEW r \in Record, r = NoRecord PROVE FALSE
  OBVIOUS
<1>1. "pid" \in DOMAIN r
  BY DEF Record
<1>2. DOMAIN r = {"peer"}
  BY DEF NoRecord
<1> QED BY <1>1, <1>2

\* A freshly written record has no mark.
LEMMA FreshType ==
  ASSUME NEW q \in Engineers \union {User}, NEW p \in Pids
  PROVE  Fresh(q, p) \in Record /\ Fresh(q, p).flag = FALSE
<1>1. 0 \in 0..(MaxAge + 1)
  BY AgeAssumption
<1> QED BY <1>1 DEF Fresh, Record

\* A record that grows older keeps its mark.
LEMMA OlderType ==
  ASSUME NEW r \in Record
  PROVE  Older(r) \in Record /\ Older(r).flag = r.flag
<1>1. r.age \in 0..(MaxAge + 1)
  BY DEF Record
<1>2. (IF r.age > MaxAge THEN r.age ELSE r.age + 1) \in 0..(MaxAge + 1)
  BY <1>1, AgeAssumption
<1> QED BY <1>2 DEF Older, Record

\* Tables are functions whose members fit their index.
LEMMA TablesType ==
  ASSUME NEW t \in [Index -> Engineers \union {User, None}]
  PROVE  t \in Tables <=> \A i \in Index : t[i] \in Peers(i) \union {None}
BY DEF Tables

\* Closing entries.
LEMMA TableCloses ==
  ASSUME NEW t \in Tables, NEW S
  PROVE  [i \in Index |-> IF i \in S THEN None ELSE t[i]] \in Tables
BY DEF Tables

\* Closing one entry, and filling one with a peer that may have it.
LEMMA TableUpdate ==
  ASSUME NEW t \in Tables, NEW i \in Index, NEW q \in Peers(i) \union {None}
  PROVE  [t EXCEPT ![i] = q] \in Tables
BY DEF Tables, Peers

\* Nobody is connected.
LEMMA EmptyType == Empty \in Tables
BY DEF Empty, Tables

\* What fork() copies.
LEMMA SnapshotType ==
  ASSUME table \in Tables, child \in Pids
  PROVE  Snapshot \in [pid : Pids, table : Tables]
<1>1. [i \in Index |-> IF i \in Served THEN table[i] ELSE None] \in Tables
  BY DEF Tables
<1> QED BY <1>1 DEF Snapshot

\* A history that forgets some indices.
LEMMA AskedType ==
  ASSUME NEW S
  PROVE  [i \in Index |-> asked[i] /\ i \in S] \in [Index -> BOOLEAN]
<1>1. \A i \in Index : (asked[i] /\ i \in S) \in BOOLEAN
  OBVIOUS
<1> QED BY <1>1

\* What a heartbeat writes.
LEMMA WrittenType ==
  ASSUME NEW s \in [pid : Pids, table : Tables]
  PROVE  /\ Written(s) \in [Index -> Record \union {NoRecord}]
         /\ \A i \in Index : Written(s)[i] = NoRecord \/ Written(s)[i].flag = FALSE
<1>1. ASSUME NEW i \in Index, s.table[i] # None
      PROVE  Fresh(s.table[i], s.pid) \in Record /\ Fresh(s.table[i], s.pid).flag = FALSE
  <2>1. s.table[i] \in Engineers \union {User} /\ s.pid \in Pids
    BY <1>1 DEF Tables
  <2> QED BY <2>1, FreshType
<1> QED BY <1>1 DEF Written

----------------------------------------------------------------------------
(* Types.  Those of the counters follow below. *)

Types ==
  /\ child \in Pids \union {NoPid} /\ pc \in {"top", "serve", "gone"}
  /\ table \in Tables /\ drops \in BOOLEAN
  /\ SharedTypes /\ (Running => child \in Pids)

\* They hold initially.
LEMMA InitTypes == Init => Types
<1> SUFFICES ASSUME Init PROVE Types
  OBVIOUS
<1>1. SharedTypes
  BY DEF Init, SharedTypes, NoRecords
<1> QED BY <1>1, EmptyType DEF Init, Types, Running

\* The steps of the child.
LEMMA ChildSteps ==
  ASSUME Types,
         Loop \/ NewChild \/ SessionEnds \/ JoinUser \/ (\E i \in Slots : Join(i) \/ Leave(i))
  PROVE  Types'
<1> USE DEF Types
<1>1. CASE NoHeartbeat \/ ProcessDropsFails
  BY <1>1 DEF NoHeartbeat, ProcessDropsFails, tableVars, SharedTypes, Running
<1>2. CASE ProcessDrops
  <2>1. table' \in Tables /\ pc' \in {"top", "gone"}
    <3>1. CASE Exit
      BY <3>1, EmptyType DEF Exit
    <3>2. CASE ~Exit
      <4>1. Closed(Used \intersect Flagged) /\ pc' = "top"
        BY <1>2, <3>2 DEF ProcessDrops
      <4>2. table' = [i \in Index |-> IF i \in Used \intersect Flagged THEN None ELSE table[i]]
        BY <4>1 DEF Closed
      <4> QED BY <4>1, <4>2, TableCloses
    <3> QED BY <3>1, <3>2
  <2>2. db' \in [Index -> Record \union {NoRecord}]
    BY <1>2 DEF ProcessDrops, Without, SharedTypes
  <2>3. asked' \in [Index -> BOOLEAN]
    <3>1. \A i \in Index : (asked[i] /\ i \notin Flagged) \in BOOLEAN
      OBVIOUS
    <3> QED BY <1>2, <3>1 DEF ProcessDrops
  <2> QED BY <1>2, <2>1, <2>2, <2>3 DEF ProcessDrops, SharedTypes, Running
<1>3. CASE SelectReturns
  <2>1. table' \in Tables /\ pc' \in {"serve", "gone"}
    <3>1. CASE Exit
      BY <3>1, EmptyType DEF Exit
    <3>2. CASE ~Exit
      <4>1. PICK dead : table' = [i \in Index |-> IF i \in dead THEN None ELSE table[i]]
        BY <1>3, <3>2 DEF SelectReturns
      <4>2. pc' = "serve"
        BY <1>3, <3>2 DEF SelectReturns
      <4> QED BY <4>1, <4>2, TableCloses
    <3> QED BY <3>1, <3>2
  <2> QED BY <1>3, <2>1 DEF SelectReturns, Waiting, SharedTypes, Running
<1>4. CASE Heartbeat
  <2>1. snaps' \in SUBSET [pid : Pids, table : Tables]
    BY <1>4, SnapshotType DEF Heartbeat, SharedTypes, Running
  <2> QED BY <1>4, <2>1 DEF Heartbeat, tableVars, SharedTypes, Running
<1>5. CASE NewChild
  BY <1>5, EmptyType DEF NewChild, SharedTypes, Running
<1>6. CASE SessionEnds
  BY <1>6, EmptyType DEF SessionEnds, Exit, SharedTypes, Running
<1>7. CASE JoinUser
  <2>1. 0 \in Index /\ User \in Peers(0)
    BY LinksAssumption DEF Index, Peers
  <2>2. table' \in Tables
    BY <1>7, <2>1, TableUpdate DEF JoinUser
  <2> QED BY <1>7, <2>2 DEF JoinUser, SharedTypes, Running
<1>8. ASSUME NEW i \in Slots, Join(i) PROVE Types'
  <2>1. i \in Index /\ Peers(i) = Engineers
    BY LinksAssumption DEF Index, Slots, Peers
  <2>2. table' \in Tables
    <3>1. PICK q \in Engineers : table' = [table EXCEPT ![i] = q]
      BY <1>8 DEF Join
    <3> QED BY <2>1, <3>1, TableUpdate
  <2> QED BY <1>8, <2>2 DEF Join, SharedTypes, Running
<1>9. ASSUME NEW i \in Slots, Leave(i) PROVE Types'
  <2>1. i \in Index
    BY LinksAssumption DEF Index, Slots
  <2>2. table' \in Tables
    BY <1>9, <2>1, TableUpdate DEF Leave
  <2> QED BY <1>9, <2>2 DEF Leave, SharedTypes, Running
<1> QED BY <1>1, <1>2, <1>3, <1>4, <1>5, <1>6, <1>7, <1>8, <1>9 DEF Loop

\* The steps of grandchildren, the web admin, the parent and time.
LEMMA OtherSteps ==
  ASSUME Types,
         \/ \E i \in Index : Request(i)
         \/ \E s \in snaps : Save(s) \/ Lose(s)
         \/ \E p \in Pids : Signal(p)
         \/ Reap \/ RemovePair \/ Tick
  PROVE  Types'
<1> USE DEF Types
<1>1. ASSUME NEW i \in Index, Request(i) PROVE Types'
  <2>1. db[i] \in Record
    BY <1>1 DEF Request, Present, SharedTypes
  <2>2. db[i].pid \in Pids /\ [db[i] EXCEPT !.flag = TRUE] \in Record
    BY <2>1 DEF Record
  <2>3. db' \in [Index -> Record \union {NoRecord}] /\ kills' \in SUBSET Pids
    BY <1>1, <2>2 DEF Request, SharedTypes
  <2>4. asked' \in [Index -> BOOLEAN]
    BY <1>1 DEF Request, SharedTypes
  <2> QED BY <1>1, <2>3, <2>4 DEF Request, childVars, tableVars, SharedTypes, Running
<1>2. ASSUME NEW s \in snaps, Save(s) PROVE Types'
  <2>1. s \in [pid : Pids, table : Tables]
    BY DEF SharedTypes
  <2>2. db' \in [Index -> Record \union {NoRecord}] /\ asked' \in [Index -> BOOLEAN]
    BY <1>2, <2>1, WrittenType, AskedType DEF Save
  <2> QED BY <1>2, <2>2 DEF Save, childVars, tableVars, SharedTypes, Running
<1>3. ASSUME NEW s \in snaps, Lose(s) PROVE Types'
  BY <1>3 DEF Lose, childVars, tableVars, SharedTypes, Running
<1>4. ASSUME NEW p \in Pids, Signal(p) PROVE Types'
  <2>1. drops' \in BOOLEAN
    BY <1>4 DEF Signal
  <2> QED BY <1>4, <2>1 DEF Signal, tableVars, SharedTypes, Running
<1>5. NoRecords \in [Index -> Record \union {NoRecord}]
  BY DEF NoRecords
<1>6. ASSUME RemoveRecords PROVE db' \in [Index -> Record \union {NoRecord}]
  BY <1>5, <1>6 DEF RemoveRecords, SharedTypes
<1>7. CASE Reap
  <2>1. db' \in [Index -> Record \union {NoRecord}] /\ asked' \in [Index -> BOOLEAN]
    BY <1>6, <1>7, AskedType DEF Reap
  <2> QED BY <1>7, <2>1 DEF Reap, childVars, tableVars, SharedTypes, Running
<1>8. CASE RemovePair
  <2>1. db' \in [Index -> Record \union {NoRecord}] /\ asked' \in [Index -> BOOLEAN]
    BY <1>6, <1>8, AskedType DEF RemovePair
  <2> QED BY <1>8, <2>1, EmptyType DEF RemovePair, Exit, SharedTypes, Running
<1>9. CASE Tick
  <2>1. \A i \in Index : (IF Present(i) THEN Older(db[i]) ELSE NoRecord) \in Record \union {NoRecord}
    BY OlderType DEF Present, SharedTypes
  <2>2. db' \in [Index -> Record \union {NoRecord}]
    BY <1>9, <2>1 DEF Tick
  <2> QED BY <1>9, <2>2 DEF Tick, tableVars, SharedTypes, Running
<1> QED BY <1>1, <1>2, <1>3, <1>4, <1>7, <1>8, <1>9

\* Every step keeps them.
LEMMA TypesStep == Types /\ [Next]_vars => Types'
<1> SUFFICES ASSUME Types, [Next]_vars PROVE Types'
  OBVIOUS
<1>1. CASE Next
  BY <1>1, ChildSteps, OtherSteps DEF Next
<1>2. CASE UNCHANGED vars
  BY <1>2 DEF vars, childVars, tableVars, Types, SharedTypes, Running
<1> QED BY <1>1, <1>2

----------------------------------------------------------------------------
(* The counters.  conn2_count is at least the number of entries in use and   *)
(* at most max_conn2_count, and the assertion of the loop holds while it     *)
(* serves: a join adds one to both at most.                                  *)

Counters ==
  /\ count \in Nat /\ bound \in Nat
  /\ Cardinality(Used) <= count /\ count <= bound
  /\ bound <= Links + 1 /\ (pc = "serve" => bound <= Links)

\* Sets of entries are finite, and smaller ones have smaller cardinalities.
LEMMA SlotSets ==
  /\ IsFiniteSet(Used) /\ IsFiniteSet(Used')
  /\ \A S \in SUBSET Slots : Cardinality(S) \in Nat
  /\ \A S \in SUBSET Slots : \A T \in SUBSET S : Cardinality(T) <= Cardinality(S)
<1>1. IsFiniteSet(Slots)
  BY FS_Interval, LinksAssumption DEF Slots
<1>2. \A S \in SUBSET Slots : IsFiniteSet(S) /\ Cardinality(S) \in Nat
  BY <1>1, FS_Subset, FS_CardinalityType
<1>3. \A S \in SUBSET Slots : \A T \in SUBSET S : Cardinality(T) <= Cardinality(S)
  BY <1>2, FS_Subset
<1>4. Used \in SUBSET Slots /\ Used' \in SUBSET Slots
  BY DEF Used
<1> QED BY <1>2, <1>3, <1>4

\* An empty table.
LEMMA NoneUsed ==
  ASSUME table' = Empty, count' = 0, bound' = 0, pc' # "serve"
  PROVE  Counters'
<1>1. Used' = {}
  BY LinksAssumption DEF Used, Empty, Slots, Index
<1>2. Cardinality(Used') = 0
  BY <1>1, FS_EmptySet
<1> QED BY <1>2, LinksAssumption DEF Counters

\* process_drops() takes as many entries from conn2_count as it closes, and at most
\* as many from max_conn2_count.
LEMMA ClosedCounts ==
  ASSUME Types, Counters, NEW S \in SUBSET Used, Closed(S), pc' = "top"
  PROVE  Counters'
<1>1. Used' = Used \ S
  BY LinksAssumption DEF Closed, Used, Slots, Index
<1>2. Cardinality(Used') = Cardinality(Used) - Cardinality(S)
  <2>1. IsFiniteSet(Used) /\ Used \intersect S = S
    BY SlotSets
  <2>2. Cardinality(Used \ S) = Cardinality(Used) - Cardinality(Used \intersect S)
    BY <2>1, FS_Difference
  <2> QED BY <1>1, <2>1, <2>2
<1>3. Used \in SUBSET Slots /\ S \in SUBSET Slots
  BY DEF Used
<1>4. /\ Cardinality(S) \in Nat /\ Cardinality(Used) \in Nat
      /\ Cardinality(S) <= Cardinality(Used)
  BY <1>3, SlotSets
<1>5. PICK b \in 0..bound : (b + 1)..bound \subseteq S /\ bound' = b
  BY DEF Closed
<1>6. b \in Nat /\ b <= bound /\ bound \in Nat
  BY <1>5 DEF Counters
<1>7. bound - b <= Cardinality(S)
  <2>1. Cardinality((b + 1)..bound) = bound - b
    <3>1. b + 1 \in Int /\ bound \in Int
      BY <1>6
    <3>2. Cardinality((b + 1)..bound) =
            IF b + 1 > bound THEN 0 ELSE bound - (b + 1) + 1
      BY <3>1, FS_Interval
    <3> QED BY <1>6, <3>2
  <2>2. Cardinality((b + 1)..bound) <= Cardinality(S)
    BY <1>3, <1>5, SlotSets
  <2> QED BY <2>1, <2>2
<1>8. count' = count - Cardinality(S)
  BY DEF Closed
<1> QED BY <1>2, <1>4, <1>5, <1>6, <1>7, <1>8, LinksAssumption DEF Counters

\* Every step keeps the counters.
LEMMA CountersStep ==
  ASSUME Types, Counters, [Next]_vars
  PROVE  Counters'
<1>0. Used \in SUBSET Slots /\ Cardinality(Used) \in Nat
  BY SlotSets DEF Used
<1>1. ASSUME UNCHANGED tableVars, pc' # "serve" \/ UNCHANGED pc PROVE Counters'
  BY <1>1 DEF tableVars, Counters, Used
<1>2. CASE ProcessDrops
  <2>1. CASE Exit
    BY <2>1, NoneUsed DEF Exit
  <2>2. CASE ~Exit
    BY <1>2, <2>2, ClosedCounts DEF ProcessDrops
  <2> QED BY <2>1, <2>2
<1>3. CASE SelectReturns
  <2>1. CASE Exit
    BY <2>1, NoneUsed DEF Exit
  <2>2. CASE ~Exit
    <3>1. bound <= Links /\ UNCHANGED <<count, bound>>
      BY <1>3, <2>2 DEF SelectReturns
    <3>2. Used' \in SUBSET Used
      BY <1>3, <2>2, LinksAssumption DEF SelectReturns, Used, Slots, Index
    <3>3. Cardinality(Used') <= Cardinality(Used) /\ Cardinality(Used') \in Nat
      BY <1>0, <3>2, SlotSets
    <3> QED BY <1>0, <3>1, <3>3, LinksAssumption DEF Counters
  <2> QED BY <2>1, <2>2
<1>4. CASE NewChild \/ SessionEnds \/ RemovePair
  BY <1>4, NoneUsed DEF NewChild, SessionEnds, RemovePair, Exit
<1>5. CASE JoinUser
  <2>1. Used' = Used
    BY <1>5, LinksAssumption DEF JoinUser, Used, Slots, Types, Tables
  <2> QED BY <1>5, <2>1 DEF JoinUser, Counters
<1>6. ASSUME NEW i \in Slots, Join(i) PROVE Counters'
  <2>1. Used' \subseteq Used \union {i} /\ i \notin Used
    BY <1>6, LinksAssumption DEF Join, Used, Slots, Index, Types, Tables
  <2>2. Cardinality(Used \union {i}) = Cardinality(Used) + 1
    BY <2>1, SlotSets, FS_AddElement
  <2>3. Cardinality(Used') <= Cardinality(Used) + 1 /\ Cardinality(Used') \in Nat
    <3>1. Used \union {i} \in SUBSET Slots /\ Used' \in SUBSET (Used \union {i})
      BY <1>0, <2>1
    <3> QED BY <2>2, <3>1, SlotSets
  <2>4. count' = count + 1 /\ bound' = MAX(bound, count + 1) /\ pc = "serve" /\ pc' = "top"
    BY <1>6 DEF Join
  <2> QED BY <1>0, <2>3, <2>4, LinksAssumption DEF Counters, MAX
<1>7. ASSUME NEW i \in Slots, Leave(i) PROVE Counters'
  <2>1. Used' = Used \ {i} /\ i \in Used
    BY <1>7, LinksAssumption DEF Leave, Served, Used, Slots, Index, Types, Tables
  <2>2. Cardinality(Used') = Cardinality(Used) - 1
    BY <2>1, SlotSets, FS_RemoveElement
  <2>3. Cardinality(Used') \in Nat
    BY SlotSets DEF Used
  <2>4. count' = count - 1 /\ bound' = IF count = bound THEN bound - 1 ELSE bound
    BY <1>7 DEF Leave
  <2>5. pc' = pc
    BY <1>7 DEF Leave
  <2> QED BY <1>0, <2>2, <2>3, <2>4, <2>5, LinksAssumption DEF Counters
<1>8. CASE ProcessDropsFails \/ Heartbeat \/ NoHeartbeat
  BY <1>1, <1>8 DEF ProcessDropsFails, Heartbeat, NoHeartbeat
<1>9. CASE Reap \/ Tick \/ UNCHANGED vars
  BY <1>1, <1>9 DEF Reap, Tick, vars, childVars, tableVars
<1>10. CASE (\E i \in Index : Request(i)) \/ (\E p \in Pids : Signal(p))
  BY <1>1, <1>10 DEF Request, Signal, childVars
<1>11. CASE \E s \in snaps : Save(s) \/ Lose(s)
  BY <1>1, <1>11 DEF Save, Lose, childVars
<1> QED BY <1>2, <1>3, <1>4, <1>5, <1>6, <1>7, <1>8, <1>9, <1>10, <1>11 DEF Next, Loop

\* They hold initially.
LEMMA InitCounters == Init => Counters
<1> SUFFICES ASSUME Init PROVE Counters
  OBVIOUS
<1>1. Used = {}
  BY LinksAssumption DEF Init, Used, Empty, Slots, Index
<1>2. Cardinality(Used) = 0
  BY <1>1, FS_EmptySet
<1> QED BY <1>2, LinksAssumption DEF Init, Counters

\* Types and counters together.
LEMMA TypesInductive == Spec => [](Types /\ Counters)
BY InitTypes, InitCounters, TypesStep, CountersStep, PTL DEF Spec

\* Theorem: connections.tdb holds whole records or none, a running child of the pair
\* is the one the parent knows, and max_conn2_count, which says how much of the table
\* is listed, passes the table by one entry at most.
THEOREM TypeCorrect == Spec => []TypeOK
<1>1. Types /\ Counters => TypeOK
  <2> SUFFICES ASSUME Types, Counters PROVE TypeOK
    OBVIOUS
  <2>1. count \in 0..(Links + 1) /\ bound \in 0..(Links + 1)
    BY LinksAssumption DEF Counters
  <2> QED BY <2>1 DEF TypeOK, ChildTypes, Types
<1> QED BY <1>1, TypesInductive, PTL

----------------------------------------------------------------------------
(* Marks *)

\* A mark stands for a request that was not served.
MarksAsked == \A i \in Flagged : asked[i]

\* A record that stays as it is, or is written without a mark, or goes; the history
\* forgets only what has no mark any more.
LEMMA MarksKept ==
  ASSUME MarksAsked, asked' = [i \in Index |-> asked[i] /\ i \in Flagged'],
         \A i \in Index : \/ db'[i] = db[i]
                          \/ db'[i] = NoRecord \/ db'[i].flag = FALSE
  PROVE  MarksAsked'
BY DEF MarksAsked, Flagged, Present

\* Every step keeps it.
LEMMA MarksStep ==
  ASSUME Types, MarksAsked, [Next]_vars
  PROVE  MarksAsked'
<1>1. CASE UNCHANGED <<db, asked>>
  BY <1>1 DEF MarksAsked, Flagged, Present
<1>2. CASE ProcessDrops
  <2> SUFFICES ASSUME NEW i \in Flagged' PROVE asked'[i]
    BY DEF MarksAsked
  <2>1. i \in Index /\ db'[i] # NoRecord /\ db'[i].flag = TRUE
    BY DEF Flagged, Present
  <2>2. i \notin Flagged /\ db'[i] = db[i]
    BY <1>2, <2>1 DEF ProcessDrops, Without
  <2>3. i \in Flagged
    BY <2>1, <2>2 DEF Flagged, Present
  <2> QED BY <2>2, <2>3
<1>3. ASSUME NEW s \in snaps, Save(s) PROVE MarksAsked'
  <2>1. s \in [pid : Pids, table : Tables]
    BY DEF Types, SharedTypes
  <2>2. \A i \in Index : db'[i] = NoRecord \/ db'[i].flag = FALSE
    BY <1>3, <2>1, WrittenType DEF Save
  <2>3. asked' = [i \in Index |-> asked[i] /\ i \in Flagged']
    BY <1>3 DEF Save
  <2> QED BY <2>2, <2>3, MarksKept
<1>4. ASSUME NEW i \in Index, Request(i) PROVE MarksAsked'
  <2> SUFFICES ASSUME NEW j \in Flagged' PROVE asked'[j]
    BY DEF MarksAsked
  <2>1. j \in Index /\ db'[j] # NoRecord /\ db'[j].flag = TRUE
    BY DEF Flagged, Present
  <2>2. CASE j = i
    BY <1>4, <2>1, <2>2 DEF Request, Types, SharedTypes
  <2>3. CASE j # i
    <3>1. db'[j] = db[j] /\ asked'[j] = asked[j]
      BY <1>4, <2>1, <2>3 DEF Request, Types, SharedTypes
    <3> QED BY <2>1, <3>1 DEF MarksAsked, Flagged, Present
  <2> QED BY <2>2, <2>3
<1>5. CASE RemoveRecords /\ asked' = [i \in Index |-> asked[i] /\ i \in Flagged']
  <2>1. \A i \in Index : db'[i] = db[i] \/ db'[i] = NoRecord
    BY <1>5 DEF RemoveRecords, NoRecords
  <2> QED BY <1>5, <2>1, MarksKept
<1>6. CASE Tick
  <2> SUFFICES ASSUME NEW i \in Flagged' PROVE asked'[i]
    BY DEF MarksAsked
  <2>1. i \in Index /\ db'[i] # NoRecord /\ db'[i].flag = TRUE
    BY DEF Flagged, Present
  <2>2. Present(i) /\ db'[i] = Older(db[i])
    BY <1>6, <2>1 DEF Tick
  <2>3. db[i] \in Record
    BY <2>1, <2>2 DEF Present, Types, SharedTypes
  <2>4. db[i].flag = TRUE
    BY <2>1, <2>2, <2>3, OlderType
  <2> QED BY <1>6, <2>1, <2>2, <2>4 DEF MarksAsked, Flagged, Tick
<1>7. CASE ProcessDropsFails \/ SelectReturns \/ Heartbeat \/ NoHeartbeat \/ NewChild
           \/ SessionEnds \/ JoinUser \/ UNCHANGED vars
  BY <1>1, <1>7 DEF ProcessDropsFails, SelectReturns, Heartbeat, NoHeartbeat, NewChild,
                    SessionEnds, JoinUser, vars
<1>8. ASSUME NEW i \in Slots, Join(i) \/ Leave(i) PROVE MarksAsked'
  BY <1>1, <1>8 DEF Join, Leave
<1>9. ASSUME NEW s \in snaps, Lose(s) PROVE MarksAsked'
  BY <1>1, <1>9 DEF Lose
<1>10. ASSUME NEW p \in Pids, Signal(p) PROVE MarksAsked'
  BY <1>1, <1>10 DEF Signal
<1>11. CASE Reap \/ RemovePair
  BY <1>5, <1>11 DEF Reap, RemovePair
<1> QED BY <1>2, <1>3, <1>4, <1>6, <1>7, <1>8, <1>9, <1>10, <1>11 DEF Next, Loop

\* Only process_drops() reads and clears the flag at the top of the loop, and what it
\* closes was marked.
LEMMA DropsMarked ==
  ASSUME Types, MarksAsked, [Next]_vars, NEW i \in Index, Drops(i)
  PROVE  asked[i] \/ asked[0]
<1>1. pc = "top" /\ drops /\ ~drops' /\ table[i] # None /\ table'[i] = None
  BY DEF Drops
<1>2. CASE ProcessDrops
  <2>1. CASE 0 \in Flagged
    BY <2>1 DEF MarksAsked
  <2>2. CASE 0 \notin Flagged
    <3>1. table'[i] = IF i \in Used \intersect Flagged THEN None ELSE table[i]
      BY <1>2, <2>2 DEF ProcessDrops, Closed
    <3>2. i \in Flagged
      BY <1>1, <3>1
    <3> QED BY <3>2 DEF MarksAsked
  <2> QED BY <2>1, <2>2
<1>3. ASSUME UNCHANGED table \/ UNCHANGED drops PROVE FALSE
  BY <1>1, <1>3
<1>4. ASSUME NEW j \in Index, Request(j) PROVE FALSE
  BY <1>3, <1>4 DEF Request, childVars
<1>5. ASSUME NEW s \in snaps, Save(s) \/ Lose(s) PROVE FALSE
  BY <1>3, <1>5 DEF Save, Lose, childVars
<1>6. ASSUME NEW p \in Pids, Signal(p) PROVE FALSE
  BY <1>3, <1>6 DEF Signal, tableVars
<1>7. ASSUME NEW j \in Slots, Join(j) \/ Leave(j) PROVE FALSE
  BY <1>3, <1>7 DEF Join, Leave
<1>8. ASSUME \/ ProcessDropsFails \/ SelectReturns \/ Heartbeat \/ NoHeartbeat \/ JoinUser
             \/ SessionEnds \/ Reap \/ RemovePair \/ Tick \/ UNCHANGED vars
      PROVE  FALSE
  BY <1>3, <1>8 DEF ProcessDropsFails, SelectReturns, Heartbeat, NoHeartbeat, JoinUser,
                    SessionEnds, Reap, RemovePair, Tick, vars, childVars, tableVars
<1>9. ASSUME NewChild PROVE FALSE
  <2>1. child = NoPid
    BY <1>9 DEF NewChild
  <2>2. child \in Pids
    BY <1>1 DEF Types, Running
  <2> QED BY <2>1, <2>2, PidsAssumption
<1> QED BY <1>2, <1>4, <1>5, <1>6, <1>7, <1>8, <1>9 DEF Next, Loop

\* Theorem: whatever heartbeats, sessions, signals and reused pids come between, an
\* engineer is dropped only if a drop of that index was asked for and not yet served.
THEOREM OneDropCorrect == Spec => OneDropPerRequest
<1>1. Init => MarksAsked
  BY DEF Init, MarksAsked, Flagged, Present, NoRecords
<1>2. Types /\ MarksAsked /\ [Next]_vars => MarksAsked'
  BY MarksStep
<1>3. Types /\ MarksAsked /\ [Next]_vars
        => [\A i \in Index : Drops(i) => asked[i] \/ asked[0]]_vars
  BY DropsMarked
<1> QED BY <1>1, <1>2, <1>3, TypesInductive, PTL DEF Spec, OneDropPerRequest
=============================================================================
