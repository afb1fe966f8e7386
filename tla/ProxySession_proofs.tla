------------------------ MODULE ProxySession_proofs ------------------------
(***************************************************************************)
(* Proofs about ProxySession, for every size of the table, every set of    *)
(* UDP peers and every timeout.                                            *)
(***************************************************************************)
EXTENDS ProxySession, FiniteSetTheorems, TLAPS

----------------------------------------------------------------------------
(* Entries of the table *)

\* The values main_loop() stores in conn2[] are Connection2 records.
LEMMA ConnValues ==
  /\ Free \in Conn /\ ~Free.used
  /\ TcpConn \in Conn /\ TcpConn.used
  /\ \A peer \in UdpPeers : UdpConn(peer) \in Conn /\ UdpConn(peer).used
BY TimeoutAssumption DEF Conn, Free, TcpConn, UdpConn, NoPeer, Ages

\* Time, a datagram and received bytes change fields of an entry, not its use.
LEMMA ConnUpdates ==
  ASSUME NEW c \in Conn
  PROVE  /\ Aged(c) \in Conn /\ Aged(c).used = c.used
         /\ Heard(c) \in Conn /\ Heard(c).used = c.used
         /\ \A w, b \in BOOLEAN : /\ Received(c, w, b) \in Conn
                                 /\ Received(c, w, b).used = c.used
<1>1. 0 \in Ages /\ \A a \in Ages : Older(a) \in Ages
  BY TimeoutAssumption DEF Older, Ages
<1>2. Aged(c) \in Conn /\ Aged(c).used = c.used
  BY <1>1 DEF Aged, Conn
<1>3. Heard(c) \in Conn /\ Heard(c).used = c.used
  BY <1>1 DEF Heard, Conn
<1>4. \A w, b \in BOOLEAN : /\ Received(c, w, b) \in Conn
                           /\ Received(c, w, b).used = c.used
  BY DEF Received, Conn
<1> QED
  BY <1>2, <1>3, <1>4

\* Used is a finite set, so that its cardinality is a number.
LEMMA UsedFinite ==
  ASSUME MaxLinks \in Nat
  PROVE  /\ IsFiniteSet(Used) /\ Cardinality(Used) \in Nat
         /\ IsFiniteSet(Used)' /\ Cardinality(Used)' \in Nat
<1>1. IsFiniteSet(Slots)
  BY FS_Interval DEF Slots
<1>2. Used \subseteq Slots /\ Used' \subseteq Slots
  BY DEF Used
<1>3. IsFiniteSet(Used) /\ IsFiniteSet(Used')
  BY <1>1, <1>2, FS_Subset
<1> QED
  BY <1>3, FS_CardinalityType

\* Closing an entry in use removes one element of Used.
LEMMA CloseRemoves ==
  ASSUME MaxLinks \in Nat, conn2 \in [Slots -> Conn], NEW i \in Used,
         conn2' = [conn2 EXCEPT ![i] = Free]
  PROVE  Cardinality(Used') = Cardinality(Used) - 1
<1>1. Used' = Used \ {i}
  BY ConnValues DEF Used
<1> QED
  BY <1>1, UsedFinite, FS_RemoveElement

\* Taking a free entry adds one element of Used.
LEMMA OpenAdds ==
  ASSUME MaxLinks \in Nat, conn2 \in [Slots -> Conn],
         NEW i \in Slots, NEW c \in Conn, i \notin Used, c.used,
         conn2' = [conn2 EXCEPT ![i] = c]
  PROVE  Cardinality(Used') = Cardinality(Used) + 1
<1>1. Used' = Used \union {i}
  BY DEF Used
<1> QED
  BY <1>1, UsedFinite, FS_AddElement

\* The first free entry lies at most at the number of entries in use.
LEMMA FirstFreeBound ==
  ASSUME MaxLinks \in Nat, NEW i \in Slots, FirstFree(i)
  PROVE  i <= Cardinality(Used)
<1>1. 0..(i - 1) \subseteq Used
  BY DEF FirstFree, Used, Slots
<1>2. Cardinality(0..(i - 1)) = i
  BY FS_Interval DEF Slots
<1> QED
  BY <1>1, <1>2, UsedFinite, FS_Subset DEF Slots

----------------------------------------------------------------------------
(* Types.  The bound of TypeOK on the loop index rests on Accounting, which   *)
(* needs the other types first, so that the index is a uint8_t here.         *)

LoopTypes8 ==
  /\ pc \in Blocks /\ drops \in BOOLEAN /\ todo \in SUBSET (0..MaxLinks)
  /\ ready \in SUBSET Fds /\ idx \in 0..255 /\ idle \in Nat
Types == LoopTypes8 /\ UserTypes /\ TableTypes

\* Opening and closing entries keep the table and the uint8_t counters typed.
LEMMA CloseTypes ==
  ASSUME TableTypes, NEW i \in Slots, CloseAndCount(i)
  PROVE  /\ conn2' \in [Slots -> Conn]
         /\ conn2_count' \in 0..255 /\ max_conn2_count' \in 0..255
BY ConnValues DEF TableTypes, CloseAndCount, Dec8

LEMMA DropTypes ==
  ASSUME TableTypes, NEW i \in Slots, DropLink(i)
  PROVE  /\ conn2' \in [Slots -> Conn]
         /\ conn2_count' \in 0..255 /\ max_conn2_count' \in 0..255
BY ConnValues DEF TableTypes, DropLink, Dec8

LEMMA AllocateTypes ==
  ASSUME TableTypes, NEW i \in Slots, NEW c \in Conn, Allocate(i, c)
  PROVE  TableTypes'
<1>1. mavws' \in [Slots -> WsPointers]
  BY DEF TableTypes, Allocate, Inherit, WsPointers
<1>2. conn2' \in [Slots -> Conn] /\ conn2_count' \in 0..255
      /\ max_conn2_count' \in 0..255
  BY DEF TableTypes, Allocate, Inc8, MAX
<1> QED
  BY <1>1, <1>2 DEF TableTypes

LEMMA InitTypes == Init => Types
<1> SUFFICES ASSUME Init PROVE Types
  OBVIOUS
<1>1. pc \in Blocks /\ drops \in BOOLEAN
  BY DEF Init, Blocks
<1>2. idx \in 0..255 /\ idle \in Nat
  BY DEF Init
<1>3. todo \in SUBSET (0..MaxLinks) /\ ready \in SUBSET Fds
  BY DEF Init
<1>4. /\ sock1 \in SUBSET UserSocks
      /\ have_conn1 \in BOOLEAN /\ got1 \in BOOLEAN /\ ws1 \in BOOLEAN
  BY DEF Init
<1>5. age1 \in Ages
  BY TimeoutAssumption DEF Init, Ages
<1>6. mavws1 \in WsPointers /\ mavws \in [Slots -> WsPointers]
  BY DEF Init, WsPointers
<1>7. conn2 \in [Slots -> Conn] /\ conn2_count \in 0..255
      /\ max_conn2_count \in 0..255
  BY ConnValues DEF Init
<1> QED
  BY <1>1, <1>2, <1>3, <1>4, <1>5, <1>6, <1>7
     DEF Types, LoopTypes8, UserTypes, TableTypes

\* The loop's own variables: the longest loop index is bounded by a uint8_t.
LEMMA LoopTyped == Types /\ [Next]_vars => LoopTypes8'
<1> SUFFICES ASSUME LoopTypes8, UserTypes, TableTypes, [Next]_vars
             PROVE  LoopTypes8'
  BY DEF Types
<1> USE DEF LoopTypes8, Blocks
<1>1. CASE TopStep
  BY <1>1 DEF TopStep, StartDrops, DropEngineer, EndDrops, NoDrops, EnterSelect
<1>2. CASE Reap \/ Tick \/ SelectTimeout
  <2>1. idle' \in Nat
    BY <1>2 DEF Reap, Tick, SelectTimeout
  <2>2. pc' \in Blocks /\ UNCHANGED <<drops, todo, ready, idx>>
    BY <1>2 DEF Reap, Tick, SelectTimeout
  <2> QED
    BY <2>1, <2>2
<1>3. CASE SelectReady
  <2>1. ready' \in SUBSET Fds
    <3>1. Watched \subseteq Fds
      BY DEF Watched, Visible, Used, Fds, Sock, Link, UserSocks, UserTypes
    <3> QED
      BY <1>3, <3>1 DEF SelectReady
  <2> QED
    BY <1>3, <2>1 DEF SelectReady
<1>4. CASE UserStep
  <2> USE DEF UserStep, UserUdpFails, UserUdp, SkipUserUdp, UserAccept,
              SkipUserAccept, UserTcp, SkipUserTcp, Consume
  <2>1. idx' \in 0..255 /\ idle' \in Nat
    BY <1>4
  <2>2. pc' \in Blocks /\ UNCHANGED <<drops, todo>> /\ ready' \subseteq ready
    BY <1>4
  <2> QED
    BY <2>1, <2>2
<1>5. CASE ForwardStep \/ BeyondTable
  <2> USE DEF ForwardStep, ForwardSent, ForwardFailed, ForwardCrashes,
              ForwardDone, BeyondTable, AfterForward
  <2>1. idx' \in 0..255 /\ idle' \in Nat
    BY <1>5 DEF TableTypes
  <2>2. pc' \in Blocks /\ UNCHANGED <<drops, todo, ready>>
    BY <1>5
  <2> QED
    BY <2>1, <2>2
<1>6. CASE EngUdpStep
  BY <1>6 DEF EngUdpStep, EngUdpKnown, EngUdpNew, EngUdpFull, EngUdpFails,
              SkipEngUdp, ToUser
<1>7. CASE EngTcpStep
  <2> USE DEF EngTcpStep, EngAccept, EngRefused, SkipEngAccept, EngData, EngEof,
              EngNoData, EngDone
  <2>1. idx' \in 0..255 /\ idle' \in Nat
    BY <1>7 DEF TableTypes
  <2>2. pc' \in Blocks /\ UNCHANGED <<drops, todo>> /\ ready' \subseteq ready
    BY <1>7
  <2> QED
    BY <2>1, <2>2
<1>8. CASE Sigusr1 \/ Sigterm
  <2>1. idx' \in 0..255 /\ idle' \in Nat
    BY <1>8 DEF Sigusr1, Sigterm
  <2>2. pc' \in Blocks /\ drops' \in BOOLEAN /\ UNCHANGED <<todo, ready>>
    BY <1>8 DEF Sigusr1, Sigterm
  <2> QED
    BY <2>1, <2>2
<1>9. CASE Gone \/ UNCHANGED vars
  BY <1>9 DEF Gone, vars, loopVars
<1> QED
  BY <1>1, <1>2, <1>3, <1>4, <1>5, <1>6, <1>7, <1>8, <1>9 DEF Next, Running

\* The variables of the user side.
LEMMA UserTyped == Types /\ [Next]_vars => UserTypes'
<1> SUFFICES ASSUME UserTypes, [Next]_vars PROVE UserTypes'
  BY DEF Types
<1>1. ASSUME UNCHANGED userVars PROVE UserTypes'
  BY <1>1 DEF UserTypes, userVars
<1>2. CASE TopStep \/ Reap \/ SelectReady \/ SelectTimeout
  BY <1>1, <1>2 DEF TopStep, StartDrops, DropEngineer, EndDrops, NoDrops,
                    EnterSelect, Reap, SelectReady, SelectTimeout
<1>3. CASE Tick
  <2>1. age1' \in Ages
    BY <1>3, TimeoutAssumption DEF Tick, UserTypes, Older, Ages
  <2> QED
    BY <1>3, <2>1 DEF Tick, UserTypes
<1>4. CASE UserStep
  <2>1. age1' \in Ages /\ mavws1' \in WsPointers
    BY <1>4, TimeoutAssumption
       DEF UserStep, UserUdpFails, UserUdp, SkipUserUdp, UserAccept, userVars,
           SkipUserAccept, UserTcp, SkipUserTcp, UserTypes, Ages, WsPointers
  <2>2. sock1' \in SUBSET UserSocks
    BY <1>4 DEF UserStep, UserUdpFails, UserUdp, SkipUserUdp, UserAccept, userVars,
                SkipUserAccept, UserTcp, SkipUserTcp, UserTypes
  <2>3. have_conn1' \in BOOLEAN /\ got1' \in BOOLEAN /\ ws1' \in BOOLEAN
    BY <1>4 DEF UserStep, UserUdpFails, UserUdp, SkipUserUdp, UserAccept, userVars,
                SkipUserAccept, UserTcp, SkipUserTcp, UserTypes
  <2> QED
    BY <2>1, <2>2, <2>3 DEF UserTypes
<1>5. CASE ForwardStep \/ BeyondTable
  BY <1>1, <1>5 DEF ForwardStep, ForwardSent, ForwardFailed, ForwardCrashes,
                    ForwardDone, BeyondTable
<1>6. CASE EngUdpStep \/ EngTcpStep
  BY <1>1, <1>6 DEF EngUdpStep, EngUdpKnown, EngUdpNew, EngUdpFull, EngUdpFails,
                    SkipEngUdp, EngTcpStep, EngAccept, EngRefused, SkipEngAccept,
                    EngData, EngEof, EngNoData, EngDone
<1>7. CASE Sigusr1 \/ Sigterm \/ Gone \/ UNCHANGED vars
  BY <1>1, <1>7 DEF Sigusr1, Sigterm, Gone, vars
<1> QED
  BY <1>2, <1>3, <1>4, <1>5, <1>6, <1>7 DEF Next, Running

\* The table and its counters.
LEMMA TableTyped == Types /\ [Next]_vars => TableTypes'
<1> SUFFICES ASSUME LoopTypes8, TableTypes, [Next]_vars PROVE TableTypes'
  BY DEF Types
<1>1. ASSUME UNCHANGED slotVars PROVE TableTypes'
  BY <1>1 DEF TableTypes, slotVars
<1>2. CASE TopStep
  <2>1. CASE DropEngineer
    BY <2>1, <1>1, DropTypes DEF DropEngineer, TableTypes, Used
  <2> QED
    BY <1>1, <1>2, <2>1 DEF TopStep, StartDrops, EndDrops, NoDrops, EnterSelect
<1>3. CASE Reap
  BY <1>3, ConnValues DEF Reap, TableTypes
<1>4. CASE Tick
  BY <1>4, ConnUpdates DEF Tick, TableTypes
<1>5. CASE UserStep \/ SelectReady \/ SelectTimeout
  BY <1>1, <1>5 DEF UserStep, UserUdpFails, UserUdp, SkipUserUdp, UserAccept,
                    SkipUserAccept, UserTcp, SkipUserTcp, SelectReady,
                    SelectTimeout
<1>6. CASE ForwardStep \/ BeyondTable
  <2>1. CASE ForwardFailed
    BY <2>1, CloseTypes DEF ForwardFailed, TableTypes, Used
  <2> QED
    BY <1>1, <1>6, <2>1 DEF ForwardStep, ForwardSent, ForwardCrashes, ForwardDone,
                            BeyondTable
<1>7. CASE EngUdpStep
  <2>1. CASE EngUdpKnown
    BY <2>1, ConnUpdates DEF EngUdpKnown, TableTypes
  <2>2. CASE EngUdpNew
    BY <2>2, AllocateTypes, ConnValues DEF EngUdpNew
  <2> QED
    BY <1>1, <1>7, <2>1, <2>2 DEF EngUdpStep, EngUdpFull, EngUdpFails, SkipEngUdp
<1>8. CASE EngTcpStep
  <2>1. CASE EngAccept
    BY <2>1, AllocateTypes, ConnValues DEF EngAccept
  <2>2. CASE EngEof
    BY <2>2, CloseTypes DEF EngEof, TableTypes
  <2>3. CASE EngData
    <3>1. PICK w, b \in BOOLEAN :
            idx \in Slots /\ conn2' = [conn2 EXCEPT ![idx] = Received(@, w, b)]
      BY <2>3 DEF EngData
    <3>2. conn2' \in [Slots -> Conn]
      <4>1. conn2[idx] \in Conn
        BY <3>1 DEF TableTypes
      <4>2. Received(conn2[idx], w, b) \in Conn
        BY <4>1, ConnUpdates
      <4> QED
        BY <3>1, <4>2 DEF TableTypes
    <3>3. mavws' \in [Slots -> WsPointers]
      BY <2>3 DEF EngData, TableTypes, WsPointers
    <3> QED
      BY <2>3, <3>2, <3>3 DEF EngData, TableTypes
  <2> QED
    BY <1>1, <1>8, <2>1, <2>2, <2>3 DEF EngTcpStep, EngRefused, SkipEngAccept,
                                        EngNoData, EngDone
<1>9. CASE Sigusr1 \/ Sigterm \/ Gone \/ UNCHANGED vars
  BY <1>1, <1>9 DEF Sigusr1, Sigterm, Gone, vars
<1> QED
  BY <1>2, <1>3, <1>4, <1>5, <1>6, <1>7, <1>8, <1>9 DEF Next, Running

----------------------------------------------------------------------------
(* The counters *)

\* When the loop reaches the UDP engineers' block, the assertion after select()
\* has passed and nothing has been added since.
RoomForOne ==
  \/ pc \in {"reap", "user_udp", "eng_udp"}
  \/ pc = "forward" /\ "udp" \in sock1
  => max_conn2_count <= MaxLinks

\* Accounting alone is not inductive: the UDP path adds an entry without
\* looking at conn2_count, so the bound of max_conn2_count rests on where in
\* the iteration that happens.
AccountingInv == Types /\ Accounting /\ RoomForOne /\ idx <= MaxLinks + 1

\* What a step may do to the table.
Grows == \A i \in Slots : i \notin Used /\ i \in Used' => i \in Visible'

LEMMA SameUse ==
  ASSUME Types, Accounting, MaxLinks \in Nat, Used' \subseteq Used,
         UNCHANGED <<conn2_count, max_conn2_count>>
  PROVE  Accounting' /\ Grows
<1>1. Cardinality(Used') <= Cardinality(Used)
  BY UsedFinite, FS_Subset
<1>2. Accounting'
  BY <1>1, UsedFinite DEF Types, TableTypes, Accounting
<1> QED
  BY <1>2 DEF Grows

\* Closing an entry on a failed send or at end of file.
LEMMA CloseAccounts ==
  ASSUME Types, Accounting, MaxLinks \in 1..250,
         NEW i \in Used, CloseAndCount(i)
  PROVE  Accounting' /\ Grows /\ max_conn2_count' <= max_conn2_count
<1>0. /\ MaxLinks \in Nat /\ conn2 \in [Slots -> Conn]
      /\ conn2' = [conn2 EXCEPT ![i] = Free]
  BY DEF CloseAndCount, Types, TableTypes
<1>1. Cardinality(Used') = Cardinality(Used) - 1
  BY <1>0, CloseRemoves
<1>2. conn2_count >= 1
  BY <1>1, UsedFinite DEF Accounting, Types, TableTypes
<1>3. Accounting' /\ max_conn2_count' <= max_conn2_count
  BY <1>1, <1>2, UsedFinite DEF CloseAndCount, Accounting, Types, TableTypes, Dec8
<1>4. Grows
  BY ConnValues DEF Grows, CloseAndCount, Used, Types, TableTypes
<1> QED
  BY <1>3, <1>4

LEMMA DropAccounts ==
  ASSUME Types, Accounting, MaxLinks \in 1..250, NEW i \in Used, DropLink(i)
  PROVE  Accounting' /\ Grows
<1>0. /\ MaxLinks \in Nat /\ conn2 \in [Slots -> Conn]
      /\ conn2' = [conn2 EXCEPT ![i] = Free]
  BY DEF DropLink, Types, TableTypes
<1>1. Cardinality(Used') = Cardinality(Used) - 1
  BY <1>0, CloseRemoves
<1>2. conn2_count >= 1
  BY <1>1, UsedFinite DEF Accounting, Types, TableTypes
<1>3. Accounting'
  BY <1>1, <1>2, UsedFinite DEF DropLink, Accounting, Types, TableTypes, Dec8
<1>4. Grows
  BY ConnValues DEF Grows, DropLink, Used, Types, TableTypes
<1> QED
  BY <1>3, <1>4

\* The first free entry lies below the new bound: the entries before it are in
\* use, and there are at most conn2_count of them.
LEMMA AllocateAccounts ==
  ASSUME Types, Accounting, MaxLinks \in 1..250, conn2_count <= MaxLinks,
         NEW i \in Slots, NEW c \in Conn, c.used, FirstFree(i), Allocate(i, c)
  PROVE  Accounting' /\ Grows
<1>1. i \notin Used
  BY DEF FirstFree, Used
<1>0. /\ MaxLinks \in Nat /\ conn2 \in [Slots -> Conn]
      /\ conn2' = [conn2 EXCEPT ![i] = c]
  BY DEF Allocate, Types, TableTypes
<1>2. Cardinality(Used') = Cardinality(Used) + 1
  BY <1>0, <1>1, OpenAdds
<1>3. i <= Cardinality(Used)
  BY FirstFreeBound
<1>4. Accounting' /\ i < max_conn2_count'
  BY <1>2, <1>3, UsedFinite
     DEF Allocate, Accounting, Types, TableTypes, Inc8, MAX, Slots
<1>5. Used' = Used \union {i}
  BY DEF Used, Allocate, Types, TableTypes
<1> QED
  BY <1>4, <1>5 DEF Grows, Visible

LEMMA AccountingStep ==
  AccountingInv /\ [Next]_vars => Accounting' /\ RoomForOne' /\ Grows
<1> SUFFICES ASSUME Types, Accounting, RoomForOne, [Next]_vars
             PROVE  Accounting' /\ RoomForOne' /\ Grows
  BY DEF AccountingInv
<1> USE MaxLinksAssumption
<1>1. ASSUME UNCHANGED slotVars PROVE Accounting' /\ Grows
  BY <1>1, SameUse DEF slotVars, Used
<1>2. CASE TopStep
  <2>1. RoomForOne'
    BY <1>2 DEF TopStep, StartDrops, DropEngineer, EndDrops, NoDrops, EnterSelect,
                RoomForOne
  <2>2. CASE DropEngineer
    <3>1. CASE UNCHANGED <<conn2, conn2_count, max_conn2_count>>
      BY <3>1, <2>1, SameUse DEF Used
    <3> QED
      BY <2>1, <2>2, <3>1, DropAccounts DEF DropEngineer
  <2> QED
    BY <1>1, <1>2, <2>1, <2>2 DEF TopStep, StartDrops, EndDrops, NoDrops,
                                  EnterSelect
<1>3. CASE Reap
  <2>1. Used' \subseteq Used
    BY <1>3, ConnValues DEF Reap, Used
  <2> QED
    BY <1>3, <2>1, SameUse DEF Reap, RoomForOne
<1>4. CASE Tick
  <2>1. Used' = Used
    BY <1>4, ConnUpdates DEF Tick, Used, Types, TableTypes
  <2> QED
    BY <1>4, <2>1, SameUse DEF Tick, RoomForOne
<1>5. CASE UserStep
  <2>1. Accounting' /\ Grows
    BY <1>1, <1>5 DEF UserStep, UserUdpFails, UserUdp, SkipUserUdp, UserAccept,
                      SkipUserAccept, UserTcp, SkipUserTcp
  <2>2. RoomForOne'
    BY <1>5 DEF UserStep, UserUdpFails, UserUdp, SkipUserUdp, UserAccept, slotVars,
                SkipUserAccept, UserTcp, SkipUserTcp, Consume, RoomForOne
  <2> QED
    BY <2>1, <2>2
<1>6. CASE ForwardStep \/ BeyondTable
  <2>1. CASE ForwardFailed
    <3>1. Accounting' /\ Grows /\ max_conn2_count' <= max_conn2_count
      BY <2>1, CloseAccounts DEF ForwardFailed
    <3>2. max_conn2_count \in Nat /\ max_conn2_count' \in Nat
      BY <2>1, CloseTypes DEF ForwardFailed, Types, TableTypes, Used
    <3> QED
      BY <2>1, <3>1, <3>2 DEF ForwardFailed, RoomForOne, userVars
  <2>2. CASE ForwardSent \/ ForwardCrashes \/ ForwardDone \/ BeyondTable
    <3>1. Accounting' /\ Grows
      BY <2>2, <1>1 DEF ForwardSent, ForwardCrashes, ForwardDone, BeyondTable
    <3>2. RoomForOne'
      BY <2>2 DEF ForwardSent, ForwardCrashes, ForwardDone, BeyondTable,
                  AfterForward, RoomForOne, userVars, slotVars
    <3> QED
      BY <3>1, <3>2
  <2> QED
    BY <1>6, <2>1, <2>2 DEF ForwardStep
<1>7. CASE EngUdpStep
  <2>1. RoomForOne'
    BY <1>7 DEF EngUdpStep, EngUdpKnown, EngUdpNew, EngUdpFull, EngUdpFails,
                SkipEngUdp, ToUser, RoomForOne
  <2>2. CASE EngUdpKnown
    <3>1. Used' = Used
      BY <2>2, ConnUpdates DEF EngUdpKnown, Used, Types, TableTypes
    <3> QED
      BY <2>1, <2>2, <3>1, SameUse DEF EngUdpKnown
  <2>3. CASE EngUdpNew
    <3>1. conn2_count <= MaxLinks
      BY <2>3 DEF EngUdpNew, RoomForOne, Accounting, Types, TableTypes
    <3> QED
      BY <2>1, <2>3, <3>1, AllocateAccounts, ConnValues DEF EngUdpNew
  <2> QED
    BY <1>1, <1>7, <2>1, <2>2, <2>3 DEF EngUdpStep, EngUdpFull, EngUdpFails,
                                        SkipEngUdp
<1>8. CASE EngTcpStep
  <2>1. RoomForOne'
    BY <1>8 DEF EngTcpStep, EngAccept, EngRefused, SkipEngAccept, EngData, EngEof,
                EngNoData, EngDone, RoomForOne
  <2>2. CASE EngAccept
    <3>1. conn2_count <= MaxLinks
      BY <2>2 DEF EngAccept, Types, TableTypes
    <3> QED
      BY <2>1, <2>2, <3>1, AllocateAccounts, ConnValues DEF EngAccept
  <2>3. CASE EngEof
    BY <2>1, <2>3, CloseAccounts DEF EngEof, HasData
  <2>4. CASE EngData
    <3>1. PICK w, b \in BOOLEAN :
            idx \in Slots /\ conn2' = [conn2 EXCEPT ![idx] = Received(@, w, b)]
      BY <2>4 DEF EngData
    <3>2. Received(conn2[idx], w, b).used = conn2[idx].used
      BY <3>1, ConnUpdates DEF Types, TableTypes
    <3>3. Used' = Used
      BY <3>1, <3>2 DEF Used, Types, TableTypes
    <3> QED
      BY <2>1, <2>4, <3>3, SameUse DEF EngData
  <2> QED
    BY <1>1, <1>8, <2>1, <2>2, <2>3, <2>4 DEF EngTcpStep, EngRefused,
                                        SkipEngAccept, EngNoData, EngDone
<1>9. CASE SelectReady \/ SelectTimeout \/ Sigusr1 \/ Sigterm
  <2>1. Accounting' /\ Grows
    BY <1>1, <1>9 DEF SelectReady, SelectTimeout, Sigusr1, Sigterm
  <2>2. RoomForOne'
    BY <1>9 DEF SelectReady, SelectTimeout, Sigusr1, Sigterm, RoomForOne, slotVars,
                userVars, Types, TableTypes
  <2> QED
    BY <2>1, <2>2
<1>10. CASE Gone \/ UNCHANGED vars
  BY <1>1, <1>10 DEF Gone, vars, loopVars, userVars, slotVars, RoomForOne
<1> QED
  BY <1>2, <1>3, <1>4, <1>5, <1>6, <1>7, <1>8, <1>9, <1>10 DEF Next, Running

\* A loop index is raised only below max_conn2_count.
LEMMA IndexStep == AccountingInv /\ [Next]_vars => idx' <= MaxLinks + 1
<1> SUFFICES ASSUME LoopTypes8, TableTypes, Accounting, idx <= MaxLinks + 1,
                    [Next]_vars
             PROVE  idx' <= MaxLinks + 1
  BY DEF AccountingInv, Types
<1> USE MaxLinksAssumption
<1>1. idx \in Int /\ (UNCHANGED idx \/ idx' = 0 => idx' <= MaxLinks + 1)
  BY DEF LoopTypes8
<1>2. ASSUME idx < max_conn2_count, idx' = idx + 1 PROVE idx' <= MaxLinks + 1
  BY <1>1, <1>2 DEF Accounting, TableTypes
<1>3. CASE TopStep \/ Reap \/ Tick \/ SelectReady \/ SelectTimeout
  BY <1>1, <1>3 DEF TopStep, StartDrops, DropEngineer, EndDrops, NoDrops,
                    EnterSelect, Reap, Tick, SelectReady, SelectTimeout
<1>4. CASE UserStep
  BY <1>1, <1>4 DEF UserStep, UserUdpFails, UserUdp, SkipUserUdp, UserAccept,
                    SkipUserAccept, UserTcp, SkipUserTcp
<1>5. CASE ForwardStep \/ BeyondTable
  BY <1>1, <1>2, <1>5 DEF ForwardStep, ForwardSent, ForwardFailed,
                          ForwardCrashes, ForwardDone, BeyondTable
<1>6. CASE EngUdpStep
  BY <1>1, <1>6 DEF EngUdpStep, EngUdpKnown, EngUdpNew, EngUdpFull, EngUdpFails,
                    SkipEngUdp
<1>7. CASE EngTcpStep
  BY <1>1, <1>2, <1>7 DEF EngTcpStep, EngAccept, EngRefused, SkipEngAccept,
                          EngData, EngEof, EngNoData, EngDone
<1>8. CASE Sigusr1 \/ Sigterm \/ Gone \/ UNCHANGED vars
  BY <1>1, <1>8 DEF Sigusr1, Sigterm, Gone, vars, loopVars
<1> QED
  BY <1>3, <1>4, <1>5, <1>6, <1>7, <1>8 DEF Next, Running

LEMMA AccountingInductive == Spec => []AccountingInv
<1>1. Init => AccountingInv
  <2>1. Init => Used = {}
    BY ConnValues DEF Init, Used
  <2> QED
    BY <2>1, InitTypes, FS_EmptySet, MaxLinksAssumption
       DEF Init, AccountingInv, Accounting, RoomForOne
<1>2. AccountingInv /\ [Next]_vars => AccountingInv'
  BY AccountingStep, IndexStep, LoopTyped, UserTyped, TableTyped
     DEF AccountingInv, Types
<1> QED
  BY <1>1, <1>2, PTL DEF Spec

\* main_loop() keeps every variable in its type, and no loop over conn2[] looks
\* further than one entry past the table.
THEOREM TypeCorrect == Spec => []TypeOK
<1>1. AccountingInv => TypeOK
  BY MaxLinksAssumption DEF AccountingInv, Types, LoopTypes8, TypeOK, LoopTypes
<1> QED
  BY <1>1, AccountingInductive, PTL

\* conn2_count never falls below the number of engineers, so it never wraps,
\* and max_conn2_count passes the table by at most one.
THEOREM AccountingCorrect == Spec => []Accounting
BY AccountingInductive, PTL DEF AccountingInv

\* An engineer that takes an entry is one the loops reach.
THEOREM NewLinkServedCorrect == Spec => NewLinkServed
<1>1. AccountingInv /\ [Next]_vars =>
        [\A i \in Slots : i \notin Used /\ i \in Used' => i \in Visible']_vars
  BY AccountingStep DEF Grows
<1> QED
  BY <1>1, AccountingInductive, PTL DEF Spec, NewLinkServed

\* What a step may do to the engineers the loops reach.
Hides ==
  \A i \in Visible : i \in Used' /\ i \notin Visible' =>
     /\ pc \in {"forward", "eng_data"}
     /\ i = max_conn2_count - 1
     /\ \E j \in Visible : j < i /\ j \notin Used'

\* A failed send or end of file lowers the bound by one at most.
LEMMA CloseHides ==
  ASSUME TableTypes, MaxLinks \in Nat, NEW j \in Visible, CloseAndCount(j),
         pc \in {"forward", "eng_data"}, 1 <= max_conn2_count
  PROVE  Hides
<1>1. j \notin Used'
  BY ConnValues DEF CloseAndCount, TableTypes, Visible, Used
<1>2. max_conn2_count' \in {max_conn2_count, max_conn2_count - 1}
  BY DEF CloseAndCount, TableTypes, Dec8
<1> SUFFICES ASSUME NEW i \in Visible, i \in Used', i \notin Visible'
             PROVE  i = max_conn2_count - 1 /\ j < i
  BY <1>1 DEF Hides
<1>3. ~(i < max_conn2_count')
  BY DEF Visible
<1>4. i \in Int /\ j \in Int /\ i < max_conn2_count /\ j < max_conn2_count
  BY DEF Visible, Used, Slots
<1>5. max_conn2_count \in Int /\ i # j
  BY <1>1 DEF TableTypes
<1> QED
  BY <1>2, <1>3, <1>4, <1>5

LEMMA HidingStep == AccountingInv /\ [Next]_vars => Hides
<1> SUFFICES ASSUME Types, TableTypes, Accounting, [Next]_vars PROVE Hides
  BY DEF AccountingInv, Types
<1> USE MaxLinksAssumption
<1>1. ASSUME max_conn2_count' \in Int, max_conn2_count <= max_conn2_count'
      PROVE  Hides
  BY <1>1 DEF Hides, Visible, Used, Slots, TableTypes
<1>2. ASSUME UNCHANGED max_conn2_count PROVE Hides
  BY <1>1, <1>2 DEF TableTypes
<1>3. CASE TopStep
  <2>1. ASSUME NEW j \in Used, DropLink(j) PROVE Hides
    <3>1. j \notin Used'
      BY <2>1, ConnValues DEF DropLink, TableTypes, Used
    <3>2. \/ UNCHANGED max_conn2_count
          \/ j = max_conn2_count - 1 /\ max_conn2_count' = max_conn2_count - 1
      BY <2>1 DEF DropLink, Dec8, TableTypes, Used, Slots
    <3>3. CASE j = max_conn2_count - 1 /\ max_conn2_count' = max_conn2_count - 1
      BY <3>1, <3>3 DEF Hides, Visible, Used, Slots, TableTypes
    <3> QED
      BY <1>2, <3>2, <3>3
  <2>2. CASE DropEngineer
    BY <1>2, <2>1, <2>2 DEF DropEngineer
  <2> QED
    BY <1>2, <1>3, <2>2 DEF TopStep, StartDrops, EndDrops, NoDrops, EnterSelect,
                            slotVars
<1>4. CASE Reap \/ Tick \/ SelectReady \/ SelectTimeout
  BY <1>2, <1>4 DEF Reap, Tick, SelectReady, SelectTimeout, slotVars
<1>5. CASE UserStep
  BY <1>2, <1>5 DEF UserStep, UserUdpFails, UserUdp, SkipUserUdp, UserAccept,
                    SkipUserAccept, UserTcp, SkipUserTcp, slotVars
<1>6. ASSUME NEW c \in Conn, NEW i \in Slots, Allocate(i, c) PROVE Hides
  <2>1. max_conn2_count' \in Int /\ max_conn2_count <= max_conn2_count'
    BY <1>6 DEF Allocate, MAX, Inc8, TableTypes
  <2> QED
    BY <1>1, <2>1
<1>7. ASSUME idx < max_conn2_count, idx \in Used, CloseAndCount(idx),
             pc \in {"forward", "eng_data"}
      PROVE  Hides
  <2>1. idx \in Visible /\ 1 <= max_conn2_count
    BY <1>7 DEF Visible, Used, Slots, TableTypes
  <2> QED
    BY <1>7, <2>1, CloseHides
<1>8. CASE ForwardStep \/ BeyondTable
  BY <1>2, <1>7, <1>8 DEF ForwardStep, ForwardSent, ForwardFailed, ForwardCrashes,
                          ForwardDone, BeyondTable, slotVars
<1>9. CASE EngUdpStep
  BY <1>2, <1>6, <1>9, ConnValues DEF EngUdpStep, EngUdpKnown, EngUdpNew,
                          EngUdpFull, EngUdpFails, SkipEngUdp, slotVars
<1>10. CASE EngTcpStep
  BY <1>2, <1>6, <1>7, <1>10, ConnValues DEF EngTcpStep, EngAccept, EngRefused,
                          SkipEngAccept, EngData, EngEof, EngNoData, EngDone,
                          HasData, slotVars
<1>11. CASE Sigusr1 \/ Sigterm \/ Gone \/ UNCHANGED vars
  BY <1>2, <1>11 DEF Sigusr1, Sigterm, Gone, vars, slotVars
<1> QED
  BY <1>3, <1>4, <1>5, <1>8, <1>9, <1>10, <1>11 DEF Next, Running

\* Only a failed send or end of file of a lower engineer hides one that stays.
THEOREM HiddenOnlyByCloseCorrect == Spec => HiddenOnlyByClose
<1>1. AccountingInv /\ [Next]_vars =>
        [\A i \in Visible : i \in Used' /\ i \notin Visible' =>
            /\ pc \in {"forward", "eng_data"}
            /\ i = max_conn2_count - 1
            /\ \E j \in Visible : j < i /\ j \notin Used']_vars
  BY HidingStep DEF Hides
<1> QED
  BY <1>1, AccountingInductive, PTL DEF Spec, HiddenOnlyByClose

----------------------------------------------------------------------------
(* The user side *)

\* UserLink alone is not inductive: that only a connected user's TCP socket is
\* read rests on the accept block running first in the same iteration.
UserLinkInv ==
  /\ Types /\ UserLink
  /\ pc = "user_tcp" /\ UserTcpReady => have_conn1

\* The user side is one link, by UDP or by TCP, and a WebSocket only over TCP.
THEOREM UserLinkCorrect == Spec => []UserLink
<1>1. Init => UserLinkInv
  BY InitTypes DEF Init, UserLinkInv, UserLink
<1>2. UserLinkInv /\ [Next]_vars => UserLinkInv'
  <2> SUFFICES ASSUME Types, UserLink, [Next]_vars,
                      pc = "user_tcp" /\ UserTcpReady => have_conn1
               PROVE  UserLink' /\ (pc' = "user_tcp" /\ UserTcpReady' => have_conn1')
    BY LoopTyped, UserTyped, TableTyped DEF UserLinkInv, Types
  <2> USE DEF UserLink, UserTcpReady, Types, UserTypes, UserSocks
  <2>1. CASE TopStep \/ Reap \/ SelectReady \/ SelectTimeout \/ Sigusr1 \/ Sigterm
    BY <2>1 DEF TopStep, StartDrops, DropEngineer, EndDrops, NoDrops, EnterSelect,
                Reap, SelectReady, SelectTimeout, Sigusr1, Sigterm, userVars
  <2>2. CASE Tick
    BY <2>2 DEF Tick
  <2>3. CASE UserUdpFails \/ UserUdp \/ SkipUserUdp
    <3>1. ASSUME UserUdp \/ UserUdpFails
          PROVE  sock1' = {"udp"} /\ ~ws1' /\ mavws1' # "own"
      <4>1. "udp" \in sock1 /\ sock1' = sock1 \ {"tcp"}
        BY <3>1 DEF UserUdp, UserUdpFails
      <4>2. ~ws1 /\ mavws1 # "own"
        BY <4>1
      <4>3. ws1' = ws1 /\ mavws1' = mavws1
        BY <3>1 DEF UserUdp, UserUdpFails
      <4> QED
        BY <4>1, <4>2, <4>3
    <3>2. UserUdp \/ UserUdpFails => pc' \in {"forward", "eng_udp", "exited", "crashed"}
      BY DEF UserUdp, UserUdpFails, Consume
    <3>3. CASE UserUdp \/ UserUdpFails
      BY <3>1, <3>2, <3>3
    <3> QED
      BY <2>3, <3>3 DEF SkipUserUdp, userVars
  <2>4. CASE UserAccept \/ SkipUserAccept
    <3>1. UserAccept => sock1' = {"tcp"}
      BY DEF UserAccept
    <3>2. CASE UserAccept
      BY <3>1, <3>2 DEF UserAccept
    <3> QED
      BY <2>4, <3>2 DEF SkipUserAccept, userVars
  <2>5. CASE UserTcp \/ SkipUserTcp
    <3>1. UserTcp => sock1' = {"tcp"} /\ have_conn1
      BY DEF UserTcp
    <3>2. CASE UserTcp
      BY <3>1, <3>2 DEF UserTcp, Consume
    <3> QED
      BY <2>5, <3>2 DEF SkipUserTcp, userVars
  <2>6. CASE ForwardStep \/ BeyondTable
    BY <2>6 DEF ForwardStep, ForwardSent, ForwardFailed, ForwardCrashes,
                ForwardDone, BeyondTable, AfterForward, userVars
  <2>7. CASE EngUdpStep
    BY <2>7 DEF EngUdpStep, EngUdpKnown, EngUdpNew, EngUdpFull, EngUdpFails,
                SkipEngUdp, ToUser, userVars
  <2>8. CASE EngTcpStep
    BY <2>8 DEF EngTcpStep, EngAccept, EngRefused, SkipEngAccept, EngData, EngEof,
                EngNoData, EngDone, userVars
  <2>9. CASE Gone \/ UNCHANGED vars
    BY <2>9 DEF Gone, vars, loopVars, userVars
  <2> QED
    BY <2>1, <2>2, <2>3, <2>4, <2>5, <2>6, <2>7, <2>8, <2>9
       DEF Next, Running, UserStep
<1> QED
  BY <1>1, <1>2, PTL DEF Spec, UserLinkInv
=============================================================================
