---------------------------- MODULE ProxySession ----------------------------
(***************************************************************************)
(* One forked SupportProxy child: main_loop() of supportproxy.cpp, which   *)
(* serves one port pair.  The user (vehicle) side is one UDP or TCP link;  *)
(* the support-engineer side is the table conn2[MAX_COMM2_LINKS] of UDP    *)
(* and TCP links, with the two uint8_t counters conn2_count and            *)
(* max_conn2_count that decide which part of the table the loop looks at.  *)
(*                                                                         *)
(* The body of the loop is a state machine over pc, one value for each     *)
(* block of the source.  The environment chooses which descriptors select  *)
(* reports, which calls fail, when SIGUSR1 arrives and when time passes.   *)
(***************************************************************************)
EXTENDS Integers, FiniteSets

CONSTANTS
  MaxLinks,   \* MAX_COMM2_LINKS, the size of conn2[]
  UdpPeers,   \* source addresses of UDP support engineers
  Timeout,    \* the 10 s of silence, and of select(), in clock ticks
  Recording   \* binlog_enabled || tlog_enabled

ASSUME MaxLinksAssumption == MaxLinks \in 1..250   \* uint8_t loop indices
ASSUME TimeoutAssumption == Timeout \in Nat \ {0}
ASSUME RecordingAssumption == Recording \in BOOLEAN

NoPeer == "nopeer"
ASSUME PeersAssumption == NoPeer \notin UdpPeers

VARIABLES
  pc,               \* the block of the loop about to run
  drops,            \* g_drops_pending
  todo,             \* flagged connection indices process_drops still has to do
  ready,            \* descriptors select() reported, still to be served
  idx,              \* the index of the running for-loop over conn2
  idle,             \* ticks this call of select() has waited
  sock1,            \* which of sock1_udp, sock1_tcp are open
  have_conn1,       \* the user has connected
  got1,             \* count1 # 0
  age1,             \* now - last_pkt1, saturating
  ws1,              \* p->ws is set
  mavws1,           \* mav1.ws
  conn2,            \* the engineer table
  mavws,            \* conn2[i].mav.ws
  conn2_count, max_conn2_count

loopVars == <<pc, drops, todo, ready, idx, idle>>
userVars == <<sock1, have_conn1, got1, age1, ws1, mavws1>>
slotVars == <<conn2, mavws, conn2_count, max_conn2_count>>
vars == <<loopVars, userVars, slotVars>>

Slots == 0..(MaxLinks - 1)
Ages  == 0..(Timeout + 1)
UserSocks == {"udp", "tcp"}
\* Descriptors of the FD_SET: the user sockets, the engineers' UDP socket and
\* TCP listener, and the TCP slots by index.
Fds == [sock : UserSocks \union {"eng_udp", "listen"}] \union [slot : Slots]
Sock(s) == [sock |-> s]
Link(i) == [slot |-> i]

\* A MAVLink object's WebSocket pointer: null, the WebSocket of the connection
\* it now serves, the deleted WebSocket of an earlier connection of the entry,
\* or an indeterminate value (mavlink.h declares ws without an initialiser).
WsPointers == {"null", "own", "dangling", "wild"}
Invalid == {"dangling", "wild"}

Blocks == {"top", "drops", "fdset", "select", "reap", "user_udp", "forward",
           "eng_udp", "user_accept", "user_tcp", "eng_accept", "eng_data",
           "exited", "bug", "crashed"}
Ended == pc \in {"exited", "bug", "crashed"}

\* A Connection2.  What close() leaves in an unused entry is never read.
Conn == [used : BOOLEAN, is_udp : BOOLEAN, from : UdpPeers \union {NoPeer},
         age : Ages, ws : BOOLEAN, tcp_active : BOOLEAN]
Free == [used |-> FALSE, is_udp |-> FALSE, from |-> NoPeer,
         age |-> 0, ws |-> FALSE, tcp_active |-> FALSE]

Used == {i \in Slots : conn2[i].used}
\* What every loop over the table sees: i < max_conn2_count.
Visible == {i \in Used : i < max_conn2_count}

\* uint8_t arithmetic of the two counters
Inc8(n) == IF n = 255 THEN 0 ELSE n + 1
Dec8(n) == IF n = 0 THEN 255 ELSE n - 1
MAX(a, b) == IF a > b THEN a ELSE b

Init ==
  /\ pc = "top" /\ drops = FALSE /\ todo = {} /\ ready = {} /\ idx = 0
  /\ idle = 0
  /\ sock1 \in SUBSET UserSocks /\ have_conn1 = FALSE /\ got1 = FALSE /\ age1 = 0
  /\ ws1 = FALSE
  /\ conn2 = [i \in Slots |-> Free]
  /\ mavws1 \in {"null", "wild"}
  /\ mavws \in [Slots -> {"null", "wild"}]
  /\ conn2_count = 0 /\ max_conn2_count = 0

----------------------------------------------------------------------------
(* Opening and closing entries of the table *)

\* Connection2::close() followed by the bookkeeping of the send-failure and
\* end-of-file paths.
CloseAndCount(i) ==
  /\ conn2' = [conn2 EXCEPT ![i] = Free]
  /\ max_conn2_count' = IF conn2_count = max_conn2_count
                        THEN Dec8(max_conn2_count) ELSE max_conn2_count
  /\ conn2_count' = Dec8(conn2_count)

\* The first entry that is not in use.
FirstFree(i) == ~conn2[i].used /\ \A j \in Slots : j < i => conn2[j].used

\* close() has deleted the WebSocket and mav.init() does not touch mav.ws.
Inherit(p) == IF p = "own" THEN "dangling" ELSE p

\* Mutants of Allocate: conn2_count++ forgotten; the bound not raised.
AllocateUncounted(i, c) ==
  /\ conn2' = [conn2 EXCEPT ![i] = c]
  /\ mavws' = [mavws EXCEPT ![i] = Inherit(@)]
  /\ UNCHANGED conn2_count
  /\ max_conn2_count' = MAX(max_conn2_count, Inc8(conn2_count))
AllocateUnbounded(i, c) ==
  /\ conn2' = [conn2 EXCEPT ![i] = c]
  /\ mavws' = [mavws EXCEPT ![i] = Inherit(@)]
  /\ conn2_count' = Inc8(conn2_count)
  /\ max_conn2_count' = MAX(max_conn2_count, conn2_count)
\* A new engineer takes entry i.
Allocate(i, c) ==
  /\ conn2' = [conn2 EXCEPT ![i] = c]
  /\ mavws' = [mavws EXCEPT ![i] = Inherit(@)]
  /\ conn2_count' = Inc8(conn2_count)
  /\ max_conn2_count' = MAX(max_conn2_count, Inc8(conn2_count))

UdpConn(peer) == [used |-> TRUE, is_udp |-> TRUE, from |-> peer,
                  age |-> 0, ws |-> FALSE, tcp_active |-> TRUE]
TcpConn == [used |-> TRUE, is_udp |-> FALSE, from |-> NoPeer,
            age |-> 0, ws |-> FALSE, tcp_active |-> FALSE]

----------------------------------------------------------------------------
(* Top of the loop: drop requests, the silent-user check, select() *)

\* sigusr1_handler(); a select() in progress returns EINTR and the loop
\* continues at the top, also when the flag was set already.
Sigusr1 ==
  /\ ~Ended /\ (drops => pc = "select")
  /\ drops' = TRUE
  /\ pc' = IF pc = "select" THEN "top" ELSE pc
  /\ idle' = 0
  /\ UNCHANGED <<todo, ready, idx, userVars, slotVars>>

\* The parent sends SIGTERM when the pair is removed or its port1 changes.  What
\* the loop has done by then is the same at any point of an iteration.
Sigterm ==
  /\ pc = "select"
  /\ pc' = "exited"
  /\ UNCHANGED <<drops, todo, ready, idx, idle, userVars, slotVars>>

\* process_drops() reads and deletes the flagged records of connections.tdb:
\* any set of indices up to MAX_COMM2_LINKS (a record may outlive what it
\* names), and none when the database cannot be opened.
StartDrops ==
  /\ pc = "top" /\ drops
  /\ drops' = FALSE
  /\ todo' \in SUBSET (0..MaxLinks)
  /\ pc' = "drops"
  /\ UNCHANGED <<ready, idx, idle, userVars, slotVars>>

\* Mutant of DropLink: the rule of the other paths, which compare the count.
DropLinkByCount(i) ==
  /\ conn2' = [conn2 EXCEPT ![i] = Free]
  /\ conn2_count' = IF conn2_count > 0 THEN Dec8(conn2_count) ELSE conn2_count
  /\ max_conn2_count' = IF conn2_count = max_conn2_count THEN Dec8(max_conn2_count)
                                                         ELSE max_conn2_count
\* c2.close() and the bookkeeping of a requested drop, which compares the
\* index, not the count, with max_conn2_count.
DropLink(i) ==
  /\ conn2' = [conn2 EXCEPT ![i] = Free]
  /\ conn2_count' = IF conn2_count > 0 THEN Dec8(conn2_count) ELSE conn2_count
  /\ max_conn2_count' = IF i + 1 = max_conn2_count THEN Dec8(max_conn2_count)
                                                   ELSE max_conn2_count

\* One requested engineer; the traversal order of the database is arbitrary.
DropEngineer ==
  /\ pc = "drops"
  /\ \E n \in todo \ {0} :
        /\ todo' = todo \ {n}
        /\ \/ n - 1 \in Used /\ DropLink(n - 1)
           \/ n - 1 \notin Used
              /\ UNCHANGED <<conn2, conn2_count, max_conn2_count>>
  /\ UNCHANGED <<pc, drops, ready, idx, idle, userVars, mavws>>

\* Index 0 is the user: the session ends.
EndDrops ==
  /\ pc = "drops" /\ todo \subseteq {0}
  /\ todo' = {}
  /\ pc' = IF 0 \in todo THEN "exited" ELSE "fdset"
  /\ UNCHANGED <<drops, ready, idx, idle, userVars, slotVars>>

\* Mutant of NoDrops: requests wait until a user has connected.
NoDropsYet ==
  /\ pc = "top" /\ (drops => ~have_conn1)
  /\ pc' = "fdset"
  /\ UNCHANGED <<drops, todo, ready, idx, idle, userVars, slotVars>>
NoDrops ==
  /\ pc = "top" /\ ~drops
  /\ pc' = "fdset"
  /\ UNCHANGED <<drops, todo, ready, idx, idle, userVars, slotVars>>

UserSilent == have_conn1 /\ age1 > Timeout

\* Mutant of EnterSelect: the silent-user check forgotten.
EnterSelectUnchecked ==
  /\ pc = "fdset"
  /\ pc' = "select"
  /\ UNCHANGED <<drops, todo, ready, idx, idle, userVars, slotVars>>
\* The silent-user check and the FD_SETs.  A signal that arrives after the
\* test of g_drops_pending and before select() interrupts nothing.
EnterSelect ==
  /\ pc = "fdset"
  /\ pc' = IF UserSilent THEN "exited" ELSE "select"
  /\ UNCHANGED <<drops, todo, ready, idx, idle, userVars, slotVars>>

\* TCP entries have a descriptor of their own, UDP entries have sock = -1.
Watched == {Sock(s) : s \in sock1 \union {"eng_udp", "listen"}}
           \union {Link(i) : i \in {j \in Visible : ~conn2[j].is_udp}}

\* Mutant of SelectReady: no assertion, the loop goes on beyond the table.
SelectReadyUnasserted ==
  /\ pc = "select"
  /\ \E R \in SUBSET Watched \ {{}} : ready' = R
  /\ pc' = "reap"
  /\ idle' = 0
  /\ UNCHANGED <<drops, todo, idx, userVars, slotVars>>
\* select() returns with something to do; the assertion on max_conn2_count.
SelectReady ==
  /\ pc = "select"
  /\ \E R \in SUBSET Watched \ {{}} : ready' = R
  /\ pc' = IF max_conn2_count > MaxLinks THEN "bug" ELSE "reap"
  /\ idle' = 0
  /\ UNCHANGED <<drops, todo, idx, userVars, slotVars>>

\* select() returns 0 after 10 s without any event.
SelectTimeout ==
  /\ pc = "select" /\ idle >= Timeout
  /\ pc' = "exited"
  /\ UNCHANGED <<drops, todo, ready, idx, idle, userVars, slotVars>>

Older(a) == IF a > Timeout THEN a ELSE a + 1
\* TCP entries never time out.
Aged(c) == IF c.used /\ c.is_udp THEN [c EXCEPT !.age = Older(c.age)] ELSE c

\* Time passes while the process waits in select().
Tick ==
  /\ pc = "select" /\ idle < Timeout
  /\ idle' = idle + 1
  /\ age1' = IF have_conn1 THEN Older(age1) ELSE age1
  /\ conn2' = [i \in Slots |-> Aged(conn2[i])]
  /\ UNCHANGED <<pc, drops, todo, ready, idx, sock1, have_conn1, got1, ws1,
                 mavws1, mavws, conn2_count, max_conn2_count>>

Dead(i) == i \in Visible /\ conn2[i].is_udp /\ conn2[i].age > Timeout

\* Mutant of Reap: dead engineers are looked for only while a user is there.
ReapWithUser ==
  /\ pc = "reap"
  /\ conn2' = [i \in Slots |-> IF have_conn1 /\ Dead(i) THEN Free ELSE conn2[i]]
  /\ pc' = "user_udp"
  /\ UNCHANGED <<drops, todo, ready, idx, idle, userVars, mavws, conn2_count,
                 max_conn2_count>>
\* "check for dead UDP conn2": the entries are closed, the counters stay.
Reap ==
  /\ pc = "reap"
  /\ conn2' = [i \in Slots |-> IF Dead(i) THEN Free ELSE conn2[i]]
  /\ pc' = "user_udp"
  /\ UNCHANGED <<drops, todo, ready, idx, idle, userVars, mavws, conn2_count,
                 max_conn2_count>>

----------------------------------------------------------------------------
(* User data, and forwarding it to the engineers *)

\* Bytes are parsed only when someone needs them.  Every message that is
\* neither withheld nor stripped starts a pass over the table.  A message with
\* a bad signature is answered by mav_printf(), through the pointer ws.
Consume(next, ws) ==
  \/ pc' = next
  \/ /\ conn2_count > 0 \/ Recording
     /\ \/ pc' = "forward"
        \/ ws \in Invalid /\ pc' = "crashed"

\* recvfrom() or, for the first datagram, connect() fails: the session ends.
UserUdpFails ==
  /\ pc = "user_udp" /\ "udp" \in sock1 /\ Sock("udp") \in ready
  /\ sock1' = sock1 \ {"tcp"}
  /\ pc' = "exited"
  /\ ready' = ready \ {Sock("udp"), Sock("tcp")}
  /\ UNCHANGED <<drops, todo, idx, idle, have_conn1, got1, age1, ws1, mavws1,
                 slotVars>>

\* Mutant of UserUdp: sock1_tcp is left open.
UserUdpKeepsTcp ==
  /\ pc = "user_udp" /\ "udp" \in sock1 /\ Sock("udp") \in ready
  /\ age1' = 0 /\ got1' = TRUE /\ have_conn1' = TRUE
  /\ idx' = 0
  /\ Consume("eng_udp", mavws1)
  /\ ready' = ready \ {Sock("udp")}
  /\ UNCHANGED <<drops, todo, idle, sock1, ws1, mavws1, slotVars>>
UserUdp ==
  /\ pc = "user_udp" /\ "udp" \in sock1 /\ Sock("udp") \in ready
  /\ sock1' = sock1 \ {"tcp"}
  /\ age1' = 0 /\ got1' = TRUE /\ have_conn1' = TRUE
  /\ idx' = 0
  /\ Consume("eng_udp", mavws1)
  /\ ready' = ready \ {Sock("udp"), Sock("tcp")}
  /\ UNCHANGED <<drops, todo, idle, ws1, mavws1, slotVars>>

SkipUserUdp ==
  /\ pc = "user_udp" /\ ~("udp" \in sock1 /\ Sock("udp") \in ready)
  /\ pc' = "eng_udp"
  /\ UNCHANGED <<drops, todo, ready, idx, idle, userVars, slotVars>>

\* The block that follows a forwarding pass: the UDP and the TCP user paths
\* run the same loop.
AfterForward == IF "udp" \in sock1 THEN "eng_udp" ELSE "eng_accept"

\* send_message() to entry idx returns true: sent, withheld until the engineer
\* has signed, or dropped because the socket is congested.  An entry not in
\* use is skipped.  On the UDP user path the result for a UDP engineer is
\* ignored.
ForwardSent ==
  /\ pc = "forward" /\ idx < max_conn2_count /\ idx \in Slots
  /\ idx' = idx + 1
  /\ UNCHANGED <<pc, drops, todo, ready, idle, userVars, slotVars>>

\* send_message() returns false: the entry is closed.
ForwardFailed ==
  /\ pc = "forward" /\ idx < max_conn2_count /\ idx \in Used
  /\ conn2[idx].is_udp => "tcp" \in sock1
  /\ CloseAndCount(idx)
  /\ idx' = idx + 1
  /\ UNCHANGED <<pc, drops, todo, ready, idle, userVars, mavws>>

\* send_data() goes through a WebSocket pointer that is not this
\* connection's: the call may do anything the two actions above do, or crash.
ForwardCrashes ==
  /\ pc = "forward" /\ idx < max_conn2_count /\ idx \in Used
  /\ mavws[idx] \in Invalid
  /\ pc' = "crashed"
  /\ UNCHANGED <<drops, todo, ready, idx, idle, userVars, slotVars>>

\* The loop index runs past conn2[]: what is there may look unused, or not.
BeyondTable ==
  /\ pc \in {"forward", "eng_data"}
  /\ idx < max_conn2_count /\ idx \notin Slots
  /\ \/ idx' = idx + 1 /\ UNCHANGED pc
     \/ pc' = "crashed" /\ UNCHANGED idx
  /\ UNCHANGED <<drops, todo, ready, idle, userVars, slotVars>>

\* End of a pass; the buffer may hold another message.
ForwardDone ==
  /\ pc = "forward" /\ idx >= max_conn2_count
  /\ idx' = 0
  /\ pc' \in {"forward", AfterForward}
  /\ UNCHANGED <<drops, todo, ready, idle, userVars, slotVars>>

----------------------------------------------------------------------------
(* UDP engineer data *)

Heard(c) == [c EXCEPT !.age = 0]
Knows(i, peer) == i \in Visible /\ conn2[i].is_udp /\ conn2[i].from = peer

\* What the messages of an engineer's packet do on the user link: nothing, all
\* sent, or a failed send.  Sending goes through the user's WebSocket pointer,
\* the answer to a bad signature through ws, the engineer's own.
ToUser(ws) ==
  \/ pc' = "user_accept"
  \/ have_conn1 /\ pc' = "exited"
  \/ have_conn1 /\ Invalid \intersect {ws, mavws1} # {} /\ pc' = "crashed"

EngUdpKnown ==
  /\ pc = "eng_udp" /\ Sock("eng_udp") \in ready
  /\ \E peer \in UdpPeers, i \in Slots :
        /\ Knows(i, peer) /\ \A j \in Slots : j < i => ~Knows(j, peer)
        /\ conn2' = [conn2 EXCEPT ![i] = Heard(@)]
        /\ ToUser(mavws[i])
  /\ ready' = ready \ {Sock("eng_udp")}
  /\ UNCHANGED <<drops, todo, idx, idle, userVars, mavws, conn2_count,
                 max_conn2_count>>

EngUdpNew ==
  /\ pc = "eng_udp" /\ Sock("eng_udp") \in ready
  /\ \E peer \in UdpPeers, i \in Slots :
        /\ \A j \in Slots : ~Knows(j, peer)
        /\ FirstFree(i)
        /\ Allocate(i, UdpConn(peer))
        /\ ToUser(Inherit(mavws[i]))
  /\ ready' = ready \ {Sock("eng_udp")}
  /\ UNCHANGED <<drops, todo, idx, idle, userVars>>

\* No entry for this peer and none free: the datagram is ignored.
EngUdpFull ==
  /\ pc = "eng_udp" /\ Sock("eng_udp") \in ready
  /\ Used = Slots /\ \E peer \in UdpPeers : \A j \in Slots : ~Knows(j, peer)
  /\ pc' = "user_accept"
  /\ ready' = ready \ {Sock("eng_udp")}
  /\ UNCHANGED <<drops, todo, idx, idle, userVars, slotVars>>

EngUdpFails ==
  /\ pc = "eng_udp" /\ Sock("eng_udp") \in ready
  /\ pc' = "exited"
  /\ ready' = ready \ {Sock("eng_udp")}
  /\ UNCHANGED <<drops, todo, idx, idle, userVars, slotVars>>

SkipEngUdp ==
  /\ pc = "eng_udp" /\ Sock("eng_udp") \notin ready
  /\ pc' = "user_accept"
  /\ UNCHANGED <<drops, todo, ready, idx, idle, userVars, slotVars>>

----------------------------------------------------------------------------
(* TCP user: accept, then data *)

UserTcpReady == "tcp" \in sock1 /\ Sock("tcp") \in ready

UserAccept ==
  /\ pc = "user_accept" /\ ~have_conn1 /\ UserTcpReady
  /\ sock1' = sock1 \ {"udp"}
  /\ \/ /\ have_conn1' = TRUE /\ age1' = 0
        /\ pc' = "top"
     \/ /\ pc' = "exited"
        /\ UNCHANGED <<have_conn1, age1>>
  /\ ready' = {}
  /\ UNCHANGED <<drops, todo, idx, idle, got1, ws1, mavws1, slotVars>>

SkipUserAccept ==
  /\ pc = "user_accept" /\ ~(~have_conn1 /\ UserTcpReady)
  /\ pc' = "user_tcp"
  /\ UNCHANGED <<drops, todo, ready, idx, idle, userVars, slotVars>>

\* The first bytes decide whether the link is a WebSocket (an incomplete frame
\* counts as activity); end of file ends the session.
UserTcp ==
  /\ pc = "user_tcp" /\ UserTcpReady
  /\ sock1' = sock1 \ {"udp"}
  /\ \/ UNCHANGED <<ws1, mavws1>>
     \/ ~got1 /\ ws1' = TRUE /\ mavws1' = "own"
  /\ \/ /\ pc' = "exited"
        /\ UNCHANGED <<age1, got1, idx>>
     \/ /\ age1' = 0 /\ got1' = TRUE /\ idx' = 0
        /\ Consume("eng_accept", mavws1')
  /\ ready' = ready \ {Sock("tcp")}
  /\ UNCHANGED <<drops, todo, idle, have_conn1, slotVars>>

SkipUserTcp ==
  /\ pc = "user_tcp" /\ ~UserTcpReady
  /\ pc' = "eng_accept"
  /\ UNCHANGED <<drops, todo, ready, idx, idle, userVars, slotVars>>

----------------------------------------------------------------------------
(* TCP engineers: accept, then data *)

EngAccept ==
  /\ pc = "eng_accept" /\ Sock("listen") \in ready
  /\ conn2_count < MaxLinks
  /\ \E i \in Slots : FirstFree(i) /\ Allocate(i, TcpConn)
  /\ pc' = "top"
  /\ ready' = {}
  /\ UNCHANGED <<drops, todo, idx, idle, userVars>>

\* accept() fails, conn2_count has reached the limit, or the table is full.
EngRefused ==
  /\ pc = "eng_accept" /\ Sock("listen") \in ready
  /\ pc' = "top"
  /\ ready' = {}
  /\ UNCHANGED <<drops, todo, idx, idle, userVars, slotVars>>

SkipEngAccept ==
  /\ pc = "eng_accept" /\ Sock("listen") \notin ready
  /\ pc' = "eng_data" /\ idx' = 0
  /\ UNCHANGED <<drops, todo, ready, idle, userVars, slotVars>>

Received(c, w, complete) ==
  [c EXCEPT !.ws = w, !.tcp_active = c.tcp_active \/ complete]
HasData(i) == i \in Used /\ ~conn2[i].is_udp /\ Link(i) \in ready

\* recv() on entry idx: the first bytes may open a WebSocket; then there is
\* data, or no complete frame yet.  A failed send to the user leaves the for
\* loop, not the session.
EngData ==
  /\ pc = "eng_data" /\ idx < max_conn2_count /\ idx \in Slots /\ HasData(idx)
  /\ \E ws \in {w \in BOOLEAN : /\ conn2[idx].ws => w
                                /\ conn2[idx].tcp_active => w = conn2[idx].ws},
        complete \in BOOLEAN :
        /\ ~complete => ws
        /\ conn2' = [conn2 EXCEPT ![idx] = Received(@, ws, complete)]
        /\ mavws' = IF ws THEN [mavws EXCEPT ![idx] = "own"] ELSE mavws
        /\ \/ /\ pc' = "eng_data" /\ idx' = idx + 1
              /\ ready' = ready \ {Link(idx)}
           \/ /\ complete /\ have_conn1
              /\ pc' = "top" /\ idx' = 0 /\ ready' = {}
           \/ /\ complete /\ have_conn1
              /\ Invalid \intersect {mavws'[idx], mavws1} # {}
              /\ pc' = "crashed" /\ UNCHANGED <<idx, ready>>
  /\ UNCHANGED <<drops, todo, idle, userVars, conn2_count,
                 max_conn2_count>>

\* recv() reports end of file or an error.
EngEof ==
  /\ pc = "eng_data" /\ idx < max_conn2_count /\ idx \in Slots /\ HasData(idx)
  /\ CloseAndCount(idx)
  /\ idx' = idx + 1
  /\ ready' = ready \ {Link(idx)}
  /\ UNCHANGED <<pc, drops, todo, idle, userVars, mavws>>

EngNoData ==
  /\ pc = "eng_data" /\ idx < max_conn2_count /\ idx \in Slots /\ ~HasData(idx)
  /\ idx' = idx + 1
  /\ UNCHANGED <<pc, drops, todo, ready, idle, userVars, slotVars>>

\* End of the iteration.  binlog.tick() may send to the user (it and the
\* connections.tdb snapshot are the subject of BinlogWriter and ConnTdb).
EngDone ==
  /\ pc = "eng_data" /\ idx >= max_conn2_count
  /\ \/ pc' = "top"
     \/ Recording /\ have_conn1 /\ mavws1 \in Invalid /\ pc' = "crashed"
  /\ ready' = {} /\ idx' = 0
  /\ UNCHANGED <<drops, todo, idle, userVars, slotVars>>

----------------------------------------------------------------------------
\* The process is gone; its parent notices with waitpid (Supervisor).
Gone == Ended /\ UNCHANGED vars

TopStep == StartDrops \/ DropEngineer \/ EndDrops \/ NoDrops \/ EnterSelect
UserStep == \/ UserUdpFails \/ UserUdp \/ SkipUserUdp
            \/ UserAccept \/ SkipUserAccept \/ UserTcp \/ SkipUserTcp
ForwardStep == \/ ForwardSent \/ ForwardFailed \/ ForwardCrashes \/ ForwardDone
EngUdpStep == EngUdpKnown \/ EngUdpNew \/ EngUdpFull \/ EngUdpFails \/ SkipEngUdp
EngTcpStep == \/ EngAccept \/ EngRefused \/ SkipEngAccept
              \/ EngData \/ EngEof \/ EngNoData \/ EngDone

Running == \/ TopStep \/ Reap \/ UserStep \/ ForwardStep \/ BeyondTable
           \/ EngUdpStep \/ EngTcpStep

Next == Running \/ SelectReady \/ SelectTimeout \/ Tick \/ Sigusr1 \/ Sigterm
        \/ Gone

\* The process runs whenever it is not waiting in select(), a buffer holds
\* finitely many messages, and the clock advances.  Nothing is assumed of the
\* peers: select() need never report a descriptor.
Fairness ==
  /\ WF_vars(Running)
  /\ SF_vars(ForwardDone /\ pc' # "forward")
  /\ SF_vars(Tick)
  /\ WF_vars(SelectTimeout)

Spec == Init /\ [][Next]_vars /\ Fairness

----------------------------------------------------------------------------
(* Properties *)

LoopTypes ==
  /\ pc \in Blocks /\ drops \in BOOLEAN /\ todo \in SUBSET (0..MaxLinks)
  /\ ready \in SUBSET Fds /\ idx \in 0..(MaxLinks + 1) /\ idle \in Nat
UserTypes ==
  /\ sock1 \in SUBSET UserSocks /\ have_conn1 \in BOOLEAN /\ got1 \in BOOLEAN
  /\ age1 \in Ages /\ ws1 \in BOOLEAN /\ mavws1 \in WsPointers
TableTypes ==
  /\ conn2 \in [Slots -> Conn] /\ mavws \in [Slots -> WsPointers]
  /\ conn2_count \in 0..255 /\ max_conn2_count \in 0..255

\* Every variable of main_loop() keeps its type, and no loop over conn2[] looks
\* further than one entry past the table, although nothing in the loops compares
\* the index with the table: the assertion after select() ends the process before
\* max_conn2_count passes the table by two.
TypeOK == LoopTypes /\ UserTypes /\ TableTypes

\* The counters of main_loop() never fall below what they count and never wrap
\* their uint8_t: every path that decrements conn2_count (a failed send, end
\* of file, a requested drop) finds it positive, whatever the dead-UDP path
\* did to the table before, and max_conn2_count exceeds the table by at most
\* the one entry the assertion after select() looks for.
Accounting ==
  /\ Cardinality(Used) <= conn2_count
  /\ conn2_count <= max_conn2_count
  /\ max_conn2_count <= MaxLinks + 1

\* An engineer that takes an entry of conn2[] is served from then on: its index
\* lies below the max_conn2_count the loops run to, although the entry is the
\* first free one and the bound is computed from conn2_count alone.
NewLinkServed ==
  [][\A i \in Slots : i \notin Used /\ i \in Used' => i \in Visible']_vars

\* The user side is one link: once the user is there, exactly one of the two
\* user sockets is open, and only a TCP user speaks through a WebSocket.
UserLink ==
  /\ have_conn1 => sock1 \in {{"udp"}, {"tcp"}}
  /\ ws1 => have_conn1 /\ sock1 = {"tcp"}
  /\ mavws1 = "own" => ws1

\* An engineer that is served stays served until its own entry is closed, except
\* in one case: a failed send or end of file closes a lower entry.  That step
\* lowers max_conn2_count when the table looks full, and can hide the highest
\* engineer; a requested drop, a timeout and a join never do.
HiddenOnlyByClose ==
  [][\A i \in Visible : i \in Used' /\ i \notin Visible' =>
        /\ pc \in {"forward", "eng_data"}
        /\ i = max_conn2_count - 1
        /\ \E j \in Visible : j < i /\ j \notin Used']_vars

\* "have_conn1 && now - last_pkt1 > 10": a user that has been silent sends
\* again or the session ends, however busy the engineers are and however
\* often SIGUSR1 interrupts select().
SilentUserEnds == (have_conn1 /\ age1 > 0) ~> (Ended \/ age1 = 0)

\* "check for dead UDP conn2": a served UDP engineer that has gone silent is
\* closed, is heard again, or the session ends, unless SIGUSR1 keeps arriving:
\* an interrupted select() goes back to the top of the loop before the check.
DeadEngineerClosed ==
  <>[][drops' => drops]_vars => \A i \in Slots : Dead(i) ~> (Ended \/ ~Dead(i))

\* A drop request is looked at or the session ends, even when SIGUSR1 arrives
\* between the test of g_drops_pending and select().
DropsServed == drops ~> (~drops \/ Ended)
=============================================================================
