-------------------------- MODULE WebSocketBuffer --------------------------
(***************************************************************************)
(* A TCP connection that may be a WebSocket, plain or over TLS: detect(),  *)
(* the request that is answered by the handshake, and frames that come in  *)
(* any pieces and are taken out of pending[1024], one for each time that   *)
(* main_loop() finds the descriptor readable.  Bytes are counted: the peer *)
(* sends a request and then frames, and what is in the network, in the     *)
(* kernel, in OpenSSL and in pending[] are consecutive parts of that.      *)
(* Left out: sending frames, and the handshake of TLS itself.              *)
(***************************************************************************)
EXTENDS Naturals, Sequences, FiniteSets, SequencesExt

CONSTANTS
  Size,      \* what pending[] holds, in the code 1023 bytes
  Request,   \* length of the request
  Prefix,    \* what detect() must see at once of a request, in the code 14 bytes
  Misread,   \* length of the frame that "GE" would start, in the code 71 bytes
  KeyEnd,    \* length of the request up to the end of its Sec-WebSocket-Key line
  Reply,     \* length of the handshake's response
  Lengths,   \* lengths of frames, headers included
  MaxNet     \* bound: bytes that the network and the kernel hold

ASSUME SizeAssumption == Size \in Nat \ {0} /\ Request \in 1..Size /\ Lengths \subseteq 1..Size
ASSUME RequestAssumption == {Prefix, KeyEnd} \subseteq 1..Request /\ Misread \in 1..Size
ASSUME ReplyAssumption == Reply \in Nat \ {0} /\ MaxNet \in Nat /\ Request <= MaxNet

VARIABLES
  mode,     \* "new": no data yet; "raw": plain MAVLink; "made", "ws": a WebSocket,
            \* constructed only or in use; "misread": one that takes a request, or
            \* encrypted bytes, for frames, which the model does not follow; "closed"
  ssl,      \* the connection uses TLS
  request,  \* bytes of the request that check_headers() has not dropped
  ends,     \* where the frames sent and not yet taken end, counted from the first byte
            \* that recv() has not taken
  network,  \* bytes on their way, in TLS also those of an unfinished record
  kernel,   \* bytes that make the descriptor readable
  tls,      \* decrypted bytes that SSL_read() has not returned yet
  npending, \* bytes in pending[]
  done,     \* done_headers
  replied,  \* bytes of the response sent, handshake_sent
  answers   \* history: bytes of the response the peer got

stream == <<request, ends, network, kernel, tls, npending>>
reply == <<done, replied, answers>>
vars == <<mode, ssl, stream, reply>>

Init ==
  /\ mode = "new" /\ ssl \in BOOLEAN
  /\ request = Request /\ ends = <<>> /\ network = Request /\ kernel = 0 /\ tls = 0
  /\ npending = 0 /\ done = FALSE /\ replied = 0 /\ answers = 0

Smallest(a, b) == IF a < b THEN a ELSE b
\* What was sent and not taken.
Bytes == IF ends = <<>> THEN request ELSE Last(ends)

----------------------------------------------------------------------------
(* The peer and the network *)

\* The peer sends frames once it has the whole response.
SendFrame ==
  /\ mode \in {"made", "ws"} /\ answers >= Reply
  /\ \E len \in Lengths :
        /\ network + kernel + len <= MaxNet
        /\ ends' = Append(ends, Bytes + len) /\ network' = network + len
  /\ UNCHANGED <<mode, ssl, request, kernel, tls, npending, reply>>

Arrive ==
  /\ mode # "closed" /\ network > 0
  /\ \E k \in 1..network : network' = network - k /\ kernel' = kernel + k
  /\ UNCHANGED <<mode, ssl, request, ends, tls, npending, reply>>

----------------------------------------------------------------------------
(* Reading.  What a read leaves is a record of the bytes in pending[], in the kernel *)
(* and in OpenSSL. *)

\* Mutant: what is pending is not subtracted.
SpaceAll(np) == Size
\* One byte of the array is kept for the terminating zero.
Space(np) == Size - np

\* fill_pending(): as much as there is room for.  SSL_read() takes a record of any
\* length off the descriptor, and only when it has returned the last one.
Fills ==
  LET space == Space(npending)
      records == IF tls > 0 \/ kernel = 0 THEN {0} ELSE 1..kernel
      k == Smallest(space, kernel)
  IN  IF space = 0 THEN {[np |-> npending, kernel |-> kernel, tls |-> tls]}
      ELSE IF ~ssl THEN {[np |-> npending + k, kernel |-> kernel - k, tls |-> 0]}
      ELSE {LET n == Smallest(space, tls + r) IN
            [np |-> npending + n, kernel |-> kernel - r, tls |-> tls + r - n] : r \in records}

Filled(b) == kernel' = b.kernel /\ tls' = b.tls

\* Mutant: an interrupted response starts again.
SentAgain == 0
\* send_handshake() goes on where send() had no room.
Sent == replied

\* check_headers() with np bytes in pending[]: once the key is there it is answered,
\* and when the answer is out pending[] is emptied.
CheckHeaders(np) ==
  IF done \/ np < KeyEnd THEN UNCHANGED reply
  ELSE \E n \in Sent..Reply :
         /\ replied' = n /\ answers' = answers + n - Sent
         /\ done' = (n = Reply)

\* The length decode() reads at the start of pending[]: "GE" is an unmasked frame.
FrameLen ==
  IF ~done THEN Misread ELSE IF ends # <<>> THEN Head(ends) ELSE Size + 1

\* What is left without the first frame.
NextEnds == [i \in 1..(Len(ends) - 1) |-> ends[i + 1] - Head(ends)]

\* Mutant: one byte more than the frame must be there.
CompleteLate(np) == np > FrameLen
\* decode() returns -1 while bytes are missing.
Complete(np) == np >= FrameLen

\* Mutant: the first byte of the frame's header is not counted.
UsedShort == FrameLen - 1
\* What decode() makes recv() remove.
Used == FrameLen

Emptied(np) == 0

----------------------------------------------------------------------------
(* main_loop() *)

\* The first data: detect() sees the beginning of a request.  Of a TLS handshake it
\* needs 3 bytes; as the handshake's bytes are not counted, either may be the case.
Detected == ssl \/ kernel >= Prefix
Undetected == ssl \/ kernel < Prefix

\* The constructor reads and looks for the key.
Construct ==
  /\ mode = "new" /\ kernel > 0 /\ Detected
  /\ \E b \in Fills :
        /\ Filled(b) /\ CheckHeaders(b.np)
        /\ IF done'
           THEN /\ npending' = Emptied(b.np) /\ request' = request - b.np
                /\ mode' = IF request' > 0 THEN "misread" ELSE "made"
           ELSE mode' = "made" /\ npending' = b.np /\ UNCHANGED request
  /\ UNCHANGED <<ssl, ends, network>>

\* The constructor finds no certificate or key and reads nothing: the connection stays
\* open without an SSL object, and recv() will read what is encrypted as if it were not.
ConstructWithoutTLS ==
  /\ mode = "new" /\ kernel > 0 /\ ssl
  /\ mode' = "misread"
  /\ UNCHANGED <<ssl, stream, reply>>

\* recv(): right after the constructor, and then whenever the descriptor is readable.
Recv ==
  /\ mode = "made" \/ (mode = "ws" /\ kernel > 0)
  /\ \E b \in Fills :
        /\ Filled(b) /\ CheckHeaders(b.np)
        /\ \/ \* the answer is out now
              /\ ~done /\ done'
              /\ npending' = Emptied(b.np) /\ request' = request - b.np
              /\ mode' = IF request' > 0 THEN "misread" ELSE "ws"
              /\ UNCHANGED ends
           \/ \* not a whole frame
              /\ done' => done
              /\ ~Complete(b.np)
              /\ mode' = "ws" /\ npending' = b.np /\ UNCHANGED <<request, ends>>
           \/ \* text of a request without its answer is long enough for a frame
              /\ ~done' /\ Complete(b.np)
              /\ mode' = "misread" /\ npending' = b.np - Used
              /\ UNCHANGED <<request, ends>>
           \/ /\ done /\ Complete(b.np)
              /\ mode' = "ws" /\ npending' = b.np - Used
              /\ ends' = NextEnds /\ UNCHANGED request
  /\ UNCHANGED <<ssl, network>>

\* Plain MAVLink, or a connection of which the first piece was too short for detect().
RecvRaw ==
  /\ kernel > 0
  /\ mode = "raw" \/ (mode = "new" /\ Undetected)
  /\ mode' = "raw" /\ kernel' = 0
  /\ UNCHANGED <<ssl, request, ends, network, tls, npending, reply>>

\* End of file, an error of the socket or of TLS.
Close ==
  /\ mode # "closed"
  /\ mode' = "closed" /\ ends' = <<>> /\ request' = 0 /\ network' = 0
  /\ kernel' = 0 /\ tls' = 0 /\ npending' = 0
  /\ UNCHANGED <<ssl, reply>>

Next ==
  \/ SendFrame \/ Arrive
  \/ Construct \/ ConstructWithoutTLS \/ Recv \/ RecvRaw \/ Close

\* The peer keeps sending, the network delivers, and main_loop() comes round.
Fairness == WF_vars(SendFrame) /\ WF_vars(Arrive) /\ WF_vars(Recv)

Spec == Init /\ [][Next]_vars /\ Fairness

----------------------------------------------------------------------------
(* Properties *)

\* Where frame i starts.
Start(i) == IF i = 1 THEN 0 ELSE ends[i - 1]

\* Frames have lengths that a peer sends; counters stay within what the code's arrays and
\* the bounds hold; pending[] is never filled beyond its last byte but one.
TypeOK ==
  /\ mode \in {"new", "raw", "made", "ws", "misread", "closed"} /\ ssl \in BOOLEAN
  /\ request \in 0..Request /\ ends \in Seq(Nat)
  /\ \A i \in DOMAIN ends : ends[i] - Start(i) \in Lengths
  /\ network \in 0..MaxNet /\ kernel \in 0..MaxNet /\ tls \in 0..MaxNet
  /\ npending \in 0..Size /\ done \in BOOLEAN /\ replied \in 0..Reply /\ answers \in Nat

\* On a WebSocket, what was sent and not taken is in the network, the kernel, OpenSSL
\* or pending[]: recv() loses nothing and takes nothing twice, and decode() stands at
\* the start of a frame.
NothingLost == mode \in {"made", "ws"} => Bytes = network + kernel + tls + npending

\* The peer gets each byte of the response once, however often send() had no room.
AnsweredOnce == answers <= Reply /\ (done => answers = Reply)

\* While the peer keeps sending after the handshake, frames up to the size of the
\* buffer keep coming out of recv(), in whatever pieces they arrive.
KeepsServing ==
  <>[](mode = "ws" /\ done) => []<><<Len(ends') < Len(ends)>>_vars
=============================================================================
