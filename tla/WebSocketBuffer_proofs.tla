----------------------- MODULE WebSocketBuffer_proofs -----------------------
(***************************************************************************)
(* Proofs about WebSocketBuffer, for every size of the buffer, of the      *)
(* request, of its answer and of frames, and any way in which the network, *)
(* the kernel and TLS cut them.  NothingLost is inductive together with    *)
(* the order of the stream (Ordered: no frame before the request is gone)  *)
(* and the accounts of the answer (Answered).                              *)
(***************************************************************************)
EXTENDS WebSocketBuffer, SequenceTheorems, TLAPS

\* No more bytes are on their way than the bound, and OpenSSL holds bytes of TLS only.
Carried == network + kernel <= MaxNet /\ (ssl = FALSE => tls = 0)

\* A frame comes after the whole request, which is gone when its answer is out; a
\* connection without data has an empty buffer and no answer.
Ordered ==
  /\ ends # <<>> => done = TRUE /\ request = 0
  /\ mode \in {"made", "ws"} /\ done = TRUE => request = 0
  /\ mode = "new" => done = FALSE /\ npending = 0 /\ tls = 0

\* The peer has what was sent of the response.
Answered == answers = replied /\ (done = TRUE <=> replied = Reply)

\* Frames follow one another.
Increasing == \A i, j \in DOMAIN ends : i < j => ends[i] < ends[j]

\* NothingLost, from the connection's first byte on.
Conserved == mode \in {"new", "made", "ws"} => Bytes = network + kernel + tls + npending

\* What the constants are, in the form that the steps need.
LEMMA Constants ==
  /\ Size \in Nat \ {0} /\ Request \in Nat \ {0} /\ Request <= Size /\ Request <= MaxNet
  /\ Reply \in Nat \ {0} /\ MaxNet \in Nat /\ Misread \in Nat \ {0}
  /\ \A len \in Lengths : len \in Nat \ {0} /\ len <= Size
BY SizeAssumption, RequestAssumption, ReplyAssumption

\* The numbers of a state, without the sequence.
Numbers ==
  /\ request \in Nat /\ network \in Nat /\ kernel \in Nat /\ tls \in Nat /\ npending \in Nat
  /\ request <= Request /\ network <= MaxNet /\ kernel <= MaxNet /\ tls <= MaxNet
  /\ npending <= Size /\ replied \in Nat /\ replied <= Reply /\ answers \in Nat
Flags == mode \in {"new", "raw", "made", "ws", "misread", "closed"}
         /\ ssl \in BOOLEAN /\ done \in BOOLEAN
Marks == ends \in Seq(Nat) /\ \A i \in DOMAIN ends : ends[i] - Start(i) \in Lengths

\* The inductive invariant: the types and the four accounts.
Inv == Flags /\ Numbers /\ Marks /\ Increasing /\ Carried /\ Ordered /\ Answered /\ Conserved

\* TypeOK in these parts.
LEMMA TypeParts == TypeOK <=> Flags /\ Numbers /\ Marks
BY Constants DEF TypeOK, Flags, Numbers, Marks

----------------------------------------------------------------------------
(* The stream *)

\* What was sent and not taken is a number of bytes.
LEMMA BytesType == ASSUME Numbers, Marks PROVE Bytes \in Nat
BY DEF Bytes, Last, Numbers, Marks

\* One more frame at the end.
LEMMA MarksAppend ==
  ASSUME Numbers, Marks, Increasing, request = 0, NEW len \in Lengths, ends' = Append(ends, Bytes + len),
         request' = request
  PROVE  Marks' /\ Increasing' /\ ends' # <<>> /\ Bytes' = Bytes + len
<1>1. Bytes \in Nat /\ len \in Nat
  BY BytesType, Constants
<1>2. ends \in Seq(Nat) /\ Bytes + len \in Nat
  BY <1>1 DEF Marks
<1>3. /\ ends' \in Seq(Nat) /\ ends' # <<>> /\ Len(ends') = Len(ends) + 1
      /\ \A i \in 1..Len(ends) : ends'[i] = ends[i]
      /\ ends'[Len(ends) + 1] = Bytes + len
  BY <1>2, AppendProperties
<1>4. Bytes' = Bytes + len
  BY <1>3 DEF Bytes, Last
<1>5. ASSUME NEW i \in DOMAIN ends' PROVE ends'[i] - Start(i)' \in Lengths
  <2>1. i \in 1..(Len(ends) + 1) /\ DOMAIN ends = 1..Len(ends) /\ Len(ends) \in Nat
    BY <1>2, <1>3
  <2>2. CASE i <= Len(ends)
    <3>1. ends'[i] = ends[i]
      BY <1>3, <2>1, <2>2
    <3>2. Start(i)' = Start(i)
      <4>1. i # 1 => i - 1 \in 1..Len(ends)
        BY <2>1
      <4> QED BY <1>3, <4>1 DEF Start
    <3> QED BY <2>1, <2>2, <3>1, <3>2 DEF Marks
  <2>3. CASE i = Len(ends) + 1
    <3>1. Start(i)' = Bytes
      <4>1. CASE ends = <<>>
        BY <2>3, <4>1 DEF Bytes, Start
      <4>2. CASE ends # <<>>
        <5>1. i # 1 /\ i - 1 = Len(ends) /\ Len(ends) \in 1..Len(ends)
          BY <1>2, <2>1, <2>3, <4>2, EmptySeq
        <5> QED BY <1>3, <4>2, <5>1 DEF Bytes, Last, Start
      <4> QED BY <4>1, <4>2
    <3> QED BY <1>1, <1>3, <2>3, <3>1
  <2> QED BY <2>1, <2>2, <2>3
<1>6. ASSUME NEW i \in DOMAIN ends', NEW j \in DOMAIN ends', i < j PROVE ends'[i] < ends'[j]
  <2>1. /\ i \in 1..Len(ends) /\ j \in 1..(Len(ends) + 1)
        /\ DOMAIN ends = 1..Len(ends) /\ Len(ends) \in Nat
    BY <1>2, <1>3, <1>6
  <2>2. CASE j <= Len(ends)
    BY <1>3, <1>6, <2>1, <2>2 DEF Increasing
  <2>3. CASE j = Len(ends) + 1
    <3>1. ends'[j] = ends[Len(ends)] + len /\ ends[Len(ends)] \in Nat /\ len > 0
      BY <1>1, <1>2, <1>3, <2>1, <2>3, Constants DEF Bytes, Last
    <3>2. ends[i] <= ends[Len(ends)] /\ ends'[i] = ends[i] /\ ends[i] \in Nat
      BY <1>2, <1>3, <2>1, <3>1 DEF Increasing
    <3> QED BY <1>1, <3>1, <3>2
  <2> QED BY <2>1, <2>2, <2>3
<1> QED BY <1>3, <1>4, <1>5, <1>6 DEF Marks, Increasing

\* The first frame is a length that a peer sends.
LEMMA FirstFrame ==
  ASSUME Marks, ends # <<>>
  PROVE  Head(ends) \in Lengths /\ Head(ends) = ends[1] /\ Len(ends) \in Nat \ {0}
<1>1. Len(ends) \in Nat \ {0} /\ DOMAIN ends = 1..Len(ends) /\ Head(ends) = ends[1]
  BY DEF Marks
<1>2. ends[1] - Start(1) \in Lengths /\ Start(1) = 0 /\ ends[1] \in Nat
  BY <1>1 DEF Marks, Start
<1> QED BY <1>1, <1>2

\* The stream without its first frame.
LEMMA MarksNext ==
  ASSUME Numbers, Marks, Increasing, request = 0, ends # <<>>, ends' = NextEnds, request' = request
  PROVE  Marks' /\ Increasing' /\ Bytes' = Bytes - Head(ends)
<1>1. Head(ends) \in Lengths /\ Head(ends) = ends[1] /\ Len(ends) \in Nat \ {0} /\ Head(ends) \in Nat
  BY FirstFrame, Constants
<1>2. DOMAIN ends = 1..Len(ends) /\ \A i \in 1..Len(ends) : ends[i] \in Nat /\ ends[1] <= ends[i]
  <2>1. DOMAIN ends = 1..Len(ends) /\ \A i \in 1..Len(ends) : ends[i] \in Nat
    BY DEF Marks
  <2> QED BY <1>1, <2>1 DEF Increasing
<1>3. ASSUME NEW i \in 1..(Len(ends) - 1)
      PROVE  ends[i + 1] - Head(ends) \in Nat /\ ends'[i] = ends[i + 1] - Head(ends)
  <2>1. i + 1 \in 1..Len(ends)
    BY <1>1
  <2> QED BY <1>1, <1>2, <2>1 DEF NextEnds
<1>4. ends' = [i \in 1..(Len(ends) - 1) |-> ends[i + 1] - Head(ends)] /\ Len(ends) - 1 \in Nat
  BY <1>1 DEF NextEnds
<1>5. ends' \in Seq(Nat) /\ Len(ends') = Len(ends) - 1 /\ DOMAIN ends' = 1..(Len(ends) - 1)
  BY <1>3, <1>4
<1>6. ASSUME NEW i \in DOMAIN ends' PROVE ends'[i] - Start(i)' \in Lengths
  <2>1. i \in 1..(Len(ends) - 1) /\ i + 1 \in DOMAIN ends /\ ends[i + 1] - Start(i + 1) \in Lengths
    BY <1>1, <1>2, <1>5 DEF Marks
  <2>2. Start(i + 1) = ends[i] /\ ends[i] \in Nat /\ ends[i + 1] \in Nat
    BY <1>1, <1>2, <2>1 DEF Start
  <2>3. Start(i)' = ends[i] - Head(ends)
    <3>1. CASE i = 1
      BY <1>1, <2>2, <3>1 DEF Start
    <3>2. CASE i # 1
      <4>1. i - 1 \in 1..(Len(ends) - 1) /\ (i - 1) + 1 = i
        BY <1>1, <2>1, <3>2
      <4> QED BY <1>3, <3>2, <4>1 DEF Start
    <3> QED BY <3>1, <3>2
  <2>4. ends'[i] - Start(i)' = ends[i + 1] - ends[i]
    <3>1. ends'[i] = ends[i + 1] - Head(ends)
      BY <1>3, <2>1
    <3> QED BY <1>1, <2>2, <2>3, <3>1
  <2> QED BY <2>1, <2>2, <2>4
<1>7. ASSUME NEW i \in DOMAIN ends', NEW j \in DOMAIN ends', i < j PROVE ends'[i] < ends'[j]
  <2>1. i + 1 \in DOMAIN ends /\ j + 1 \in DOMAIN ends /\ i + 1 < j + 1
    BY <1>1, <1>2, <1>5, <1>7
  <2>2. ends[i + 1] < ends[j + 1] /\ ends[i + 1] \in Nat /\ ends[j + 1] \in Nat
    BY <1>2, <2>1 DEF Increasing
  <2>3. ends'[i] = ends[i + 1] - Head(ends) /\ ends'[j] = ends[j + 1] - Head(ends)
    BY <1>3, <1>5
  <2> QED BY <1>1, <2>2, <2>3
<1>8. Bytes' = Bytes - Head(ends)
  <2>1. Bytes = ends[Len(ends)] /\ ends[Len(ends)] \in Nat
    BY <1>1, <1>2 DEF Bytes, Last
  <2>2. CASE Len(ends) = 1
    BY <1>1, <1>5, <2>1, <2>2 DEF Bytes
  <2>3. CASE Len(ends) # 1
    <3>1. Len(ends) - 1 \in 1..(Len(ends) - 1) /\ (Len(ends) - 1) + 1 = Len(ends)
      BY <1>1, <2>3
    <3>2. ends'[Len(ends) - 1] = ends[Len(ends)] - Head(ends) /\ ends' # <<>>
      BY <1>3, <1>5, <3>1
    <3> QED BY <1>5, <2>1, <3>2 DEF Bytes, Last
  <2> QED BY <2>2, <2>3
<1> QED BY <1>5, <1>6, <1>7, <1>8 DEF Marks, Increasing

----------------------------------------------------------------------------
(* Reading and answering *)

\* fill_pending() moves bytes towards pending[] and loses none; there is always room for
\* what it adds.
LEMMA FillsKeep ==
  ASSUME Flags, Numbers, Carried, NEW b \in Fills
  PROVE  /\ b.np \in Nat /\ b.kernel \in Nat /\ b.tls \in Nat
         /\ npending <= b.np /\ b.np <= Size /\ b.kernel <= kernel /\ b.tls <= MaxNet
         /\ b.np + b.kernel + b.tls = npending + kernel + tls
         /\ ssl = FALSE => b.tls = 0
<1>0. /\ npending \in Nat /\ kernel \in Nat /\ tls \in Nat /\ npending <= Size
      /\ kernel <= MaxNet /\ tls <= MaxNet /\ Size \in Nat /\ MaxNet \in Nat
  BY Constants DEF Numbers
<1>1. CASE Space(npending) = 0
  <2>1. b = [np |-> npending, kernel |-> kernel, tls |-> tls]
    BY <1>1 DEF Fills
  <2> QED BY <1>0, <2>1 DEF Carried
<1>2. CASE Space(npending) # 0 /\ ssl = FALSE
  <2> DEFINE k == Smallest(Space(npending), kernel)
  <2>1. b = [np |-> npending + k, kernel |-> kernel - k, tls |-> 0]
    BY <1>2 DEF Fills
  <2>2. k \in Nat /\ k <= kernel /\ k <= Size - npending
    BY <1>0 DEF Smallest, Space
  <2>3. tls = 0
    BY <1>2 DEF Carried
  <2> HIDE DEF k
  <2> QED BY <1>0, <2>1, <2>2, <2>3
<1>3. CASE Space(npending) # 0 /\ ssl = TRUE
  <2>1. PICK r \in (IF tls > 0 \/ kernel = 0 THEN {0} ELSE 1..kernel) :
          b = [np |-> npending + Smallest(Space(npending), tls + r), kernel |-> kernel - r,
               tls |-> tls + r - Smallest(Space(npending), tls + r)]
    BY <1>3 DEF Fills
  <2>2. r \in Nat /\ r <= kernel /\ tls + r <= MaxNet
    BY <1>0, <2>1
  <2> DEFINE n == Smallest(Space(npending), tls + r)
  <2>3. n \in Nat /\ n <= tls + r /\ n <= Size - npending
    BY <1>0, <2>2 DEF Smallest, Space
  <2>4. b = [np |-> npending + n, kernel |-> kernel - r, tls |-> tls + r - n]
    BY <2>1
  <2> HIDE DEF n
  <2>5. b.np = npending + n /\ b.kernel = kernel - r /\ b.tls = tls + r - n
    BY <2>4
  <2> QED BY <1>0, <1>3, <2>2, <2>3, <2>5
<1> QED BY <1>1, <1>2, <1>3 DEF Flags

\* check_headers() sends what is left of the response, and is done with its last byte.
LEMMA HeadersAnswer ==
  ASSUME Flags, Numbers, Answered, NEW np \in Nat, CheckHeaders(np)
  PROVE  /\ replied' \in Nat /\ replied' <= Reply /\ answers' \in Nat
         /\ done' \in BOOLEAN /\ Answered' /\ (done = TRUE => done' = TRUE)
<1>0. replied \in Nat /\ replied <= Reply /\ answers = replied /\ Reply \in Nat /\ done \in BOOLEAN
  BY Constants DEF Flags, Numbers, Answered
<1>1. CASE done \/ np < KeyEnd
  BY <1>0, <1>1 DEF CheckHeaders, reply, Answered
<1>2. CASE ~(done \/ np < KeyEnd)
  <2>1. PICK n \in replied..Reply :
          replied' = n /\ answers' = answers + n - replied /\ done' = (n = Reply)
    BY <1>2 DEF CheckHeaders, Sent
  <2>2. answers' = n /\ n \in Nat /\ n <= Reply
    BY <1>0, <2>1
  <2>3. done' \in BOOLEAN /\ (done' = TRUE <=> replied' = Reply)
    BY <2>1
  <2> QED BY <1>2, <2>1, <2>2, <2>3 DEF Answered
<1> QED BY <1>1, <1>2

----------------------------------------------------------------------------
(* The steps *)

\* The connection begins with the request on its way.
LEMMA InitInv == Init => Inv
<1> SUFFICES ASSUME Init PROVE Inv
  OBVIOUS
<1>1. Flags /\ Numbers
  <2>1. Flags
    BY DEF Init, Flags
  <2>2. Numbers
    BY Constants DEF Init, Numbers
  <2> QED BY <2>1, <2>2
<1>2. Marks /\ Increasing
  BY EmptySeq DEF Init, Marks, Increasing
<1>3. Carried /\ Ordered /\ Answered
  BY Constants DEF Init, Carried, Ordered, Answered
<1>4. Conserved
  BY Constants DEF Init, Conserved, Bytes
<1> QED BY <1>1, <1>2, <1>3, <1>4 DEF Inv

\* A frame is sent after the answer, so it ends after everything that was sent.
LEMMA SendFrameInv == Inv /\ SendFrame => Inv'
<1> SUFFICES ASSUME Inv, SendFrame PROVE Inv'
  OBVIOUS
<1>0. Flags /\ Numbers /\ Marks /\ Increasing /\ Carried /\ Ordered /\ Answered /\ Conserved
  BY DEF Inv
<1>1. PICK len \in Lengths : network + kernel + len <= MaxNet
                             /\ ends' = Append(ends, Bytes + len) /\ network' = network + len
  BY DEF SendFrame
<1>2. /\ mode \in {"made", "ws"} /\ mode' = mode /\ ssl' = ssl /\ request' = request
      /\ kernel' = kernel /\ tls' = tls /\ npending' = npending
      /\ done' = done /\ replied' = replied /\ answers' = answers
  BY DEF SendFrame, reply
<1>3. done = TRUE /\ request = 0
  <2>1. replied = Reply
    BY <1>0, Constants DEF SendFrame, Answered, Numbers
  <2> QED BY <1>0, <1>2, <2>1 DEF Answered, Ordered
<1>4. Marks' /\ Increasing' /\ ends' # <<>> /\ Bytes' = Bytes + len
  BY <1>0, <1>1, <1>2, <1>3, MarksAppend
<1>5. len \in Nat /\ Bytes \in Nat
  BY <1>0, BytesType, Constants
<1>6. Numbers' /\ Carried'
  BY <1>0, <1>1, <1>2, <1>5, Constants DEF Numbers, Carried
<1>7. Flags' /\ Ordered' /\ Answered'
  BY <1>0, <1>2, <1>3 DEF Flags, Ordered, Answered
<1>8. Conserved'
  BY <1>0, <1>1, <1>2, <1>4, <1>5 DEF Conserved, Numbers
<1> QED BY <1>4, <1>6, <1>7, <1>8 DEF Inv

\* Bytes that arrive change places.
LEMMA ArriveInv == Inv /\ Arrive => Inv'
<1> SUFFICES ASSUME Inv, Arrive PROVE Inv'
  OBVIOUS
<1>0. Flags /\ Numbers /\ Marks /\ Increasing /\ Carried /\ Ordered /\ Answered /\ Conserved
  BY DEF Inv
<1>1. PICK k \in 1..network : network' = network - k /\ kernel' = kernel + k
  BY DEF Arrive
<1>2. /\ mode' = mode /\ ssl' = ssl /\ request' = request /\ ends' = ends /\ tls' = tls
      /\ npending' = npending /\ done' = done /\ replied' = replied /\ answers' = answers
  BY DEF Arrive, reply
<1>3. Numbers' /\ Carried'
  BY <1>0, <1>1, <1>2, Constants DEF Numbers, Carried
<1>4. Flags' /\ Ordered' /\ Answered'
  BY <1>0, <1>2 DEF Flags, Ordered, Answered
<1>5. Marks' /\ Increasing' /\ Bytes' = Bytes
  BY <1>0, <1>2 DEF Marks, Increasing, Start, Bytes
<1>6. Conserved'
  BY <1>0, <1>1, <1>2, <1>5 DEF Conserved, Numbers
<1> QED BY <1>3, <1>4, <1>5, <1>6 DEF Inv

\* While the request is not answered, every byte of the connection is one of it.
LEMMA RequestOnly ==
  ASSUME Numbers, Ordered, Conserved, mode \in {"new", "made", "ws"}, done = FALSE
  PROVE  ends = <<>> /\ request = network + kernel + tls + npending
<1>1. ends = <<>>
  BY DEF Ordered
<1> QED BY <1>1 DEF Conserved, Bytes

\* The answer is out: the buffer is emptied of bytes of the request.
LEMMA AnswerOut ==
  ASSUME Inv, mode \in {"new", "made", "ws"}, done = FALSE, done' = TRUE,
         NEW b \in Fills, Filled(b), CheckHeaders(b.np),
         npending' = 0, request' = request - b.np, ends' = ends,
         mode' = "misread" \/ (mode' \in {"made", "ws"} /\ request' = 0),
         ssl' = ssl, network' = network
  PROVE  Inv'
<1>0. Flags /\ Numbers /\ Marks /\ Increasing /\ Carried /\ Ordered /\ Answered /\ Conserved
  BY DEF Inv
<1>1. /\ b.np \in Nat /\ b.kernel \in Nat /\ b.tls \in Nat
      /\ npending <= b.np /\ b.np <= Size /\ b.kernel <= kernel /\ b.tls <= MaxNet
      /\ b.np + b.kernel + b.tls = npending + kernel + tls
      /\ ssl = FALSE => b.tls = 0
  BY <1>0, FillsKeep
<1>2. kernel' = b.kernel /\ tls' = b.tls
  BY DEF Filled
<1>3. /\ replied' \in Nat /\ replied' <= Reply /\ answers' \in Nat
      /\ done' \in BOOLEAN /\ Answered'
  BY <1>0, <1>1, HeadersAnswer
<1>4. ends = <<>> /\ request = network + kernel + tls + npending
  BY <1>0, RequestOnly
<1>5. request' \in Nat /\ request' <= Request /\ request' = network + b.kernel + b.tls
  <2>1. /\ request \in Nat /\ request <= Request /\ network \in Nat /\ kernel \in Nat
        /\ tls \in Nat /\ npending \in Nat /\ Request \in Nat
    BY <1>0, Constants DEF Numbers
  <2>2. request' = request - b.np
    OBVIOUS
  <2> QED BY <1>1, <1>4, <2>1, <2>2
<1>6. Numbers' /\ Carried'
  <2>1. Numbers'
    BY <1>0, <1>1, <1>2, <1>3, <1>5, Constants DEF Numbers
  <2> QED BY <1>0, <1>1, <1>2, <2>1, Constants DEF Numbers, Carried
<1>7. Flags' /\ Ordered'
  BY <1>0, <1>3, <1>4 DEF Flags, Ordered
<1>8. Marks' /\ Increasing'
  BY <1>0 DEF Marks, Increasing, Start
<1>9. Conserved'
  BY <1>0, <1>1, <1>2, <1>4, <1>5 DEF Conserved, Bytes, Numbers
<1> QED BY <1>3, <1>6, <1>7, <1>8, <1>9 DEF Inv

\* Bytes are read and nothing is taken.
LEMMA OnlyRead ==
  ASSUME Inv, mode \in {"new", "made", "ws"},
         NEW b \in Fills, Filled(b), CheckHeaders(b.np), done' = done,
         npending' = b.np, request' = request, ends' = ends,
         mode' \in {"made", "ws"}, ssl' = ssl, network' = network
  PROVE  Inv'
<1>0. Flags /\ Numbers /\ Marks /\ Increasing /\ Carried /\ Ordered /\ Answered /\ Conserved
  BY DEF Inv
<1>1. /\ b.np \in Nat /\ b.kernel \in Nat /\ b.tls \in Nat
      /\ npending <= b.np /\ b.np <= Size /\ b.kernel <= kernel /\ b.tls <= MaxNet
      /\ b.np + b.kernel + b.tls = npending + kernel + tls
      /\ ssl = FALSE => b.tls = 0
  BY <1>0, FillsKeep
<1>2. kernel' = b.kernel /\ tls' = b.tls
  BY DEF Filled
<1>3. /\ replied' \in Nat /\ replied' <= Reply /\ answers' \in Nat
      /\ done' \in BOOLEAN /\ Answered'
  BY <1>0, <1>1, HeadersAnswer
<1>4. Numbers' /\ Carried'
  <2>1. Numbers'
    BY <1>0, <1>1, <1>2, <1>3, Constants DEF Numbers
  <2> QED BY <1>0, <1>1, <1>2, <2>1, Constants DEF Numbers, Carried
<1>5. Flags' /\ Ordered'
  BY <1>0, <1>3 DEF Flags, Ordered
<1>6. Marks' /\ Increasing' /\ Bytes' = Bytes
  BY <1>0 DEF Marks, Increasing, Start, Bytes
<1>7. Conserved'
  BY <1>0, <1>1, <1>2, <1>6 DEF Conserved, Numbers
<1> QED BY <1>3, <1>4, <1>5, <1>6, <1>7 DEF Inv

\* A whole frame is taken: the buffer then begins with the next one.
LEMMA TakeFrame ==
  ASSUME Inv, mode \in {"made", "ws"}, done = TRUE,
         NEW b \in Fills, Filled(b), CheckHeaders(b.np), Complete(b.np),
         npending' = b.np - Used, ends' = NextEnds, request' = request,
         mode' = "ws", ssl' = ssl, network' = network
  PROVE  Inv'
<1>0. Flags /\ Numbers /\ Marks /\ Increasing /\ Carried /\ Ordered /\ Answered /\ Conserved
  BY DEF Inv
<1>1. /\ b.np \in Nat /\ b.kernel \in Nat /\ b.tls \in Nat
      /\ npending <= b.np /\ b.np <= Size /\ b.kernel <= kernel /\ b.tls <= MaxNet
      /\ b.np + b.kernel + b.tls = npending + kernel + tls
      /\ ssl = FALSE => b.tls = 0
  BY <1>0, FillsKeep
<1>2. kernel' = b.kernel /\ tls' = b.tls
  BY DEF Filled
<1>3. replied' = replied /\ answers' = answers /\ done' = done
  BY DEF CheckHeaders, reply
<1>4. ends # <<>> /\ request = 0
  BY <1>0, <1>1, Constants DEF Complete, FrameLen, Ordered
<1>5. FrameLen = Head(ends) /\ Head(ends) \in Nat
  BY <1>0, <1>4, FirstFrame, Constants DEF FrameLen
<1>6. npending' \in Nat /\ npending' <= Size /\ npending' = b.np - Head(ends)
  BY <1>1, <1>5, Constants DEF Complete, Used
<1>7. Marks' /\ Increasing' /\ Bytes' = Bytes - Head(ends)
  BY <1>0, <1>4, MarksNext
<1>8. Numbers' /\ Carried'
  <2>1. Numbers'
    BY <1>0, <1>1, <1>2, <1>3, <1>6, Constants DEF Numbers
  <2> QED BY <1>0, <1>1, <1>2, <2>1, Constants DEF Numbers, Carried
<1>9. Flags' /\ Ordered' /\ Answered'
  BY <1>0, <1>3, <1>4 DEF Flags, Ordered, Answered
<1>10. Conserved'
  <2>1. Bytes \in Nat /\ Bytes = network + kernel + tls + npending
    BY <1>0, BytesType DEF Conserved
  <2>2. network \in Nat /\ kernel \in Nat /\ tls \in Nat /\ npending \in Nat
    BY <1>0 DEF Numbers
  <2>3. Bytes' = network' + kernel' + tls' + npending'
    BY <1>1, <1>2, <1>5, <1>6, <1>7, <2>1, <2>2
  <2> QED BY <2>3 DEF Conserved
<1> QED BY <1>7, <1>8, <1>9, <1>10 DEF Inv

\* Text of a request that is taken for a frame: nothing is known of the stream afterwards.
LEMMA TakeText ==
  ASSUME Inv, mode \in {"made", "ws"}, done = FALSE, done' = FALSE,
         NEW b \in Fills, Filled(b), CheckHeaders(b.np), Complete(b.np),
         npending' = b.np - Used, ends' = ends, request' = request,
         mode' = "misread", ssl' = ssl, network' = network
  PROVE  Inv'
<1>0. Flags /\ Numbers /\ Marks /\ Increasing /\ Carried /\ Ordered /\ Answered /\ Conserved
  BY DEF Inv
<1>1. /\ b.np \in Nat /\ b.kernel \in Nat /\ b.tls \in Nat
      /\ npending <= b.np /\ b.np <= Size /\ b.kernel <= kernel /\ b.tls <= MaxNet
      /\ b.np + b.kernel + b.tls = npending + kernel + tls
      /\ ssl = FALSE => b.tls = 0
  BY <1>0, FillsKeep
<1>2. kernel' = b.kernel /\ tls' = b.tls
  BY DEF Filled
<1>3. /\ replied' \in Nat /\ replied' <= Reply /\ answers' \in Nat
      /\ done' \in BOOLEAN /\ Answered'
  BY <1>0, <1>1, HeadersAnswer
<1>4. npending' \in Nat /\ npending' <= Size
  BY <1>1, Constants DEF Complete, Used, FrameLen
<1>5. Numbers' /\ Carried'
  <2>1. Numbers'
    BY <1>0, <1>1, <1>2, <1>3, <1>4, Constants DEF Numbers
  <2> QED BY <1>0, <1>1, <1>2, <2>1, Constants DEF Numbers, Carried
<1>6. Flags' /\ Ordered'
  BY <1>0, <1>3 DEF Flags, Ordered
<1>7. Marks' /\ Increasing'
  BY <1>0 DEF Marks, Increasing, Start
<1>8. Conserved'
  BY DEF Conserved
<1> QED BY <1>3, <1>5, <1>6, <1>7, <1>8 DEF Inv

\* The constructor answers the request, or reads a piece of it.
LEMMA ConstructInv == Inv /\ Construct => Inv'
<1> SUFFICES ASSUME Inv, Construct PROVE Inv'
  OBVIOUS
<1>0. /\ Flags /\ Numbers /\ Carried /\ Ordered /\ Answered /\ Conserved
      /\ mode = "new" /\ ssl' = ssl /\ ends' = ends /\ network' = network
  BY DEF Inv, Construct
<1>1. PICK b \in Fills :
        /\ Filled(b) /\ CheckHeaders(b.np)
        /\ IF done'
           THEN /\ npending' = Emptied(b.np) /\ request' = request - b.np
                /\ mode' = IF request' > 0 THEN "misread" ELSE "made"
           ELSE mode' = "made" /\ npending' = b.np /\ request' = request
  BY DEF Construct
<1>2. done = FALSE /\ done' \in BOOLEAN
  <2>1. b.np \in Nat
    BY <1>0, FillsKeep
  <2> QED BY <1>0, <1>1, <2>1, HeadersAnswer DEF Ordered
<1>3. CASE done' = TRUE
  <2>1. npending' = 0 /\ request' = request - b.np
    BY <1>1, <1>3 DEF Emptied
  <2>2. request' \in Nat
    <3>1. b.np \in Nat /\ b.kernel \in Nat /\ b.tls \in Nat
          /\ b.np + b.kernel + b.tls = npending + kernel + tls
      BY <1>0, FillsKeep
    <3>2. request = network + kernel + tls + npending
      BY <1>0, <1>2, RequestOnly
    <3>3. network \in Nat /\ kernel \in Nat /\ tls \in Nat /\ npending \in Nat
      BY <1>0 DEF Numbers
    <3> QED BY <2>1, <3>1, <3>2, <3>3
  <2>3. mode' = "misread" \/ (mode' \in {"made", "ws"} /\ request' = 0)
    BY <1>1, <1>3, <2>2
  <2> QED BY <1>0, <1>1, <1>2, <1>3, <2>1, <2>3, AnswerOut
<1>4. CASE done' = FALSE
  <2>1. mode' = "made" /\ npending' = b.np /\ request' = request
    BY <1>1, <1>4
  <2> QED BY <1>0, <1>1, <1>2, <1>4, <2>1, OnlyRead
<1> QED BY <1>2, <1>3, <1>4

\* Without a certificate nothing is read, and what follows is not followed.
LEMMA ConstructWithoutTLSInv == Inv /\ ConstructWithoutTLS => Inv'
<1> SUFFICES ASSUME Inv, ConstructWithoutTLS PROVE Inv'
  OBVIOUS
<1>0. Flags /\ Numbers /\ Marks /\ Increasing /\ Carried /\ Ordered /\ Answered
  BY DEF Inv
<1>1. /\ mode' = "misread" /\ kernel' = kernel /\ ssl' = ssl /\ request' = request
      /\ ends' = ends /\ network' = network /\ tls' = tls /\ npending' = npending
      /\ done' = done /\ replied' = replied /\ answers' = answers
  BY DEF ConstructWithoutTLS, stream, reply
<1>2. Numbers' /\ Carried'
  BY <1>0, <1>1 DEF Numbers, Carried
<1>3. Flags' /\ Ordered' /\ Answered'
  BY <1>0, <1>1 DEF Flags, Ordered, Answered
<1>4. Marks' /\ Increasing' /\ Conserved'
  BY <1>0, <1>1 DEF Marks, Increasing, Start, Conserved
<1> QED BY <1>2, <1>3, <1>4 DEF Inv

\* recv(), in its four outcomes.
LEMMA RecvInv == Inv /\ Recv => Inv'
<1> SUFFICES ASSUME Inv, Recv PROVE Inv'
  OBVIOUS
<1>0. /\ Flags /\ Numbers /\ Carried /\ Ordered /\ Answered /\ Conserved
      /\ mode \in {"made", "ws"} /\ ssl' = ssl /\ network' = network
  BY DEF Inv, Recv
<1>1. PICK b \in Fills :
        /\ Filled(b) /\ CheckHeaders(b.np)
        /\ \/ /\ ~done /\ done'
              /\ npending' = Emptied(b.np) /\ request' = request - b.np
              /\ mode' = IF request' > 0 THEN "misread" ELSE "ws"
              /\ ends' = ends
           \/ /\ done' => done
              /\ ~Complete(b.np)
              /\ mode' = "ws" /\ npending' = b.np /\ request' = request /\ ends' = ends
           \/ /\ ~done' /\ Complete(b.np)
              /\ mode' = "misread" /\ npending' = b.np - Used
              /\ request' = request /\ ends' = ends
           \/ /\ done /\ Complete(b.np)
              /\ mode' = "ws" /\ npending' = b.np - Used
              /\ ends' = NextEnds /\ request' = request
  BY DEF Recv
<1>2. /\ b.np \in Nat /\ b.kernel \in Nat /\ b.tls \in Nat
      /\ b.np + b.kernel + b.tls = npending + kernel + tls
  BY <1>0, FillsKeep
<1>3. done \in BOOLEAN /\ done' \in BOOLEAN /\ (done = TRUE => done' = TRUE)
  BY <1>0, <1>1, <1>2, HeadersAnswer DEF Flags
<1>4. CASE /\ ~done /\ done'
           /\ npending' = Emptied(b.np) /\ request' = request - b.np
           /\ mode' = IF request' > 0 THEN "misread" ELSE "ws"
           /\ ends' = ends
  <2>1. done = FALSE /\ done' = TRUE /\ npending' = 0
    BY <1>3, <1>4 DEF Emptied
  <2>2. request' \in Nat
    <3>1. request = network + kernel + tls + npending
      BY <1>0, <2>1, RequestOnly
    <3>2. network \in Nat /\ kernel \in Nat /\ tls \in Nat /\ npending \in Nat
      BY <1>0 DEF Numbers
    <3> QED BY <1>2, <1>4, <3>1, <3>2
  <2>3. mode' = "misread" \/ (mode' \in {"made", "ws"} /\ request' = 0)
    BY <1>4, <2>2
  <2> QED BY <1>0, <1>1, <1>4, <2>1, <2>3, AnswerOut
<1>5. CASE /\ done' => done
           /\ mode' = "ws" /\ npending' = b.np /\ request' = request /\ ends' = ends
  <2>1. done' = done
    BY <1>3, <1>5
  <2> QED BY <1>0, <1>1, <1>5, <2>1, OnlyRead
<1>6. CASE /\ ~done' /\ Complete(b.np)
           /\ mode' = "misread" /\ npending' = b.np - Used
           /\ request' = request /\ ends' = ends
  <2>1. done = FALSE /\ done' = FALSE
    BY <1>3, <1>6
  <2> QED BY <1>0, <1>1, <1>6, <2>1, TakeText
<1>7. CASE /\ done /\ Complete(b.np)
           /\ mode' = "ws" /\ npending' = b.np - Used
           /\ ends' = NextEnds /\ request' = request
  <2>1. done = TRUE
    BY <1>3, <1>7
  <2> QED BY <1>0, <1>1, <1>7, <2>1, TakeFrame
<1> QED BY <1>1, <1>4, <1>5, <1>6, <1>7

\* What a plain MAVLink connection reads is not followed.
LEMMA RecvRawInv == Inv /\ RecvRaw => Inv'
<1> SUFFICES ASSUME Inv, RecvRaw PROVE Inv'
  OBVIOUS
<1>0. Flags /\ Numbers /\ Marks /\ Increasing /\ Carried /\ Ordered /\ Answered
  BY DEF Inv
<1>1. /\ mode' = "raw" /\ kernel' = 0 /\ ssl' = ssl /\ request' = request /\ ends' = ends
      /\ network' = network /\ tls' = tls /\ npending' = npending
      /\ done' = done /\ replied' = replied /\ answers' = answers
  BY DEF RecvRaw, reply
<1>2. Numbers' /\ Carried'
  BY <1>0, <1>1, Constants DEF Numbers, Carried
<1>3. Flags' /\ Ordered' /\ Answered'
  BY <1>0, <1>1 DEF Flags, Ordered, Answered
<1>4. Marks' /\ Increasing' /\ Conserved'
  BY <1>0, <1>1 DEF Marks, Increasing, Start, Conserved
<1> QED BY <1>2, <1>3, <1>4 DEF Inv

\* A closed connection holds nothing.
LEMMA CloseInv == Inv /\ Close => Inv'
<1> SUFFICES ASSUME Inv, Close PROVE Inv'
  OBVIOUS
<1>0. Flags /\ Numbers /\ Answered
  BY DEF Inv
<1>1. /\ mode' = "closed" /\ ends' = <<>> /\ request' = 0 /\ network' = 0
      /\ kernel' = 0 /\ tls' = 0 /\ npending' = 0 /\ ssl' = ssl
      /\ done' = done /\ replied' = replied /\ answers' = answers
  BY DEF Close, reply
<1>2. Numbers' /\ Carried'
  BY <1>0, <1>1, Constants DEF Numbers, Carried
<1>3. Flags' /\ Ordered' /\ Answered'
  BY <1>0, <1>1 DEF Flags, Ordered, Answered
<1>4. Marks' /\ Increasing' /\ Conserved'
  BY <1>1, EmptySeq DEF Marks, Increasing, Conserved
<1> QED BY <1>2, <1>3, <1>4 DEF Inv

\* Every step, and a stutter.
LEMMA StepInv == Inv /\ [Next]_vars => Inv'
<1>1. Inv /\ UNCHANGED vars => Inv'
  BY DEF vars, stream, reply, Inv, Flags, Numbers, Marks, Increasing, Carried, Ordered,
         Answered, Conserved, Start, Bytes
<1> QED BY <1>1, SendFrameInv, ArriveInv, ConstructInv, ConstructWithoutTLSInv, RecvInv,
       RecvRawInv, CloseInv DEF Next

\* The invariant holds in every behaviour.
LEMMA InvHolds == Spec => []Inv
BY InitInv, StepInv, PTL DEF Spec

----------------------------------------------------------------------------
(* The theorems *)

\* pending[] is never filled beyond its last byte but one, and decode() never counts
\* bytes below zero.
THEOREM TypeCorrect == Spec => []TypeOK
<1>1. Inv => TypeOK
  BY TypeParts DEF Inv
<1> QED BY <1>1, InvHolds, PTL

\* recv() loses no byte of a WebSocket and takes none twice, for every size of the
\* buffer and of frames and however reads cut them.
THEOREM NothingLostCorrect == Spec => []NothingLost
<1>1. Inv => NothingLost
  BY DEF Inv, Conserved, NothingLost
<1> QED BY <1>1, InvHolds, PTL

\* Each byte of the response is sent once.
THEOREM AnsweredCorrect == Spec => []AnsweredOnce
<1>1. Inv => AnsweredOnce
  BY Constants DEF Inv, Answered, Numbers, AnsweredOnce
<1> QED BY <1>1, InvHolds, PTL
=============================================================================
