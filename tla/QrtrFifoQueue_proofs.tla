------------------------ MODULE QrtrFifoQueue_proofs ------------------------
(***************************************************************************)
(* The ring of QrtrFifo implements the queue of words of QrtrWordQueue,    *)
(* for every length of the ring, every reserve and every set of packets;   *)
(* and the packets cut into its chunks are put together again whole.       *)
(***************************************************************************)
EXTENDS QrtrFifo_proofs, SequenceTheorems

(* The place in the buffer of the j-th unread word, or of the word j would *)
(* be if more were written.                                                *)
Place(j) == IF tail + j - 1 >= L THEN tail + j - 1 - L ELSE tail + j - 1

(* Which word of the chunk being written goes to place i. *)
Offset(i) == IF i >= head THEN i - head ELSE i - head + L

Unread == Peek(RxAvail)

(* Seen from the head, places behind the unread words come first and those *)
(* of the unread words last: the one arithmetic fact about wrapping.       *)
LEMMA PlaceOffset ==
    ASSUME TypeOK, RingExact, NEW j \in 1..L
    PROVE  /\ Place(j) \in 0..(L - 1)
           /\ j > RxAvail => Offset(Place(j)) = j - 1 - RxAvail
           /\ j <= RxAvail => Offset(Place(j)) = j - 1 - RxAvail + L
  BY RingAssumption DEF TypeOK, RingExact, RxAvail, Place, Offset

(* gunyah_rx_peak() never leaves the buffer. *)
LEMMA PlaceIn ==
    ASSUME NEW t \in 0..(L - 1), NEW j \in 1..L
    PROVE  (IF t + j - 1 >= L THEN t + j - 1 - L ELSE t + j - 1) \in 0..(L - 1)
  BY RingAssumption

(* The unread words, as a sequence ... *)
LEMMA UnreadSeq ==
    ASSUME TypeOK, RingExact
    PROVE  /\ RxAvail \in 0..L
           /\ Unread \in Seq(Words) /\ Len(Unread) = RxAvail
           /\ \A j \in 1..RxAvail : Unread[j] = cell[Place(j)]
  <1>1. RxAvail \in Nat /\ RxAvail <= L
    BY RingAssumption DEF TypeOK, RingExact
  <1>5. tail \in 0..(L - 1)
    BY DEF TypeOK
  <1>2. ASSUME NEW j \in 1..RxAvail PROVE Place(j) \in 0..(L - 1)
    <2>1. j \in 1..L
      BY <1>1, RingAssumption
    <2> QED
      BY <2>1, <1>5, PlaceIn DEF Place
  <1>3. \A j \in 1..RxAvail : cell[Place(j)] \in Words
    BY <1>2 DEF TypeOK
  <1>4. Unread = [j \in 1..RxAvail |-> cell[Place(j)]]
    BY DEF Unread, Peek, Place
  <1> QED
    BY <1>1, <1>3, <1>4

(* ... and after a step. *)
LEMMA UnreadNext ==
    ASSUME TypeOK', RingExact'
    PROVE  /\ RxAvail' \in 0..L
           /\ Unread' \in Seq(Words) /\ Len(Unread') = RxAvail'
           /\ \A j \in 1..RxAvail' : Unread'[j] = cell'[Place(j)']
  <1>1. RxAvail' \in Nat /\ RxAvail' <= L
    BY RingAssumption DEF TypeOK, RingExact
  <1>5. tail' \in 0..(L - 1)
    BY DEF TypeOK
  <1>2. ASSUME NEW j \in 1..RxAvail' PROVE Place(j)' \in 0..(L - 1)
    <2>1. j \in 1..L
      BY <1>1, RingAssumption
    <2> QED
      BY <2>1, <1>5, PlaceIn DEF Place
  <1>3. \A j \in 1..RxAvail' : cell'[Place(j)'] \in Words
    BY <1>2 DEF TypeOK
  <1>4. Unread' = [j \in 1..RxAvail' |-> cell'[Place(j)']]
    BY DEF Unread, Peek, Place
  <1> QED
    BY <1>1, <1>3, <1>4

(* A sequence that begins like s and goes on with a run of words is s with *)
(* that run appended.                                                      *)
LEMMA AppendRun ==
    ASSUME NEW s \in Seq(Words), NEW t \in Seq(Words), Len(s) < Len(t),
           \A j \in 1..Len(s) : t[j] = s[j],
           NEW p \in 0..MaxPkts, NEW d \in Nat,
           \A j \in 1..(Len(t) - Len(s)) : t[Len(s) + j] = <<p, d + j - 1>>
    PROVE  t = s \o Stream!Run(t[Len(s) + 1], Len(t) - Len(s))
  <1> DEFINE n == Len(t) - Len(s)
  <1> DEFINE r == [j \in 1..n |-> <<p, d + j - 1>>]
  <1>1. n \in Nat /\ n > 0 /\ Len(s) \in Nat /\ Len(t) = Len(s) + n
    OBVIOUS
  <1>2. t[Len(s) + 1] = <<p, d>>
    BY <1>1
  <1>3. Stream!Run(t[Len(s) + 1], n) = r
    BY <1>2 DEF Stream!Run
  <1>4. \A j \in 1..n : <<p, d + j - 1>> \in Words
    BY <1>1 DEF Words
  <1>5. r \in Seq(Words) /\ Len(r) = n
    BY <1>1, <1>4
  <1>6. \A j \in 1..n : r[j] = t[Len(s) + j]
    OBVIOUS
  <1> HIDE DEF r, n
  <1>7. /\ s \o r \in Seq(Words) /\ Len(s \o r) = Len(s) + n
        /\ \A i \in 1..(Len(s) + n) : (s \o r)[i] = IF i <= Len(s) THEN s[i] ELSE r[i - Len(s)]
    BY <1>5, ConcatProperties
  <1>8. ASSUME NEW i \in 1..Len(t) PROVE t[i] = (s \o r)[i]
    <2>1. CASE i <= Len(s)
      BY <2>1, <1>1, <1>7
    <2>2. CASE i > Len(s)
      <3>1. i - Len(s) \in 1..n /\ i = Len(s) + (i - Len(s))
        BY <2>2, <1>1
      <3>2. r[i - Len(s)] = t[i]
        BY <3>1, <1>6, <1>1
      <3> QED
        BY <2>2, <3>2, <1>1, <1>7
    <2>3. i \in Nat /\ (i <= Len(s) \/ i > Len(s))
      BY <1>1
    <2> QED
      BY <2>1, <2>2, <2>3
  <1>9. t = s \o r
    BY <1>1, <1>7, <1>8, SeqEqual
  <1> QED
    BY <1>3, <1>9 DEF n

(* The words of the packet that qrtr_gunyah_send() is at: its number, how  *)
(* many words of it are written, and how many the next chunk adds.         *)
Done  == sent[Len(sent)] - left
Chunk == Min2(TxAvail, left)

(* qrtr_gunyah_send() writing a chunk adds the next words of the packet    *)
(* behind the unread ones, and leaves these alone.                         *)
LEMMA ChunkWords ==
    ASSUME FifoInv, FifoInv', SendChunk
    PROVE  /\ Chunk \in Nat \ {0} /\ Chunk <= left
           /\ Len(sent) \in 0..MaxPkts /\ Done \in Nat
           /\ Len(Unread') = Len(Unread) + Chunk /\ Len(Unread') <= L - R
           /\ \A j \in 1..Len(Unread) : Unread'[j] = Unread[j]
           /\ \A j \in 1..Chunk : Unread'[Len(Unread) + j] = <<Len(sent), Done + j - 1>>
  <1> USE DEF FifoInv
  <1> DEFINE n == Min2(TxAvail, left)
  <1> DEFINE p == Len(sent)
  <1> DEFINE d == sent[Len(sent)] - left
  <1>1. n \in Nat /\ n > 0 /\ n <= TxAvail /\ n <= left
    <2>1. TxAvail \in Nat /\ TxAvail > 0
      BY RingAssumption DEF SendChunk, TypeOK, RingExact
    <2>2. left \in Nat /\ left > 0
      BY DEF SendChunk, TypeOK, SendInv
    <2> QED
      BY <2>1, <2>2 DEF Min2
  <1>2. cell' = Written(n) /\ tail' = tail /\ unread' = unread + n /\ wpc # "idle"
    BY DEF SendChunk, receiverVars
  <1>3. p \in 0..MaxPkts /\ d \in Nat
    <2>1. sent[Len(sent)] \in Nat /\ Len(sent) \in 0..MaxPkts
      BY <1>2, CurrentPacket
    <2>2. left \in Nat /\ left <= sent[Len(sent)]
      BY <1>2 DEF TypeOK, SendInv
    <2> QED
      BY <2>1, <2>2
  <1>4. \A i \in 0..(L - 1) : cell'[i] = IF Offset(i) < n THEN <<p, d + Offset(i)>> ELSE cell[i]
    BY <1>2 DEF Written, Offset
  <1> HIDE DEF n, p, d
  <1>5. RxAvail' = RxAvail + n /\ RxAvail \in Nat /\ RxAvail' <= L - R /\ RxAvail' <= L
    BY <1>1, <1>2, RingAssumption DEF RingExact, TypeOK
  <1>6. /\ Unread \in Seq(Words) /\ Len(Unread) = RxAvail
        /\ \A j \in 1..RxAvail : Unread[j] = cell[Place(j)]
    BY UnreadSeq
  <1>7. /\ Unread' \in Seq(Words) /\ Len(Unread') = RxAvail'
        /\ \A j \in 1..RxAvail' : Unread'[j] = cell'[Place(j)]
    <2>1. \A j : Place(j)' = Place(j)
      BY <1>2 DEF Place
    <2> QED
      BY <2>1, UnreadNext
  <1>8. ASSUME NEW j \in 1..RxAvail PROVE Unread'[j] = Unread[j]
    <2>1. j \in 1..L /\ j <= RxAvail /\ j \in 1..RxAvail'
      BY <1>1, <1>5, RingAssumption
    <2>2. Place(j) \in 0..(L - 1) /\ Offset(Place(j)) = j - 1 - RxAvail + L
      BY <2>1, PlaceOffset
    <2>3. ~(Offset(Place(j)) < n)
      BY <2>1, <2>2, <1>1, <1>5, RingAssumption
    <2>4. cell'[Place(j)] = cell[Place(j)]
      BY <2>2, <2>3, <1>4
    <2> QED
      BY <2>1, <2>4, <1>6, <1>7
  <1>9. ASSUME NEW j \in 1..n PROVE Unread'[RxAvail + j] = <<p, d + j - 1>>
    <2> DEFINE i == RxAvail + j
    <2>1. i \in 1..L /\ i > RxAvail /\ i \in 1..RxAvail' /\ i - 1 - RxAvail = j - 1
      BY <1>1, <1>5, RingAssumption
    <2> HIDE DEF i
    <2>2. Place(i) \in 0..(L - 1) /\ Offset(Place(i)) = j - 1
      BY <2>1, PlaceOffset
    <2>3. cell'[Place(i)] = <<p, d + (j - 1)>>
      <3>1. cell'[Place(i)] = IF Offset(Place(i)) < n THEN <<p, d + Offset(Place(i))>> ELSE cell[Place(i)]
        BY <2>2, <1>4
      <3>2. Offset(Place(i)) < n
        BY <2>2, <1>1
      <3> QED
        BY <3>1, <3>2, <2>2
    <2>4. d + (j - 1) = d + j - 1
      BY <1>3
    <2> QED
      BY <2>1, <2>3, <2>4, <1>7 DEF i
  <1> QED
    BY <1>1, <1>3, <1>5, <1>6, <1>7, <1>8, <1>9 DEF n, p, d, Chunk, Done

(* That puts words into the queue. *)
LEMMA ChunkPuts ==
    ASSUME FifoInv, FifoInv', SendChunk
    PROVE  Stream!Put
  <1>1. Unread \in Seq(Words) /\ Unread' \in Seq(Words)
    BY UnreadSeq, UnreadNext DEF FifoInv
  <1>2. /\ Chunk \in Nat \ {0} /\ Len(sent) \in 0..MaxPkts /\ Done \in Nat
        /\ Len(Unread') = Len(Unread) + Chunk /\ Len(Unread') <= L - R
        /\ \A j \in 1..Len(Unread) : Unread'[j] = Unread[j]
        /\ \A j \in 1..Chunk : Unread'[Len(Unread) + j] = <<Len(sent), Done + j - 1>>
    BY ChunkWords
  <1>3. Len(Unread) \in Nat
    BY <1>1
  <1>4. Len(Unread) < Len(Unread') /\ Len(Unread') - Len(Unread) = Chunk
    BY <1>2, <1>3
  <1>5. Unread' = Unread \o Stream!Run(Unread'[Len(Unread) + 1], Len(Unread') - Len(Unread))
    BY <1>1, <1>2, <1>4, AppendRun
  <1> QED
    BY <1>2, <1>4, <1>5 DEF Stream!Put, Unread

(* gunyah_rx_advance() by n words leaves the words behind the first n. *)
LEMMA AdvanceWords ==
    ASSUME FifoInv, FifoInv', NEW n \in Nat, n <= RxAvail, Advance(n),
           head' = head, cell' = cell
    PROVE  /\ RxAvail' = RxAvail - n /\ RxAvail \in 0..L /\ RxAvail' \in 0..L
           /\ Unread \in Seq(Words) /\ Len(Unread) = RxAvail
           /\ Unread' \in Seq(Words) /\ Len(Unread') = RxAvail'
           /\ \A j \in 1..RxAvail' : Unread'[j] = Unread[n + j]
  <1> USE DEF FifoInv
  <1>1. RxAvail' = RxAvail - n /\ RxAvail \in 0..L /\ RxAvail' \in 0..L
    BY RingAssumption DEF RingExact, TypeOK, Advance
  <1>2. tail' = TailAfter(n) /\ tail \in 0..(L - 1) /\ tail' \in 0..(L - 1)
    BY DEF TypeOK, Advance
  <1>3. /\ Unread \in Seq(Words) /\ Len(Unread) = RxAvail
        /\ \A j \in 1..RxAvail : Unread[j] = cell[Place(j)]
    BY UnreadSeq
  <1>4. /\ Unread' \in Seq(Words) /\ Len(Unread') = RxAvail'
        /\ \A j \in 1..RxAvail' : Unread'[j] = cell'[Place(j)']
    BY UnreadNext
  <1>5. \A j \in 1..RxAvail' : n + j \in 1..RxAvail /\ Place(j)' = Place(n + j)
    BY <1>1, <1>2, RingAssumption DEF Place, TailAfter
  <1> QED
    BY <1>1, <1>3, <1>4, <1>5

(* That takes the first n words from the queue. *)
LEMMA AdvanceGets ==
    ASSUME FifoInv, FifoInv', NEW n \in Nat, n <= RxAvail, Advance(n),
           head' = head, cell' = cell
    PROVE  Stream!Get \/ Unread' = Unread
  <1>1. RxAvail' = RxAvail - n /\ RxAvail \in 0..L /\ RxAvail' \in 0..L
    BY AdvanceWords
  <1>3. Unread \in Seq(Words) /\ Len(Unread) = RxAvail
    BY AdvanceWords
  <1>4. Unread' \in Seq(Words) /\ Len(Unread') = RxAvail'
    BY AdvanceWords
  <1>6. \A j \in 1..RxAvail' : Unread'[j] = Unread[n + j]
    BY AdvanceWords
  <1> DEFINE rest == SubSeq(Unread, n + 1, Len(Unread))
  <1>7. /\ rest \in Seq(Words)
        /\ Len(rest) = RxAvail - n
        /\ \A j \in 1..(RxAvail - n) : rest[j] = Unread[n + 1 + j - 1]
    <2>1. \A j \in (n + 1)..Len(Unread) : Unread[j] \in Words
      BY <1>3, ElementOfSeq
    <2>2. n + 1 \in Int /\ Len(Unread) \in Int
      BY <1>1, <1>3
    <2>3. /\ rest \in Seq(Words)
          /\ Len(rest) = IF n + 1 <= Len(Unread) THEN Len(Unread) - (n + 1) + 1 ELSE 0
          /\ \A j \in 1..(Len(Unread) - (n + 1) + 1) : rest[j] = Unread[n + 1 + j - 1]
      BY <2>1, <2>2, SubSeqProperties
    <2> HIDE DEF rest
    <2>4. Len(Unread) - (n + 1) + 1 = RxAvail - n
      BY <1>1, <1>3
    <2>5. Len(rest) = RxAvail - n
      BY <2>3, <1>1, <1>3
    <2> QED
      BY <2>3, <2>4, <2>5
  <1> HIDE DEF rest
  <1>8. \A j \in 1..RxAvail' : Unread'[j] = rest[j]
    <2>1. \A j \in 1..RxAvail' : n + 1 + j - 1 = n + j /\ j \in 1..(RxAvail - n)
      BY <1>1
    <2> QED
      BY <2>1, <1>6, <1>7
  <1>9. Unread' = rest
    BY <1>1, <1>4, <1>7, <1>8, SeqEqual
  <1>10. CASE n = 0
    <2>1. \A j \in 1..Len(Unread) : Unread'[j] = Unread[j]
      BY <1>10, <1>1, <1>3, <1>6
    <2>2. Len(Unread') = Len(Unread)
      BY <1>10, <1>1, <1>3, <1>4
    <2>3. Unread' = Unread
      BY <1>3, <1>4, <2>1, <2>2, SeqEqual
    <2> QED
      BY <2>3
  <1>11. CASE n > 0
    <2>1. n \in 1..Len(Unread)
      BY <1>11, <1>1, <1>3
    <2> QED
      BY <2>1, <1>9 DEF rest, Stream!Get, Unread
  <1> QED
    BY <1>10, <1>11

(* Every step of the ring is a step of the queue, or leaves it alone. *)
LEMMA QueueStep ==
    ASSUME FifoInv, FifoInv', Next
    PROVE  Stream!Next \/ Unread' = Unread
  <1>1. CASE SendChunk
    BY <1>1, ChunkPuts DEF Stream!Next
  <1>2. CASE UNCHANGED <<head, tail, cell>>
    BY <1>2 DEF Unread, Peek, RxAvail
  <1>3. CASE Restart
    <2>1. RxAvail' = 0
      BY <1>3, RingAssumption DEF Restart, RxAvail
    <2>2. Unread' = <<>>
      BY <2>1 DEF Unread, Peek
    <2> QED
      BY <2>2 DEF Stream!Next, Stream!Reset, Unread
  <1>4. RxAvail \in Nat /\ RxAvail <= L
    BY RingAssumption DEF FifoInv, RingExact, TypeOK
  <1>5. CASE ReadNew
    <2>1. head' = head /\ cell' = cell
      BY <1>5 DEF ReadNew, senderVars
    <2>2. PICK n \in Nat : n <= RxAvail /\ Advance(n)
      <3>1. CASE pktLen = -1
        BY <3>1, <1>4, <1>5 DEF ReadNew
      <3>2. CASE pktLen >= 0
        <4>1. Advance(Min2(RxAvail, pktLen))
          BY <3>2, <1>5 DEF ReadNew
        <4>2. Min2(RxAvail, pktLen) \in Nat /\ Min2(RxAvail, pktLen) <= RxAvail
          BY <3>2, <1>4 DEF Min2, FifoInv, TypeOK
        <4> QED
          BY <4>1, <4>2
      <3>3. pktLen = -1 \/ pktLen >= 0
        BY DEF FifoInv, TypeOK, ReadInv
      <3> QED
        BY <3>1, <3>2, <3>3
    <2> QED
      BY <2>1, <2>2, AdvanceGets DEF Stream!Next
  <1>6. CASE ReadFrag
    <2>1. head' = head /\ cell' = cell
      BY <1>6 DEF ReadFrag, senderVars
    <2> DEFINE n == Min2(RxAvail, ring.len - Len(ring.buf))
    <2>2. Advance(n)
      BY <1>6 DEF ReadFrag
    <2>3. Len(ring.buf) < ring.len /\ Len(ring.buf) \in Nat /\ ring.len \in Nat
      BY <1>6 DEF ReadFrag, FifoInv, ReadInv, TypeOK
    <2>4. n \in Nat /\ n <= RxAvail
      BY <2>3, <1>4 DEF Min2
    <2> HIDE DEF n
    <2> QED
      BY <2>1, <2>2, <2>4, AdvanceGets DEF Stream!Next
  <1>7. SendChunk \/ Restart \/ ReadNew \/ ReadFrag \/ UNCHANGED <<head, tail, cell>>
    BY DEF Next, Send, Sender, SendFull, WaitForTxAvail, WaitCheck, WaitTimeout, SenderCb,
           RetryWork, Receiver, ReceiverCb, PeekHeader, ReadNotify, ReadDone,
           senderVars, receiverVars
  <1> QED
    BY <1>1, <1>2, <1>3, <1>5, <1>6, <1>7

(* The ring of gunyah.c implements a bounded queue of words: for every     *)
(* ring length, reserve, packet length and fault, no word is lost, altered *)
(* or reordered between gunyah_tx_write() and gunyah_rx_advance().         *)
THEOREM RingImplementsQueue == Spec => RingIsQueue
  <1>1. Init => Stream!Init
    <2> SUFFICES ASSUME Init PROVE Stream!Init
      OBVIOUS
    <2>1. RxAvail = 0
      BY DEF Init, RxAvail
    <2> QED
      BY <2>1 DEF Stream!Init, Peek
  <1>2. FifoInv /\ FifoInv' /\ [Next]_vars => [Stream!Next]_(Peek(RxAvail))
    <2> SUFFICES ASSUME FifoInv, FifoInv', [Next]_vars
                 PROVE  Stream!Next \/ Unread' = Unread
      BY DEF Unread
    <2>1. CASE Next
      BY <2>1, QueueStep
    <2>2. CASE UNCHANGED vars
      BY <2>2 DEF vars, Unread, Peek, RxAvail
    <2> QED
      BY <2>1, <2>2
  <1> QED
    BY <1>1, <1>2, FifoInvInvariant, PTL DEF Spec, RingIsQueue, Stream!Spec
-----------------------------------------------------------------------------
(* What the words in the ring say, and that the receiver takes them so.    *)

(* The word that gunyah_tx_write() writes next. *)
NextIn ==
    IF wpc = "idle" THEN <<Len(sent) + 1, 0>> ELSE <<Len(sent), Done>>

(* The j-th word of queue q, or the one that x says comes next. *)
Item(q, x, j) == IF j <= Len(q) THEN q[j] ELSE x

(* The n-th word after w, within its packet or the first one behind it,    *)
(* when packets have the lengths s.                                        *)
After(w, n, s) ==
    IF w[2] + n = s[w[1]] THEN <<w[1] + 1, 0>> ELSE <<w[1], w[2] + n>>

(* The words of q belong to packets, come before x, and from each of them  *)
(* its packet goes on to its end and to the beginning of the next.  This   *)
(* is said of all distances, as a step may take a whole packet.            *)
Ordered(q, x, s) ==
    \A j \in 1..Len(q) :
        /\ q[j][1] \in 1..Len(s) /\ q[j][2] \in 0..(s[q[j][1]] - 1)
        /\ q[j][1] < x[1] \/ (q[j][1] = x[1] /\ q[j][2] < x[2])
        /\ \A k \in j..(Len(q) + 1) : q[j][2] + (k - j) <= s[q[j][1]] =>
              Item(q, x, k) = After(q[j], k - j, s)

(* Unless the packet boundaries were lost: nothing was delivered wrongly,  *)
(* the ring goes on where the receiver is, what it collected is the        *)
(* beginning of the next packet, and the length it read is that packet's.  *)
WholeInv ==
    torn = 0 =>
        /\ garbled = 0
        /\ Ordered(Unread, NextIn, sent)
        /\ Item(Unread, NextIn, 1) = <<got + 1, Len(ring.buf)>>
        /\ \A j \in 1..Len(ring.buf) : ring.buf[j] = <<got + 1, j - 1>>
        /\ ring.buf # <<>> => ring.len = sent[got + 1]
        /\ rpc = "peeked" => ring.buf = <<>> /\ unread > 0 /\ pktLen = sent[got + 1]

(* Other packets may be added, or given up. *)
LEMMA OrderedSame ==
    ASSUME NEW q \in Seq(Words), NEW x, NEW s \in Seq(Nat), NEW r \in Seq(Nat),
           Ordered(q, x, s),
           \A j \in 1..Len(q) : q[j][1] \in 1..Len(r) /\ r[q[j][1]] = s[q[j][1]]
    PROVE  Ordered(q, x, r)
  <1> SUFFICES ASSUME NEW j \in 1..Len(q)
               PROVE  /\ q[j][1] \in 1..Len(r) /\ q[j][2] \in 0..(r[q[j][1]] - 1)
                      /\ q[j][1] < x[1] \/ (q[j][1] = x[1] /\ q[j][2] < x[2])
                      /\ \A k \in j..(Len(q) + 1) : q[j][2] + (k - j) <= r[q[j][1]] =>
                            Item(q, x, k) = After(q[j], k - j, r)
    BY DEF Ordered
  <1>1. q[j][1] \in 1..Len(r) /\ r[q[j][1]] = s[q[j][1]]
    OBVIOUS
  <1>2. /\ q[j][2] \in 0..(s[q[j][1]] - 1)
        /\ q[j][1] < x[1] \/ (q[j][1] = x[1] /\ q[j][2] < x[2])
        /\ \A k \in j..(Len(q) + 1) : q[j][2] + (k - j) <= s[q[j][1]] =>
              Item(q, x, k) = After(q[j], k - j, s)
    BY DEF Ordered
  <1>3. \A n : After(q[j], n, r) = After(q[j], n, s)
    BY <1>1 DEF After
  <1> QED
    BY <1>1, <1>2, <1>3

(* A chunk: the next words of packet p, of which d are written. *)
LEMMA OrderedPut ==
    ASSUME NEW q, NEW t, NEW s, Len(q) \in Nat, Len(s) \in Nat,
           \A i \in 1..Len(s) : s[i] \in Nat,
           NEW p \in 1..Len(s), NEW d \in Nat, NEW n \in Nat \ {0}, d + n <= s[p],
           Ordered(q, <<p, d>>, s),
           Len(t) = Len(q) + n,
           \A j \in 1..Len(q) : t[j] = q[j],
           \A j \in 1..n : t[Len(q) + j] = <<p, d + j - 1>>
    PROVE  Ordered(t, After(<<p, d>>, n, s), s)
  <1> DEFINE x == <<p, d>>
             y == After(x, n, s)
             lq == Len(q)
             lt == Len(t)
             sp == s[p]
  <1>0. /\ x[1] = p /\ x[2] = d
        /\ y = IF d + n = sp THEN <<p + 1, 0>> ELSE <<p, d + n>>
    BY DEF After
  <1>1. lq \in Nat /\ lt \in Nat /\ lt = lq + n /\ p \in Nat /\ sp \in Nat /\ d + n <= sp
    OBVIOUS
  <1>5. ASSUME NEW k \in (lq + 1)..lt PROVE t[k] = <<p, d + (k - lq - 1)>>
    <2>1. k - lq \in 1..n /\ k = lq + (k - lq) /\ d + (k - lq) - 1 = d + (k - lq - 1)
      BY <1>1
    <2> HIDE DEF lq
    <2>2. t[lq + (k - lq)] = <<p, d + (k - lq) - 1>>
      BY <2>1 DEF lq
    <2> QED
      BY <2>1, <2>2
  <1>6. \A j \in 1..lq : t[j] = q[j]
    OBVIOUS
  <1>7. \A k : Item(t, y, k) = (IF k <= lt THEN t[k] ELSE y) /\ Item(q, x, k) = (IF k <= lq THEN q[k] ELSE x)
    BY DEF Item
  <1>8. ASSUME NEW j \in 1..lq
        PROVE  /\ q[j][1] \in 1..Len(s) /\ q[j][2] \in Nat /\ q[j][2] < s[q[j][1]] /\ s[q[j][1]] \in Nat
               /\ q[j][1] < p \/ (q[j][1] = p /\ q[j][2] < d)
               /\ \A k \in j..(lq + 1) : q[j][2] + (k - j) <= s[q[j][1]] =>
                     Item(q, x, k) = After(q[j], k - j, s)
    <2>1. /\ q[j][1] \in 1..Len(s) /\ q[j][2] \in 0..(s[q[j][1]] - 1)
          /\ q[j][1] < p \/ (q[j][1] = p /\ q[j][2] < d)
          /\ \A k \in j..(lq + 1) : q[j][2] + (k - j) <= s[q[j][1]] =>
                Item(q, x, k) = After(q[j], k - j, s)
      BY DEF Ordered
    <2>2. s[q[j][1]] \in Nat
      BY <2>1
    <2>3. q[j][2] \in Nat /\ q[j][2] < s[q[j][1]]
      BY <2>1, <2>2
    <2> QED
      BY <2>1, <2>2, <2>3
  <1>9. \A w, m : After(w, m, s) = IF w[2] + m = s[w[1]] THEN <<w[1] + 1, 0>> ELSE <<w[1], w[2] + m>>
    BY DEF After
  <1> HIDE DEF x, y, lq, lt, sp
  <1>2. ASSUME NEW k \in (lq + 1)..(lt + 1)
        PROVE  Item(t, y, k) = IF d + (k - lq - 1) = sp THEN <<p + 1, 0>> ELSE <<p, d + (k - lq - 1)>>
    <2>1. CASE k <= lt
      <3>1. k \in (lq + 1)..lt /\ d + (k - lq - 1) # sp
        BY <1>1, <2>1
      <3> QED
        BY <1>5, <1>7, <2>1, <3>1
    <2>2. CASE ~(k <= lt)
      <3>1. k - lq - 1 = n
        BY <1>1, <2>2
      <3> QED
        BY <1>0, <1>7, <2>2, <3>1
    <2> QED
      BY <2>1, <2>2
  <1>10. SUFFICES ASSUME NEW j \in 1..lt
                  PROVE  /\ t[j][1] \in 1..Len(s) /\ t[j][2] \in Nat /\ t[j][2] < s[t[j][1]] /\ s[t[j][1]] \in Nat
                         /\ t[j][1] < y[1] \/ (t[j][1] = y[1] /\ t[j][2] < y[2])
                         /\ \A k \in j..(lt + 1) : t[j][2] + (k - j) <= s[t[j][1]] =>
                               Item(t, y, k) = After(t[j], k - j, s)
    <2>1. ASSUME NEW j \in 1..lt, t[j][2] \in Nat, s[t[j][1]] \in Nat, t[j][2] < s[t[j][1]]
          PROVE  t[j][2] \in 0..(s[t[j][1]] - 1)
      BY <2>1
    <2> QED
      BY <2>1 DEF Ordered, x, y, lt
  <1>3. CASE j <= lq
    <2> DEFINE a == t[j][1]
               b == t[j][2]
               c == s[t[j][1]]
    <2>1. j \in 1..lq
      BY <1>1, <1>3
    <2>5. t[j] = q[j]
      BY <1>6, <2>1
    <2>6. q[j][1] \in Nat
      BY <1>8, <2>1
    <2>2. /\ a \in 1..Len(s) /\ b \in Nat /\ b < c /\ c \in Nat /\ a \in Nat
          /\ a < p \/ (a = p /\ b < d)
          /\ \A k \in j..(lq + 1) : b + (k - j) <= c => Item(q, x, k) = After(t[j], k - j, s)
      BY <1>8, <2>1, <2>5, <2>6, Zenon
    <2>9. \A m : After(t[j], m, s) = IF b + m = c THEN <<a + 1, 0>> ELSE <<a, b + m>>
      BY <1>9
    <2> HIDE DEF a, b, c
    <2>3. a < y[1] \/ (a = y[1] /\ b < y[2])
      <3>1. CASE d + n = sp
        BY <1>0, <1>1, <2>2, <3>1
      <3>2. CASE d + n # sp
        BY <1>0, <1>1, <2>2, <3>2
      <3> QED
        BY <3>1, <3>2
    <2>4. ASSUME NEW k \in j..(lt + 1), b + (k - j) <= c
          PROVE  Item(t, y, k) = After(t[j], k - j, s)
      <3>1. CASE k <= lq
        <4>1. k <= lt /\ k \in 1..lq /\ k \in j..(lq + 1)
          BY <1>1, <2>1, <3>1
        <4>2. Item(t, y, k) = Item(q, x, k)
          BY <1>6, <1>7, <3>1, <4>1
        <4> QED
          BY <2>2, <2>4, <4>1, <4>2
      <3>2. CASE ~(k <= lq)
        <4>1. lq + 1 \in j..(lq + 1) /\ b + ((lq + 1) - j) <= c /\ k \in (lq + 1)..(lt + 1)
          BY <1>1, <2>1, <2>2, <2>4, <3>2
        <4>2. x = IF b + ((lq + 1) - j) = c THEN <<a + 1, 0>> ELSE <<a, b + ((lq + 1) - j)>>
          <5>1. ~(lq + 1 <= lq)
            BY <1>1
          <5>2. Item(q, x, lq + 1) = x
            BY <1>7, <5>1
          <5>3. Item(q, x, lq + 1) = After(t[j], (lq + 1) - j, s)
            BY <2>2, <4>1
          <5> QED
            BY <2>9, <5>2, <5>3
        <4>3. Item(t, y, k) = IF d + (k - lq - 1) = sp THEN <<p + 1, 0>> ELSE <<p, d + (k - lq - 1)>>
          BY <1>2, <4>1
        <4>4. CASE b + ((lq + 1) - j) = c
          <5>1. k = lq + 1 /\ b + (k - j) = c
            BY <1>1, <2>1, <2>2, <2>4, <4>1, <4>4
          <5>2. p = a + 1 /\ d = 0
            BY <4>2, <4>4 DEF x
          <5>3. d + (k - lq - 1) = 0 /\ 0 # sp
            BY <1>1, <5>1, <5>2
          <5> QED
            BY <2>9, <4>3, <5>1, <5>2, <5>3
        <4>5. CASE b + ((lq + 1) - j) # c
          <5>1. p = a /\ d = b + ((lq + 1) - j)
            BY <4>2, <4>5 DEF x
          <5>2. d + (k - lq - 1) = b + (k - j)
            BY <1>1, <2>1, <2>2, <4>1, <5>1
          <5>3. c = sp
            BY <5>1 DEF a, c, sp
          <5> QED
            BY <2>9, <4>3, <5>1, <5>2, <5>3
        <4> QED
          BY <4>4, <4>5
      <3> QED
        BY <3>1, <3>2
    <2> QED
      BY <2>2, <2>3, <2>4 DEF a, b, c
  <1>4. CASE ~(j <= lq)
    <2> DEFINE i == d + (j - lq - 1)
    <2>1. j \in (lq + 1)..lt
      BY <1>1, <1>4
    <2>2. t[j] = <<p, i>>
      BY <1>5, <2>1
    <2>3. t[j][1] = p /\ t[j][2] = i /\ s[t[j][1]] = sp
      BY <2>2 DEF sp
    <2>4. i \in Nat /\ i < d + n /\ i < sp
      BY <1>1, <2>1
    <2>5. t[j][1] < y[1] \/ (t[j][1] = y[1] /\ t[j][2] < y[2])
      <3>1. CASE d + n = sp
        BY <1>0, <1>1, <2>3, <2>4, <3>1
      <3>2. CASE d + n # sp
        BY <1>0, <1>1, <2>3, <2>4, <3>2
      <3> QED
        BY <3>1, <3>2
    <2>6. ASSUME NEW k \in j..(lt + 1)
          PROVE  Item(t, y, k) = After(t[j], k - j, s)
      <3>1. k \in (lq + 1)..(lt + 1) /\ d + (k - lq - 1) = i + (k - j)
        BY <1>1, <2>1
      <3>2. Item(t, y, k) = IF d + (k - lq - 1) = sp THEN <<p + 1, 0>> ELSE <<p, d + (k - lq - 1)>>
        BY <1>2, <3>1
      <3> HIDE DEF i
      <3>3. After(t[j], k - j, s) = IF i + (k - j) = sp THEN <<p + 1, 0>> ELSE <<p, i + (k - j)>>
        BY <1>9, <2>3
      <3> QED
        BY <3>1, <3>2, <3>3
    <2> HIDE DEF i
    <2> QED
      BY <1>1, <2>3, <2>4, <2>5, <2>6
  <1> QED
    BY <1>3, <1>4

(* Reading: the words behind the first n. *)
LEMMA OrderedGet ==
    ASSUME NEW q, NEW t, NEW x, NEW s, Len(q) \in Nat, Len(t) \in Nat, NEW n \in Nat,
           Ordered(q, x, s),
           Len(q) = n + Len(t),
           \A j \in 1..Len(t) : t[j] = q[n + j]
    PROVE  Ordered(t, x, s) /\ Item(t, x, 1) = Item(q, x, n + 1)
  <1>1. ASSUME NEW k \in 1..(Len(t) + 1) PROVE Item(t, x, k) = Item(q, x, n + k)
    <2>1. CASE k <= Len(t)
      BY <2>1 DEF Item
    <2>2. CASE ~(k <= Len(t))
      BY <2>2 DEF Item
    <2> QED
      BY <2>1, <2>2
  <1>2. ASSUME NEW j \in 1..Len(t)
        PROVE  /\ t[j][1] \in 1..Len(s) /\ t[j][2] \in 0..(s[t[j][1]] - 1)
               /\ t[j][1] < x[1] \/ (t[j][1] = x[1] /\ t[j][2] < x[2])
               /\ \A k \in j..(Len(t) + 1) : t[j][2] + (k - j) <= s[t[j][1]] =>
                     Item(t, x, k) = After(t[j], k - j, s)
    <2> DEFINE i == n + j
    <2>1. i \in 1..Len(q) /\ t[j] = q[i]
      OBVIOUS
    <2>2. /\ t[j][1] \in 1..Len(s) /\ t[j][2] \in 0..(s[t[j][1]] - 1)
          /\ t[j][1] < x[1] \/ (t[j][1] = x[1] /\ t[j][2] < x[2])
          /\ \A k \in i..(Len(q) + 1) : t[j][2] + (k - i) <= s[t[j][1]] =>
                Item(q, x, k) = After(t[j], k - i, s)
      <3> HIDE DEF i
      <3>1. /\ q[i][1] \in 1..Len(s) /\ q[i][2] \in 0..(s[q[i][1]] - 1)
            /\ q[i][1] < x[1] \/ (q[i][1] = x[1] /\ q[i][2] < x[2])
            /\ \A k \in i..(Len(q) + 1) : q[i][2] + (k - i) <= s[q[i][1]] =>
                  Item(q, x, k) = After(q[i], k - i, s)
        BY <2>1, Zenon DEF Ordered
      <3> QED
        BY <2>1, <3>1, Zenon
    <2>3. ASSUME NEW k \in j..(Len(t) + 1), t[j][2] + (k - j) <= s[t[j][1]]
          PROVE  Item(t, x, k) = After(t[j], k - j, s)
      <3>1. k \in 1..(Len(t) + 1) /\ n + k \in i..(Len(q) + 1) /\ (n + k) - i = k - j
        OBVIOUS
      <3>2. Item(t, x, k) = Item(q, x, n + k)
        BY <1>1, <3>1
      <3> HIDE DEF i
      <3>3. Item(q, x, n + k) = After(t[j], (n + k) - i, s)
        BY <2>2, <2>3, <3>1
      <3> QED
        BY <3>1, <3>2, <3>3
    <2> QED
      BY <2>2, <2>3
  <1>3. Item(t, x, 1) = Item(q, x, n + 1)
    BY <1>1
  <1> QED
    BY <1>2, <1>3 DEF Ordered

(* The first n words of q are w and those behind it in its packet. *)
RunOf(q, n, w) == \A j \in 1..n : q[j] = <<w[1], w[2] + (j - 1)>>

(* What is read from the front: as long as it ends in the packet of the   *)
(* first word, that packet's words; then the packet goes on, or the next   *)
(* one begins.                                                             *)
LEMMA OrderedTake ==
    ASSUME NEW q, NEW x, NEW s, NEW w, NEW n \in Nat, Len(q) \in Nat, n <= Len(q), Len(q) > 0,
           Ordered(q, x, s), Item(q, x, 1) = w, w[2] \in Nat, s[w[1]] \in Nat, w[2] + n <= s[w[1]]
    PROVE  Item(q, x, n + 1) = After(w, n, s) /\ RunOf(q, n, w)
  <1>1. 1 \in 1..Len(q) /\ q[1] = w
    BY DEF Item
  <1>2. \A k \in 1..(Len(q) + 1) : q[1][2] + (k - 1) <= s[q[1][1]] =>
           Item(q, x, k) = After(q[1], k - 1, s)
    BY <1>1, Zenon DEF Ordered
  <1>3. \A k \in 1..(Len(q) + 1) : w[2] + (k - 1) <= s[w[1]] => Item(q, x, k) = After(w, k - 1, s)
    BY <1>1, <1>2
  <1>4. Item(q, x, n + 1) = After(w, n, s)
    <2>1. n + 1 \in 1..(Len(q) + 1) /\ (n + 1) - 1 = n
      OBVIOUS
    <2> QED
      BY <1>3, <2>1
  <1>5. ASSUME NEW j \in 1..n PROVE q[j] = <<w[1], w[2] + (j - 1)>>
    <2>1. j \in 1..(Len(q) + 1) /\ j <= Len(q) /\ w[2] + (j - 1) <= s[w[1]] /\ w[2] + (j - 1) # s[w[1]]
      OBVIOUS
    <2>2. Item(q, x, j) = After(w, j - 1, s)
      BY <1>3, <2>1
    <2> QED
      BY <2>1, <2>2 DEF Item, After
  <1> QED
    BY <1>4, <1>5 DEF RunOf

(* The initial ring. *)
LEMMA WholeInit == Init => WholeInv
  <1> SUFFICES ASSUME Init PROVE WholeInv
    OBVIOUS
  <1>1. RxAvail = 0
    BY DEF Init, RxAvail
  <1>2. Unread = <<>> /\ Len(Unread) = 0
    BY <1>1 DEF Unread, Peek
  <1>3. Ordered(Unread, NextIn, sent)
    BY <1>2 DEF Ordered
  <1>4. NextIn = <<1, 0>> /\ Len(ring.buf) = 0 /\ got = 0 /\ rpc = "idle" /\ garbled = 0 /\ ring.buf = <<>>
    BY DEF Init, NextIn
  <1>5. Item(Unread, NextIn, 1) = <<1, 0>>
    BY <1>2, <1>4 DEF Item
  <1> QED
    BY <1>3, <1>4, <1>5 DEF WholeInv

(* Packets have lengths, of at least a header. *)
LEMMA SentLengths ==
    ASSUME TypeOK
    PROVE  /\ sent \in Seq(Nat) /\ Len(sent) \in Nat
           /\ \A i \in 1..Len(sent) : sent[i] \in Nat /\ sent[i] >= H
           /\ H \in Nat /\ SizeAt \in Nat /\ 0 < SizeAt /\ SizeAt < H /\ H <= L
  <1>1. Sizes \subseteq Nat /\ \A n \in Sizes : n >= H
    BY PacketAssumption
  <1>2. sent \in Seq(Sizes)
    BY DEF TypeOK
  <1>3. Len(sent) \in Nat /\ \A i \in 1..Len(sent) : sent[i] \in Sizes
    BY <1>2
  <1>4. sent \in Seq(Nat)
    <2>1. sent \in [1..Len(sent) -> Sizes]
      BY <1>2
    <2>2. sent \in [1..Len(sent) -> Nat]
      BY <1>1, <2>1
    <2> QED
      BY <1>3, <2>2
  <1>5. H \in Nat /\ SizeAt \in Nat /\ 0 < SizeAt /\ SizeAt < H /\ H <= L
    BY PacketAssumption
  <1> QED
    BY <1>1, <1>3, <1>4, <1>5

(* What the receiver is in the middle of is a packet that was sent, and    *)
(* not one of which nothing is written yet.                                *)
LEMMA Within ==
    ASSUME FifoInv, WholeInv, torn = 0, ring.buf # <<>> \/ unread > 0
    PROVE  got + 1 \in 1..Len(sent) /\ (NextIn[2] = 0 => got + 1 < NextIn[1])
  <1> USE DEF FifoInv
  <1>1. /\ Ordered(Unread, NextIn, sent)
        /\ Item(Unread, NextIn, 1) = <<got + 1, Len(ring.buf)>>
    BY DEF WholeInv
  <1>2. Len(Unread) = unread /\ unread \in Nat
    BY UnreadSeq DEF RingExact, TypeOK
  <1>3. CASE unread > 0
    <2>1. 1 \in 1..Len(Unread) /\ Unread[1] = <<got + 1, Len(ring.buf)>>
      BY <1>1, <1>2, <1>3 DEF Item
    <2>2. Unread[1][1] = got + 1 /\ Unread[1][2] = Len(ring.buf)
      BY <2>1
    <2>3. /\ Unread[1][1] \in 1..Len(sent)
          /\ Unread[1][1] < NextIn[1] \/ (Unread[1][1] = NextIn[1] /\ Unread[1][2] < NextIn[2])
      BY <1>1, <2>1, Zenon DEF Ordered
    <2>4. Len(ring.buf) \in Nat
      BY DEF TypeOK
    <2>5. Len(ring.buf) < NextIn[2] => NextIn[2] # 0
      BY <2>4
    <2> QED
      BY <2>2, <2>3, <2>5
  <1>4. CASE unread = 0
    <2>1. ~(1 <= Len(Unread))
      BY <1>2, <1>4
    <2>2. NextIn = <<got + 1, Len(ring.buf)>>
      BY <1>1, <2>1 DEF Item
    <2>3. Len(ring.buf) \in Nat /\ Len(ring.buf) # 0
      BY <1>4 DEF TypeOK
    <2>4. wpc # "idle" /\ got + 1 = Len(sent)
      BY <2>2, <2>3 DEF NextIn
    <2>5. Len(sent) \in Nat /\ Len(sent) > 0
      BY <2>4 DEF TypeOK, SendInv
    <2> QED
      BY <2>2, <2>3, <2>4, <2>5
  <1> QED
    BY <1>2, <1>3, <1>4

(* Steps that leave the ring and the receiver's packet alone. *)
LEMMA WholeSame ==
    ASSUME WholeInv,
           UNCHANGED <<head, tail, cell, left, pktLen, ring, sent, got, unread, torn, garbled>>,
           wpc' = "idle" <=> wpc = "idle",
           rpc' = "peeked" => rpc = "peeked"
    PROVE  WholeInv'
  <1>1. Unread' = Unread
    BY DEF Unread, Peek, RxAvail
  <1>2. NextIn' = NextIn
    BY DEF NextIn, Done
  <1> QED
    BY <1>1, <1>2 DEF WholeInv

(* qrtr_gunyah_send() begins a packet. *)
LEMMA WholeSend ==
    ASSUME FifoInv, WholeInv, NEW n \in Sizes, Send(n)
    PROVE  WholeInv'
  <1> USE DEF FifoInv
  <1>1. CASE torn # 0
    BY <1>1 DEF Send, WholeInv
  <1>2. CASE torn = 0
    <2>1. /\ Ordered(Unread, NextIn, sent) /\ garbled = 0
          /\ Item(Unread, NextIn, 1) = <<got + 1, Len(ring.buf)>>
          /\ \A j \in 1..Len(ring.buf) : ring.buf[j] = <<got + 1, j - 1>>
          /\ ring.buf # <<>> => ring.len = sent[got + 1]
          /\ rpc = "peeked" => ring.buf = <<>> /\ unread > 0 /\ pktLen = sent[got + 1]
      BY <1>2 DEF WholeInv
    <2>2. /\ sent' = Append(sent, n) /\ left' = n /\ wpc = "idle" /\ wpc' = "write"
          /\ UNCHANGED <<head, tail, cell, pktLen, ring, rpc, got, unread, torn, garbled>>
      BY DEF Send, receiverVars
    <2>3. sent \in Seq(Nat) /\ Len(sent) \in Nat /\ n \in Nat
      BY SentLengths, PacketAssumption
    <2>4. /\ sent' \in Seq(Nat) /\ Len(sent') = Len(sent) + 1 /\ sent'[Len(sent) + 1] = n
          /\ \A i \in 1..Len(sent) : i \in 1..Len(sent') /\ sent'[i] = sent[i]
      BY <2>2, <2>3
    <2>5. Unread' = Unread
      BY <2>2 DEF Unread, Peek, RxAvail
    <2>6. NextIn' = NextIn
      <3>1. NextIn = <<Len(sent) + 1, 0>> /\ NextIn' = <<Len(sent'), sent'[Len(sent')] - left'>>
        BY <2>2 DEF NextIn, Done
      <3>2. sent'[Len(sent')] - left' = 0
        BY <2>2, <2>3, <2>4
      <3> QED
        BY <2>4, <3>1, <3>2
    <2>7. Ordered(Unread, NextIn, sent')
      <3>1. \A j \in 1..Len(Unread) : Unread[j][1] \in 1..Len(sent)
        BY <2>1, Zenon DEF Ordered
      <3>2. \A j \in 1..Len(Unread) : Unread[j][1] \in 1..Len(sent') /\ sent'[Unread[j][1]] = sent[Unread[j][1]]
        BY <2>4, <3>1
      <3> QED
        BY <2>1, <2>3, <2>4, <3>2, OrderedSame, UnreadSeq
    <2>8. ring.buf # <<>> \/ unread > 0 => sent'[got + 1] = sent[got + 1]
      BY <1>2, <2>4, Within
    <2> QED
      BY <2>1, <2>2, <2>5, <2>6, <2>7, <2>8 DEF WholeInv
  <1> QED
    BY <1>1, <1>2

(* gunyah_tx_write() goes on with it. *)
LEMMA WholeChunk ==
    ASSUME FifoInv, FifoInv', WholeInv, SendChunk
    PROVE  WholeInv'
  <1> USE DEF FifoInv
  <1>1. CASE torn # 0
    BY <1>1 DEF SendChunk, WholeInv
  <1>2. CASE torn = 0
    <2>1. /\ Ordered(Unread, NextIn, sent) /\ garbled = 0
          /\ Item(Unread, NextIn, 1) = <<got + 1, Len(ring.buf)>>
          /\ \A j \in 1..Len(ring.buf) : ring.buf[j] = <<got + 1, j - 1>>
          /\ ring.buf # <<>> => ring.len = sent[got + 1]
          /\ rpc = "peeked" => ring.buf = <<>> /\ unread > 0 /\ pktLen = sent[got + 1]
      BY <1>2 DEF WholeInv
    <2>2. /\ wpc = "write" /\ left' = left - Chunk /\ unread' = unread + Chunk
          /\ wpc' = IF left = Chunk THEN "idle" ELSE "write"
          /\ UNCHANGED <<sent, pktLen, ring, rpc, got, torn, garbled>>
      BY DEF SendChunk, receiverVars, Chunk
    <2>3. /\ Chunk \in Nat \ {0} /\ Chunk <= left /\ Done \in Nat
          /\ Len(Unread') = Len(Unread) + Chunk
          /\ \A j \in 1..Len(Unread) : Unread'[j] = Unread[j]
          /\ \A j \in 1..Chunk : Unread'[Len(Unread) + j] = <<Len(sent), Done + j - 1>>
      BY ChunkWords
    <2>4. Len(Unread) \in Nat
      BY UnreadSeq
    <2>5. /\ Len(sent) \in Nat /\ Len(sent) > 0 /\ Len(sent) \in 1..Len(sent)
          /\ left \in Nat /\ left <= sent[Len(sent)]
          /\ \A i \in 1..Len(sent) : sent[i] \in Nat
      <3>1. Len(sent) \in Nat /\ \A i \in 1..Len(sent) : sent[i] \in Nat
        BY SentLengths
      <3>2. Len(sent) > 0 /\ left \in Nat /\ left <= sent[Len(sent)]
        BY <2>2 DEF SendInv, TypeOK
      <3> QED
        BY <3>1, <3>2
    <2>6. Done + Chunk <= sent[Len(sent)] /\ (Done + Chunk = sent[Len(sent)] <=> left = Chunk)
      <3>1. sent[Len(sent)] \in Nat
        BY <2>5
      <3>2. Chunk \in Nat /\ Chunk <= left /\ left \in Nat /\ Done = sent[Len(sent)] - left
        BY <2>3, <2>5 DEF Done
      <3> QED
        BY <3>1, <3>2
    <2>7. NextIn = <<Len(sent), Done>>
      BY <2>2 DEF NextIn
    <2>8. NextIn' = After(<<Len(sent), Done>>, Chunk, sent)
      <3>1. After(<<Len(sent), Done>>, Chunk, sent)
              = IF Done + Chunk = sent[Len(sent)] THEN <<Len(sent) + 1, 0>> ELSE <<Len(sent), Done + Chunk>>
        BY DEF After
      <3>2. NextIn' = IF left = Chunk THEN <<Len(sent) + 1, 0>> ELSE <<Len(sent), sent[Len(sent)] - (left - Chunk)>>
        BY <2>2 DEF NextIn, Done
      <3>3. sent[Len(sent)] - (left - Chunk) = Done + Chunk
        BY <2>3, <2>5 DEF Done
      <3> QED
        BY <2>6, <3>1, <3>2, <3>3
    <2>9. Ordered(Unread', NextIn', sent)
      <3> DEFINE p == Len(sent)
                 d == Done
                 n == Chunk
                 t == Unread'
      <3>1. /\ p \in 1..Len(sent) /\ d \in Nat /\ n \in Nat \ {0} /\ d + n <= sent[p]
            /\ Ordered(Unread, <<p, d>>, sent) /\ Len(t) = Len(Unread) + n
            /\ \A j \in 1..Len(Unread) : t[j] = Unread[j]
            /\ \A j \in 1..n : t[Len(Unread) + j] = <<p, d + j - 1>>
        BY <2>1, <2>3, <2>5, <2>6, <2>7
      <3> HIDE DEF p, d, n, t
      <3>2. Ordered(t, After(<<p, d>>, n, sent), sent)
        BY <2>4, <2>5, <3>1, OrderedPut
      <3> QED
        BY <2>8, <3>2 DEF p, d, n, t
    <2>10. Item(Unread', NextIn', 1) = Item(Unread, NextIn, 1)
      <3>1. 1 <= Len(Unread')
        BY <2>3, <2>4
      <3>2. CASE 1 <= Len(Unread)
        BY <2>3, <2>4, <3>1, <3>2 DEF Item
      <3>3. CASE Len(Unread) = 0
        <4>1. 1 \in 1..Chunk /\ Len(Unread) + 1 = 1 /\ Done + 1 - 1 = Done
          BY <2>3, <3>3
        <4>2. Unread'[Len(Unread) + 1] = <<Len(sent), Done + 1 - 1>>
          BY <2>3, <4>1
        <4>3. Unread'[1] = <<Len(sent), Done>>
          BY <4>1, <4>2
        <4> QED
          BY <2>7, <3>1, <3>3, <4>3 DEF Item
      <3> QED
        BY <2>4, <3>2, <3>3
    <2>11. unread \in Nat /\ (unread > 0 => unread' > 0)
      BY <2>2, <2>3 DEF TypeOK
    <2> QED
      BY <2>1, <2>2, <2>9, <2>10, <2>11 DEF WholeInv
  <1> QED
    BY <1>1, <1>2

(* The sender gives a packet up of which nothing is written. *)
LEMMA WholeGivenUp ==
    ASSUME FifoInv, WholeInv, torn = 0, wpc = "sleep", left = sent[Len(sent)],
           wpc' = "idle", sent' = SubSeq(sent, 1, Len(sent) - 1),
           UNCHANGED <<head, tail, cell, pktLen, ring, rpc, got, unread, torn, garbled>>
    PROVE  WholeInv'
  <1> USE DEF FifoInv
  <1>1. /\ Ordered(Unread, NextIn, sent) /\ garbled = 0
        /\ Item(Unread, NextIn, 1) = <<got + 1, Len(ring.buf)>>
        /\ \A j \in 1..Len(ring.buf) : ring.buf[j] = <<got + 1, j - 1>>
        /\ ring.buf # <<>> => ring.len = sent[got + 1]
        /\ rpc = "peeked" => ring.buf = <<>> /\ unread > 0 /\ pktLen = sent[got + 1]
    BY DEF WholeInv
  <1>2. sent \in Seq(Nat) /\ Len(sent) \in Nat /\ Len(sent) > 0 /\ sent[Len(sent)] \in Nat
    BY SentLengths DEF SendInv
  <1>3. /\ sent' \in Seq(Nat) /\ Len(sent') = Len(sent) - 1
        /\ \A i \in 1..(Len(sent) - 1) : sent'[i] = sent[i]
    <2> DEFINE m == Len(sent) - 1
    <2>1. m \in Nat /\ 1 \in Int /\ \A i \in 1..m : sent[i] \in Nat
      BY <1>2
    <2> HIDE DEF m
    <2>2. /\ SubSeq(sent, 1, m) \in Seq(Nat)
          /\ Len(SubSeq(sent, 1, m)) = IF 1 <= m THEN m - 1 + 1 ELSE 0
          /\ \A i \in 1..(m - 1 + 1) : SubSeq(sent, 1, m)[i] = sent[1 + i - 1]
      BY <2>1, SubSeqProperties
    <2>3. m - 1 + 1 = m /\ (IF 1 <= m THEN m - 1 + 1 ELSE 0) = m /\ \A i \in 1..m : 1 + i - 1 = i
      BY <2>1
    <2> QED
      BY <2>2, <2>3 DEF m
  <1>4. Unread' = Unread
    BY DEF Unread, Peek, RxAvail
  <1>5. NextIn = <<Len(sent), 0>> /\ NextIn' = NextIn
    <2>1. Done = 0 /\ Len(sent') + 1 = Len(sent)
      BY <1>2, <1>3 DEF Done
    <2> QED
      BY <2>1 DEF NextIn
  <1>6. Ordered(Unread, NextIn, sent')
    <2>1. ASSUME NEW j \in 1..Len(Unread)
          PROVE  Unread[j][1] \in 1..Len(sent') /\ sent'[Unread[j][1]] = sent[Unread[j][1]]
      <3>1. /\ Unread[j][1] \in 1..Len(sent) /\ Unread[j][2] \in 0..(sent[Unread[j][1]] - 1)
            /\ Unread[j][1] < NextIn[1] \/ (Unread[j][1] = NextIn[1] /\ Unread[j][2] < NextIn[2])
        BY <1>1, Zenon DEF Ordered
      <3>2. NextIn[1] = Len(sent) /\ NextIn[2] = 0
        BY <1>5
      <3>3. sent[Unread[j][1]] \in Nat
        <4>1. \A i \in 1..Len(sent) : sent[i] \in Nat
          BY <1>2
        <4>2. Unread[j][1] \in 1..Len(sent)
          BY <3>1
        <4> QED
          BY <4>1, <4>2, Zenon
      <3>4. ~(Unread[j][2] < 0)
        BY <3>1, <3>3
      <3>5. Unread[j][1] \in 1..(Len(sent) - 1)
        BY <1>2, <3>1, <3>2, <3>4
      <3> QED
        BY <1>3, <3>5
    <2> QED
      BY <1>1, <1>2, <1>3, <2>1, OrderedSame, UnreadSeq
  <1>7. ring.buf # <<>> \/ unread > 0 => sent'[got + 1] = sent[got + 1]
    <2>1. NextIn[1] = Len(sent) /\ NextIn[2] = 0
      BY <1>5
    <2>2. ring.buf # <<>> \/ unread > 0 => got + 1 \in 1..Len(sent) /\ got + 1 < Len(sent)
      BY <2>1, Within
    <2>3. ring.buf # <<>> \/ unread > 0 => got + 1 \in 1..(Len(sent) - 1)
      BY <1>2, <2>2
    <2> QED
      BY <1>3, <2>3
  <1> QED
    BY <1>1, <1>4, <1>5, <1>6, <1>7 DEF WholeInv

(* gunyah_rx_peak() of what is there is the front of the unread words. *)
LEMMA PeekFront ==
    ASSUME FifoInv, NEW n \in Nat, n <= RxAvail
    PROVE  Peek(n) \in Seq(Words) /\ Len(Peek(n)) = n /\ \A j \in 1..n : Peek(n)[j] = Unread[j]
  <1> USE DEF FifoInv
  <1>1. RxAvail \in 0..L /\ \A j \in 1..RxAvail : Unread[j] = cell[Place(j)]
    BY UnreadSeq
  <1>2. n <= L /\ \A j \in 1..n : j \in 1..RxAvail
    BY <1>1, RingAssumption
  <1>3. \A j \in 1..n : Peek(n)[j] = cell[Place(j)]
    BY DEF Peek, Place
  <1> QED
    BY <1>1, <1>2, <1>3, PeekType

(* qrtr_gunyah_read_new() reads the length of the next packet, if the size *)
(* field is there.                                                         *)
LEMMA WholePeek ==
    ASSUME FifoInv, WholeInv, PeekHeader
    PROVE  WholeInv'
  <1> USE DEF FifoInv
  <1>1. CASE torn' # 0
    BY <1>1 DEF WholeInv
  <1>2. CASE torn' = 0
    <2>1. /\ rpc = "loop" /\ RxAvail > 0 /\ ring.buf = <<>> /\ rpc' = "peeked"
          /\ pktLen' \in PeekPktSize(Peek(H)) /\ torn = 0 /\ ~(RxAvail <= SizeAt)
          /\ UNCHANGED <<head, tail, cell, wpc, left, sent, ring, got, garbled, unread>>
      BY <1>2 DEF PeekHeader, senderVars
    <2>2. /\ Ordered(Unread, NextIn, sent) /\ garbled = 0
          /\ Item(Unread, NextIn, 1) = <<got + 1, Len(ring.buf)>>
          /\ \A j \in 1..Len(ring.buf) : ring.buf[j] = <<got + 1, j - 1>>
      BY <2>1 DEF WholeInv
    <2>3. /\ RxAvail \in Nat /\ RxAvail <= L /\ Len(Unread) = RxAvail /\ unread = RxAvail
          /\ \A j \in 1..RxAvail : Unread[j] = cell[Place(j)]
      BY UnreadSeq, RingAssumption DEF RingExact
    <2>4. /\ H \in Nat /\ SizeAt \in Nat /\ 0 < SizeAt /\ SizeAt < H /\ H <= L
          /\ \A i \in 1..Len(sent) : sent[i] \in Nat /\ sent[i] >= H
      BY SentLengths
    <2>5. got \in Nat /\ got + 1 \in 1..Len(sent)
      BY <2>1, <2>3, Within DEF TypeOK
    <2>6. sent[got + 1] \in Nat /\ sent[got + 1] >= H
      BY <2>4, <2>5
    <2>7. Unread[1] = <<got + 1, 0>> /\ Unread[SizeAt + 1] = <<got + 1, SizeAt>>
      <3> DEFINE n == SizeAt + 1
                 w == <<got + 1, 0>>
      <3>1. /\ n \in Nat /\ n <= Len(Unread) /\ Len(Unread) \in Nat /\ Len(Unread) > 0
            /\ 0 + n <= sent[got + 1] /\ 1 \in 1..n /\ n \in 1..n
            /\ 0 + (1 - 1) = 0 /\ 0 + (n - 1) = SizeAt
        BY <2>1, <2>3, <2>4, <2>6
      <3>2. Item(Unread, NextIn, 1) = w /\ w[1] = got + 1 /\ w[2] = 0
        BY <2>1, <2>2
      <3> HIDE DEF n, w
      <3>3. w[2] \in Nat /\ sent[w[1]] \in Nat /\ w[2] + n <= sent[w[1]]
        BY <2>6, <3>1, <3>2
      <3>4. RunOf(Unread, n, w)
        BY <2>2, <3>1, <3>2, <3>3, OrderedTake, Zenon
      <3>5. Unread[1] = <<w[1], w[2] + (1 - 1)>> /\ Unread[n] = <<w[1], w[2] + (n - 1)>>
        BY <3>1, <3>4 DEF RunOf
      <3> QED
        BY <3>1, <3>2, <3>5 DEF n
    <2>8. Peek(H)[1] = Unread[1] /\ Peek(H)[SizeAt + 1] = Unread[SizeAt + 1]
      <3>1. 1 \in 1..H /\ SizeAt + 1 \in 1..H /\ 1 \in 1..RxAvail /\ SizeAt + 1 \in 1..RxAvail
        BY <2>1, <2>3, <2>4
      <3>2. \A j \in 1..H : Peek(H)[j] = cell[Place(j)]
        BY DEF Peek, Place
      <3> QED
        BY <2>3, <3>1, <3>2
    <2>9. PeekPktSize(Peek(H)) = {sent[got + 1]}
      <3> DEFINE ver == Peek(H)[1]
                 size == Peek(H)[SizeAt + 1]
      <3>1. ver = <<got + 1, 0>> /\ size = <<got + 1, SizeAt>>
        BY <2>7, <2>8
      <3>2. /\ ver # <<0, 0>> /\ size # <<0, 0>> /\ ver[1] > 0 /\ ver[2] = 0
            /\ size[1] = got + 1 /\ size[2] = SizeAt /\ size[1] \in DOMAIN sent
        BY <2>4, <2>5, <3>1 DEF TypeOK
      <3>3. PeekPktSize(Peek(H)) =
               CASE ver = <<0, 0>> -> {-1}
                 [] ver[1] > 0 /\ ver[2] = 0 /\ size = <<0, 0>> -> {H}
                 [] ver[1] > 0 /\ ver[2] = 0 /\ size[1] \in DOMAIN sent /\ size[2] = SizeAt -> {sent[size[1]]}
                 [] OTHER -> Sizes \cup {H, -1}
        BY DEF PeekPktSize
      <3> HIDE DEF ver, size
      <3> QED
        BY <3>2, <3>3
    <2>10. Unread' = Unread /\ NextIn' = NextIn
      BY <2>1 DEF Unread, Peek, RxAvail, NextIn, Done
    <2>11. pktLen' = sent[got + 1] /\ unread > 0
      BY <2>1, <2>3, <2>9
    <2> QED
      BY <2>1, <2>2, <2>10, <2>11 DEF WholeInv
  <1> QED
    BY <1>1, <1>2

(* Taking n more words of the packet that the receiver is in. *)
LEMMA WholeTake ==
    ASSUME FifoInv, FifoInv', WholeInv, torn = 0, unread > 0,
           NEW n \in Nat, n <= RxAvail, Len(ring.buf) + n <= sent[got + 1], Advance(n),
           head' = head, cell' = cell
    PROVE  /\ RunOf(Peek(n), n, <<got + 1, Len(ring.buf)>>)
           /\ Ordered(Unread', NextIn, sent)
           /\ Item(Unread', NextIn, 1) = After(<<got + 1, Len(ring.buf)>>, n, sent)
  <1>1. /\ RxAvail' = RxAvail - n /\ RxAvail \in 0..L /\ RxAvail' \in 0..L
        /\ Len(Unread) = RxAvail /\ Len(Unread') = RxAvail'
        /\ \A j \in 1..RxAvail' : Unread'[j] = Unread[n + j]
    BY AdvanceWords
  <1>2. Len(Unread) \in Nat /\ Len(Unread') \in Nat /\ Len(Unread) = n + Len(Unread')
    BY <1>1
  <1>10. \A j \in 1..Len(Unread') : Unread'[j] = Unread[n + j]
    BY <1>1
  <1>3. Len(Unread) > 0 /\ Len(ring.buf) \in Nat
    BY <1>1 DEF FifoInv, RingExact, TypeOK
  <1> DEFINE w == <<got + 1, Len(ring.buf)>>
  <1>4. Ordered(Unread, NextIn, sent) /\ Item(Unread, NextIn, 1) = w
    BY DEF WholeInv
  <1>5. w[2] \in Nat /\ sent[w[1]] \in Nat /\ w[2] + n <= sent[w[1]] /\ n <= Len(Unread)
    <2>1. got + 1 \in 1..Len(sent)
      BY Within
    <2>2. w[1] = got + 1 /\ w[2] = Len(ring.buf)
      OBVIOUS
    <2> HIDE DEF w
    <2> QED
      BY <1>1, <1>3, <2>1, <2>2, SentLengths DEF FifoInv
  <1> HIDE DEF w
  <1>6. Item(Unread, NextIn, n + 1) = After(w, n, sent) /\ RunOf(Unread, n, w)
    BY <1>2, <1>3, <1>4, <1>5, OrderedTake
  <1>9. Ordered(Unread', NextIn, sent) /\ Item(Unread', NextIn, 1) = Item(Unread, NextIn, n + 1)
    BY <1>2, <1>4, <1>10, OrderedGet
  <1>7. \A j \in 1..n : Peek(n)[j] = Unread[j]
    BY PeekFront
  <1>8. RunOf(Peek(n), n, w)
    BY <1>6, <1>7 DEF RunOf
  <1> QED
    BY <1>6, <1>8, <1>9 DEF w

(* A complete packet is the next one, and delivered as such. *)
LEMMA WholePost ==
    ASSUME FifoInv, got + 1 \in 1..Len(sent), NEW pkt \in Seq(Words), Len(pkt) = sent[got + 1],
           \A j \in 1..Len(pkt) : pkt[j] = <<got + 1, j - 1>>, EndpointPost(pkt)
    PROVE  got' = got + 1 /\ garbled' = garbled
  <1>1. pkt = [j \in 1..Len(pkt) |-> <<got + 1, j - 1>>]
    <2>1. pkt = [j \in 1..Len(pkt) |-> pkt[j]]
      OBVIOUS
    <2> QED
      BY <2>1
  <1>2. pkt = Packet(got + 1)
    BY <1>1 DEF Packet
  <1>3. got \in Nat /\ Len(sent) \in Nat
    BY SentLengths DEF FifoInv, TypeOK
  <1>4. got < Len(sent)
    BY <1>3
  <1> QED
    BY <1>2, <1>4 DEF EndpointPost

(* The rest of qrtr_gunyah_read_new(). *)
LEMMA WholeReadNew ==
    ASSUME FifoInv, FifoInv', WholeInv, ReadNew
    PROVE  WholeInv'
  <1>1. CASE torn # 0
    BY <1>1 DEF ReadNew, WholeInv
  <1>2. CASE torn = 0
    <2> DEFINE n == Min2(RxAvail, pktLen)
    <2>1. /\ garbled = 0 /\ ring.buf = <<>> /\ unread > 0 /\ pktLen = sent[got + 1]
          /\ Ordered(Unread, NextIn, sent)
      BY <1>2 DEF ReadNew, WholeInv
    <2>2. got \in Nat /\ got + 1 \in 1..Len(sent)
      BY <1>2, <2>1, Within DEF FifoInv, TypeOK
    <2>3. pktLen \in Nat /\ pktLen > 0
      BY <2>1, <2>2, SentLengths DEF FifoInv
    <2>4. RxAvail \in Nat /\ RxAvail > 0
      BY <2>1 DEF FifoInv, RingExact, TypeOK
    <2>5. n \in Nat /\ n <= RxAvail /\ n <= pktLen /\ n > 0
      BY <2>3, <2>4 DEF Min2
    <2>6. /\ Advance(n) /\ rpc' = "notify" /\ torn' = 0
          /\ UNCHANGED <<head, cell, wpc, left, sent>>
          /\ \/ n = pktLen /\ EndpointPost(Peek(n)) /\ ring' = ring
             \/ n # pktLen /\ ring' = [buf |-> Peek(n), len |-> pktLen] /\ UNCHANGED <<got, garbled>>
      BY <1>2, <2>3 DEF ReadNew, senderVars
    <2> HIDE DEF n
    <2>7. Len(ring.buf) = 0 /\ Len(ring.buf) + n <= sent[got + 1] /\ 0 + n = n
      BY <2>1, <2>5
    <2>13. NextIn' = NextIn /\ sent' = sent /\ head' = head /\ cell' = cell
      BY <2>6 DEF NextIn, Done
    <2>14. /\ RunOf(Peek(n), n, <<got + 1, Len(ring.buf)>>)
           /\ Ordered(Unread', NextIn, sent)
           /\ Item(Unread', NextIn, 1) = After(<<got + 1, Len(ring.buf)>>, n, sent)
      BY <1>2, <2>1, <2>5, <2>6, <2>7, <2>13, WholeTake
    <2>8. /\ Ordered(Unread', NextIn', sent')
          /\ Item(Unread', NextIn', 1) = IF n = sent[got + 1] THEN <<got + 1 + 1, 0>> ELSE <<got + 1, n>>
      <3>1. After(<<got + 1, Len(ring.buf)>>, n, sent)
              = IF n = sent[got + 1] THEN <<got + 1 + 1, 0>> ELSE <<got + 1, n>>
        BY <2>7 DEF After
      <3> QED
        BY <2>13, <2>14, <3>1
    <2>9. \A j \in 1..n : Peek(n)[j] = <<got + 1, j - 1>>
      <3>1. \A j \in 1..n : 0 + (j - 1) = j - 1
        BY <2>5
      <3> QED
        BY <2>7, <2>14, <3>1 DEF RunOf
    <2>10. Peek(n) \in Seq(Words) /\ Len(Peek(n)) = n
      BY <2>5, PeekFront
    <2>11. CASE n = pktLen
      <3>1. EndpointPost(Peek(n)) /\ ring' = ring
        BY <2>6, <2>11
      <3>2. got' = got + 1 /\ garbled' = garbled
        BY <2>1, <2>2, <2>9, <2>10, <2>11, <3>1, WholePost
      <3>3. Item(Unread', NextIn', 1) = <<got + 1 + 1, 0>>
        BY <2>1, <2>7, <2>8, <2>11
      <3>4. Len(ring'.buf) = 0 /\ ring'.buf = <<>>
        BY <2>1, <3>1
      <3>5. Item(Unread', NextIn', 1) = <<got' + 1, Len(ring'.buf)>>
        BY <3>2, <3>3, <3>4
      <3> QED
        BY <2>1, <2>6, <2>8, <3>2, <3>4, <3>5 DEF WholeInv
    <2>12. CASE n # pktLen
      <3>1. ring' = [buf |-> Peek(n), len |-> pktLen] /\ got' = got /\ garbled' = garbled
        BY <2>6, <2>12
      <3>2. ring'.buf = Peek(n) /\ ring'.len = pktLen
        BY <3>1
      <3>3. Item(Unread', NextIn', 1) = <<got' + 1, Len(ring'.buf)>>
        BY <2>1, <2>7, <2>8, <2>10, <2>12, <3>1, <3>2
      <3>4. ring'.len = sent'[got' + 1]
        BY <2>1, <2>6, <3>1, <3>2
      <3>5. \A j \in 1..Len(ring'.buf) : ring'.buf[j] = <<got' + 1, j - 1>>
        BY <2>9, <2>10, <3>1, <3>2
      <3> QED
        BY <2>1, <2>6, <2>8, <3>1, <3>3, <3>4, <3>5 DEF WholeInv
    <2> QED
      BY <2>11, <2>12
  <1> QED
    BY <1>1, <1>2

(* qrtr_gunyah_read_frag() *)
LEMMA WholeReadFrag ==
    ASSUME FifoInv, FifoInv', WholeInv, ReadFrag
    PROVE  WholeInv'
  <1>1. CASE torn # 0
    BY <1>1 DEF ReadFrag, WholeInv
  <1>2. CASE torn = 0
    <2> DEFINE n == Min2(RxAvail, ring.len - Len(ring.buf))
               m == Len(ring.buf)
               buf == ring.buf \o Peek(n)
               p == got + 1
    <2>1. /\ garbled = 0 /\ ring.buf # <<>> /\ ring.len = sent[p] /\ RxAvail > 0
          /\ \A j \in 1..m : ring.buf[j] = <<p, j - 1>>
      BY <1>2 DEF ReadFrag, WholeInv
    <2>2. p \in 1..Len(sent)
      BY <1>2, <2>1, Within
    <2>3. ring.buf \in Seq(Words) /\ m \in Nat /\ sent[p] \in Nat /\ m < sent[p]
      <3>1. ring.buf \in Seq(Words)
        BY DEF FifoInv, TypeOK
      <3>2. m \in Nat
        BY <3>1, LenProperties
      <3>3. sent[p] \in Nat
        BY <2>2, SentLengths DEF FifoInv
      <3>4. m < ring.len
        BY <2>1 DEF FifoInv, ReadInv
      <3> QED
        BY <2>1, <3>1, <3>2, <3>3, <3>4
    <2>4. RxAvail \in Nat /\ unread > 0
      BY <2>1 DEF FifoInv, RingExact, TypeOK
    <2>5. n \in Nat /\ n <= RxAvail /\ n <= sent[p] - m /\ n > 0
      BY <2>1, <2>3, <2>4 DEF Min2
    <2>6. /\ Advance(n) /\ rpc' = "notify" /\ torn' = 0
          /\ UNCHANGED <<head, cell, wpc, left, sent>>
          /\ \/ Len(buf) = ring.len /\ EndpointPost(buf) /\ ring' = [buf |-> <<>>, len |-> 0]
             \/ Len(buf) # ring.len /\ ring' = [ring EXCEPT !.buf = buf] /\ UNCHANGED <<got, garbled>>
      BY <1>2 DEF ReadFrag, senderVars
    <2> HIDE DEF n
    <2>7. Peek(n) \in Seq(Words) /\ Len(Peek(n)) = n
      BY <2>5, PeekFront
    <2>8. /\ buf \in Seq(Words) /\ Len(buf) = m + n
          /\ \A j \in 1..(m + n) : buf[j] = IF j <= m THEN ring.buf[j] ELSE Peek(n)[j - m]
      <3>1. /\ ring.buf \o Peek(n) \in Seq(Words)
            /\ Len(ring.buf \o Peek(n)) = Len(ring.buf) + Len(Peek(n))
            /\ \A j \in 1..(Len(ring.buf) + Len(Peek(n))) :
                  (ring.buf \o Peek(n))[j] = IF j <= Len(ring.buf) THEN ring.buf[j]
                                            ELSE Peek(n)[j - Len(ring.buf)]
        BY <2>3, <2>7, ConcatProperties
      <3>2. Len(Peek(n)) = n
        BY <2>7
      <3> QED
        BY <3>1, <3>2, Zenon
    <2>9. m + n <= sent[p]
      BY <2>3, <2>5
    <2>10. NextIn' = NextIn /\ sent' = sent /\ head' = head /\ cell' = cell
      BY <2>6 DEF NextIn, Done
    <2>11. /\ RunOf(Peek(n), n, <<p, m>>)
           /\ Ordered(Unread', NextIn, sent)
           /\ Item(Unread', NextIn, 1) = After(<<p, m>>, n, sent)
      BY <1>2, <2>4, <2>5, <2>6, <2>9, <2>10, WholeTake
    <2>12. \A j \in 1..n : Peek(n)[j] = <<p, m + (j - 1)>>
      BY <2>11 DEF RunOf
    <2>13. After(<<p, m>>, n, sent) = IF m + n = sent[p] THEN <<p + 1, 0>> ELSE <<p, m + n>>
      BY DEF After
    <2> HIDE DEF m, buf, p
    <2>14. ASSUME NEW j \in 1..Len(buf) PROVE buf[j] = <<p, j - 1>>
      <3>1. j \in 1..(m + n) /\ j \in Nat
        BY <2>3, <2>5, <2>8
      <3>2. CASE j <= m
        <4>1. j \in 1..m
          BY <2>3, <3>1, <3>2
        <4> QED
          BY <2>1, <2>8, <3>1, <3>2, <4>1
      <3>3. CASE ~(j <= m)
        <4>1. j - m \in 1..n /\ m + ((j - m) - 1) = j - 1
          BY <2>3, <2>5, <3>1, <3>3
        <4>2. Peek(n)[j - m] = <<p, m + ((j - m) - 1)>>
          BY <2>12, <4>1
        <4>3. buf[j] = Peek(n)[j - m]
          BY <2>8, <3>1, <3>3
        <4> QED
          BY <4>1, <4>2, <4>3
      <3> QED
        BY <3>2, <3>3
    <2>15. CASE Len(buf) = ring.len
      <3>1. EndpointPost(buf) /\ ring' = [buf |-> <<>>, len |-> 0]
        BY <2>6, <2>15
      <3>2. got' = got + 1 /\ garbled' = garbled
        BY <2>1, <2>2, <2>8, <2>14, <2>15, <3>1, WholePost DEF p
      <3>3. Item(Unread', NextIn, 1) = <<p + 1, 0>>
        BY <2>1, <2>8, <2>11, <2>13, <2>15
      <3>4. ring'.buf = <<>> /\ Len(ring'.buf) = 0
        BY <3>1
      <3>5. Item(Unread', NextIn', 1) = <<got' + 1, Len(ring'.buf)>>
        BY <2>10, <3>2, <3>3, <3>4 DEF p
      <3>6. Ordered(Unread', NextIn', sent')
        BY <2>10, <2>11
      <3> QED
        BY <2>1, <2>6, <3>2, <3>4, <3>5, <3>6 DEF WholeInv
    <2>16. CASE Len(buf) # ring.len
      <3>1. ring' = [ring EXCEPT !.buf = buf] /\ got' = got /\ garbled' = garbled
        BY <2>6, <2>16
      <3>2. ring'.buf = buf /\ ring'.len = ring.len
        BY <3>1 DEF FifoInv, TypeOK
      <3>3. Item(Unread', NextIn', 1) = <<got' + 1, Len(ring'.buf)>>
        BY <2>1, <2>8, <2>10, <2>11, <2>13, <2>16, <3>1, <3>2 DEF p
      <3>4. ring'.len = sent'[got' + 1]
        BY <2>1, <2>10, <3>1, <3>2 DEF p
      <3>5. \A j \in 1..Len(ring'.buf) : ring'.buf[j] = <<got' + 1, j - 1>>
        BY <2>14, <3>1, <3>2 DEF p
      <3>6. Ordered(Unread', NextIn', sent')
        BY <2>10, <2>11
      <3> QED
        BY <2>1, <2>6, <3>1, <3>3, <3>4, <3>5, <3>6 DEF WholeInv
    <2> QED
      BY <2>15, <2>16
  <1> QED
    BY <1>1, <1>2

(* gunyah_reset_ring(): between two packets the receiver waits for the     *)
(* next one; elsewhere the boundaries are lost, and torn says so.          *)
LEMMA WholeRestart ==
    ASSUME WholeInv, Restart
    PROVE  WholeInv'
  <1>1. CASE torn' # 0
    BY <1>1 DEF WholeInv
  <1>2. CASE torn' = 0
    <2>1. /\ head' = 0 /\ tail' = 0 /\ wpc' = "idle" /\ got' = Len(sent) /\ rpc' = "idle"
          /\ ring.buf = <<>> /\ torn = 0 /\ UNCHANGED <<cell, ring, sent, garbled>>
      BY <1>2 DEF Restart
    <2>2. RxAvail' = 0
      BY <2>1 DEF RxAvail
    <2>3. Unread' = <<>> /\ Len(Unread') = 0
      BY <2>2 DEF Unread, Peek
    <2>4. Ordered(Unread', NextIn', sent')
      BY <2>3 DEF Ordered
    <2>5. NextIn' = <<Len(sent) + 1, 0>> /\ Len(ring'.buf) = 0 /\ ring'.buf = <<>>
      BY <2>1 DEF NextIn
    <2>6. Item(Unread', NextIn', 1) = NextIn'
      BY <2>3 DEF Item
    <2>7. garbled' = 0
      BY <2>1 DEF WholeInv
    <2> QED
      BY <2>1, <2>4, <2>5, <2>6, <2>7 DEF WholeInv
  <1> QED
    BY <1>1, <1>2

(* Every step keeps the packets whole. *)
LEMMA WholeStep ==
    ASSUME FifoInv, FifoInv', WholeInv, [Next]_vars
    PROVE  WholeInv'
  <1>1. CASE \E n \in Sizes : Send(n)
    BY <1>1, WholeSend
  <1>2. CASE SendChunk
    BY <1>2, WholeChunk
  <1>3. CASE SendFull \/ WaitForTxAvail \/ WaitCheck \/ SenderCb \/ RetryWork \/ ReceiverCb
             \/ ReadNotify \/ ReadDone \/ UNCHANGED vars
    <2>1. /\ UNCHANGED <<head, tail, cell, left, pktLen, ring, sent, got, unread, torn, garbled>>
          /\ wpc' = "idle" <=> wpc = "idle"
          /\ rpc' = "peeked" => rpc = "peeked"
      BY <1>3 DEF SendFull, WaitForTxAvail, WaitCheck, SenderCb, RetryWork, ReceiverCb,
                  ReadNotify, ReadDone, vars, senderVars, receiverVars
    <2> QED
      BY <2>1, WholeSame
  <1>4. CASE WaitTimeout
    <2>1. CASE wpc' = "write" /\ UNCHANGED <<left, sent, torn>>
      <3>1. /\ UNCHANGED <<head, tail, cell, left, pktLen, ring, sent, got, unread, torn, garbled>>
            /\ wpc' # "idle" /\ wpc # "idle" /\ rpc' = rpc
        BY <1>4, <2>1 DEF WaitTimeout, receiverVars
      <3> QED
        BY <3>1, WholeSame
    <2>2. CASE torn' = 1
      BY <2>2 DEF WholeInv
    <2>3. CASE torn' = 0 /\ ~(wpc' = "write" /\ UNCHANGED <<left, sent, torn>>)
      <3>1. /\ torn = 0 /\ wpc = "sleep" /\ left = sent[Len(sent)] /\ wpc' = "idle"
            /\ sent' = SubSeq(sent, 1, Len(sent) - 1)
            /\ UNCHANGED <<head, tail, cell, pktLen, ring, rpc, got, unread, torn, garbled>>
        BY <1>4, <2>3 DEF WaitTimeout, receiverVars
      <3> QED
        BY <3>1, WholeGivenUp
    <2> QED
      BY <2>1, <2>2, <2>3 DEF FifoInv, TypeOK
  <1>5. CASE PeekHeader
    BY <1>5, WholePeek
  <1>6. CASE ReadNew
    BY <1>6, WholeReadNew
  <1>7. CASE ReadFrag
    BY <1>7, WholeReadFrag
  <1>8. CASE Restart
    BY <1>8, WholeRestart
  <1> QED
    BY <1>1, <1>2, <1>3, <1>4, <1>5, <1>6, <1>7, <1>8 DEF Next, Sender, Receiver

(* For every ring length, reserve, header and set of packet lengths, and   *)
(* under all faults: qrtr_gunyah_read() delivers what qrtr_gunyah_send()   *)
(* was given, in order and word for word, in whichever chunks it travels,  *)
(* unless the packet boundaries were lost.                                 *)
THEOREM PacketsWhole == Spec => []Intact
  <1>1. WholeInv => Intact
    BY DEF WholeInv, Intact
  <1>2. FifoInv /\ FifoInv' /\ WholeInv /\ [Next]_vars => WholeInv'
    BY WholeStep
  <1> QED
    BY <1>1, <1>2, WholeInit, FifoInvInvariant, PTL DEF Spec
=============================================================================
