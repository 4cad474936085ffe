--------------------------- MODULE QrtrFifo_proofs ---------------------------
(***************************************************************************)
(* Proofs about the ring of QrtrFifo, for every length of the ring, every  *)
(* reserve, every header and every set of packet lengths.                  *)
(***************************************************************************)
EXTENDS QrtrFifo, TLAPS

(* Where the sender is in its packet. *)
SendInv ==
    /\ Len(sent) <= MaxPkts
    /\ wpc # "idle" => Len(sent) > 0 /\ left > 0 /\ left <= sent[Len(sent)]

(* Where the receiver is in its packet. *)
ReadInv ==
    /\ ring.buf # <<>> => Len(ring.buf) < ring.len
    /\ pktLen >= -1

(* The inductive invariant: RingExact alone does not say that a chunk fits *)
(* the packet it is cut from, or that a fragment is not yet complete.      *)
FifoInv == TypeOK /\ RingExact /\ SendInv /\ ReadInv

(* Facts about the helpers: what a chunk of at most TxAvail words does to  *)
(* the indices of gunyah_tx_write() ...                                    *)
LEMMA HeadStep ==
    ASSUME TypeOK, RingExact, NEW n \in Nat, n <= TxAvail,
           head' = HeadAfter(n), unread' = unread + n, tail' = tail
    PROVE  head' \in 0..(L - 1) /\ unread' \in Nat /\ RingExact'
  BY RingAssumption DEF TypeOK, RingExact, HeadAfter, RxAvail, TxAvail

(* ... and what reading at most RxAvail words does to gunyah_rx_advance()'s. *)
LEMMA TailStep ==
    ASSUME TypeOK, RingExact, NEW n \in Nat, n <= RxAvail, Advance(n), head' = head
    PROVE  tail' \in 0..(L - 1) /\ unread' \in Nat /\ RingExact'
  BY RingAssumption DEF TypeOK, RingExact, Advance, TailAfter, RxAvail, TxAvail

(* gunyah_rx_peak() returns as many words of the ring as it was asked for. *)
LEMMA PeekType ==
    ASSUME TypeOK, NEW n \in Nat, n <= L
    PROVE  Peek(n) \in Seq(Words) /\ Len(Peek(n)) = n
  <1>1. \A j \in 1..n : (IF tail + j - 1 >= L THEN tail + j - 1 - L ELSE tail + j - 1) \in 0..(L - 1)
    BY RingAssumption DEF TypeOK
  <1>2. \A j \in 1..n : cell[IF tail + j - 1 >= L THEN tail + j - 1 - L ELSE tail + j - 1] \in Words
    BY <1>1 DEF TypeOK
  <1> QED
    BY <1>2 DEF Peek

(* The packet being sent has a length, and a number within the bound. *)
LEMMA CurrentPacket ==
    ASSUME TypeOK, SendInv, wpc # "idle"
    PROVE  sent[Len(sent)] \in Nat /\ Len(sent) \in 0..MaxPkts
  <1>1. sent \in Seq(Sizes) /\ Len(sent) \in Nat /\ Len(sent) \in 1..Len(sent)
    BY DEF TypeOK, SendInv
  <1>2. sent[Len(sent)] \in Sizes
    BY <1>1
  <1>3. Sizes \subseteq Nat /\ MaxPkts \in Nat
    BY PacketAssumption
  <1>4. sent[Len(sent)] \in Nat
    BY <1>2, <1>3
  <1>5. Len(sent) <= MaxPkts
    BY DEF SendInv
  <1>6. Len(sent) \in 0..MaxPkts
    BY <1>1, <1>3, <1>5
  <1> QED
    BY <1>4, <1>6

(* gunyah_tx_write() leaves words in every cell. *)
LEMMA WrittenType ==
    ASSUME TypeOK, SendInv, wpc # "idle", NEW n \in Nat
    PROVE  Written(n) \in [0..(L - 1) -> Words]
  <1>1. sent[Len(sent)] \in Nat /\ Len(sent) \in 0..MaxPkts
    BY CurrentPacket
  <1>2. sent[Len(sent)] - left \in Nat
    BY <1>1 DEF TypeOK, SendInv
  <1> DEFINE at(i) == IF i >= head THEN i - head ELSE i - head + L
  <1>3. \A i \in 0..(L - 1) : at(i) \in Nat
    BY RingAssumption DEF TypeOK
  <1>4. \A i \in 0..(L - 1) : cell[i] \in Words
    BY DEF TypeOK
  <1>5. \A i \in 0..(L - 1) : <<Len(sent), (sent[Len(sent)] - left) + at(i)>> \in Words
    BY <1>1, <1>2, <1>3 DEF Words
  <1> HIDE DEF at
  <1>6. [i \in 0..(L - 1) |-> IF at(i) < n THEN <<Len(sent), (sent[Len(sent)] - left) + at(i)>> ELSE cell[i]]
            \in [0..(L - 1) -> Words]
    BY <1>4, <1>5
  <1> QED
    BY <1>6 DEF Written, at

(* qrtr_peek_pkt_size() returns a length or an error, whatever it reads. *)
LEMMA PeekSizeType ==
    ASSUME TypeOK, NEW hdr, NEW n \in PeekPktSize(hdr)
    PROVE  n \in Int /\ n >= -1
  <1>1. Sizes \subseteq Nat /\ H \in Nat
    BY PacketAssumption
  <1>2. \A p \in DOMAIN sent : sent[p] \in Sizes
    BY DEF TypeOK
  <1>3. n = -1 \/ n = H \/ n \in Sizes
    BY <1>2 DEF PeekPktSize
  <1>4. \A m \in Nat : m \in Int /\ m >= -1
    OBVIOUS
  <1>5. CASE n = -1
    BY <1>5
  <1>6. CASE n = H \/ n \in Sizes
    BY <1>1, <1>4, <1>6
  <1> QED
    BY <1>3, <1>5, <1>6

(* qrtr_endpoint_post() only counts packets, or notes that one was wrong. *)
LEMMA PostType ==
    ASSUME got \in Nat, garbled \in {0, 1}, NEW pkt, EndpointPost(pkt)
    PROVE  got' \in Nat /\ garbled' \in {0, 1}
  <1> DEFINE right == got < Len(sent) /\ pkt = Packet(got + 1)
  <1>1. got' = (IF right THEN got + 1 ELSE got) /\ garbled' = (IF right THEN garbled ELSE 1)
    BY DEF EndpointPost
  <1> HIDE DEF right
  <1> QED
    BY <1>1

(* The initial ring. *)
LEMMA FifoInit == Init => FifoInv
  <1> SUFFICES ASSUME Init PROVE FifoInv
    OBVIOUS
  <1>1. RingExact
    BY RingAssumption DEF Init, RingExact, RxAvail, TxAvail
  <1>2. SendInv /\ ReadInv
    BY PacketAssumption DEF Init, SendInv, ReadInv
  <1>3. cell \in [0..(L - 1) -> Words]
    BY PacketAssumption DEF Init, Words
  <1>4. ring \in [buf : Seq(Words), len : Nat] /\ sent \in Seq(Sizes)
    BY DEF Init
  <1>6. 0 \in 0..(L - 1)
    BY RingAssumption
  <1>5. TypeOK
    BY <1>3, <1>4, <1>6 DEF Init, TypeOK, SendPCs, ReadPCs
  <1> QED
    BY <1>1, <1>2, <1>5 DEF FifoInv

(* Every step of the sender's side keeps the invariant. *)
LEMMA SenderSteps ==
    ASSUME FifoInv,
           (\E n \in Sizes : Send(n)) \/ Sender \/ SenderCb \/ RetryWork
    PROVE  FifoInv'
  <1> USE RingAssumption, PacketAssumption
  <1> USE DEF FifoInv, SendPCs, ReadPCs
  <1>0. ReadInv'
    BY DEF ReadInv, Send, Sender, SendChunk, SendFull, WaitForTxAvail, WaitCheck,
           WaitTimeout, SenderCb, RetryWork, receiverVars
  <1>1. ASSUME NEW n \in Sizes, Send(n) PROVE TypeOK' /\ RingExact' /\ SendInv'
    <2>1. n \in Nat /\ n > 0
      OBVIOUS
    <2>2. sent' \in Seq(Sizes) /\ Len(sent') = Len(sent) + 1 /\ sent'[Len(sent')] = n
      BY <1>1 DEF Send, TypeOK
    <2>3. TypeOK'
      BY <1>1, <2>1, <2>2 DEF Send, TypeOK, receiverVars
    <2>4. RingExact'
      BY <1>1 DEF Send, RingExact, RxAvail, TxAvail, receiverVars
    <2>5. SendInv'
      BY <1>1, <2>1, <2>2 DEF Send, SendInv, TypeOK
    <2> QED
      BY <2>3, <2>4, <2>5
  <1>2. ASSUME SendChunk PROVE TypeOK' /\ RingExact' /\ SendInv'
    <2> DEFINE chunk == Min2(TxAvail, left)
    <2>1. chunk \in Nat /\ chunk <= TxAvail /\ chunk <= left
      BY DEF TypeOK, RingExact, Min2, TxAvail
    <2>2. /\ cell' = Written(chunk) /\ head' = HeadAfter(chunk) /\ left' = left - chunk
          /\ unread' = unread + chunk /\ tail' = tail /\ wpc # "idle"
          /\ wpc' = IF left = chunk THEN "idle" ELSE "write"
          /\ notify' = IF left = chunk THEN 0 ELSE notify
          /\ UNCHANGED <<sent, rpc, pktLen, ring, got, garbled, txBell, torn>>
          /\ rxBell' \in {0, 1} /\ retry' \in {0, 1, 2}
      BY <1>2 DEF SendChunk, KickReceiver, receiverVars, TypeOK
    <2> HIDE DEF chunk
    <2>3. head' \in 0..(L - 1) /\ unread' \in Nat /\ RingExact'
      BY <2>1, <2>2, HeadStep
    <2>4. cell' \in [0..(L - 1) -> Words]
      BY <2>1, <2>2, WrittenType
    <2>5. TypeOK'
      BY <2>1, <2>2, <2>3, <2>4 DEF TypeOK
    <2>6. SendInv'
      BY <2>1, <2>2, CurrentPacket DEF SendInv, TypeOK
    <2> QED
      BY <2>3, <2>5, <2>6
  <1>3. ASSUME SendFull \/ WaitForTxAvail \/ WaitCheck \/ SenderCb \/ RetryWork
        PROVE  TypeOK' /\ RingExact' /\ SendInv'
    <2>1. /\ UNCHANGED <<head, tail, cell, left, rpc, pktLen, ring, sent, got, unread, torn, garbled>>
          /\ notify' \in {0, 1} /\ rxBell' \in {0, 1} /\ txBell' \in {0, 1} /\ retry' \in {0, 1, 2}
          /\ wpc' \in SendPCs /\ (wpc' # "idle" => wpc # "idle")
      BY <1>3 DEF SendFull, WaitForTxAvail, WaitCheck, SenderCb, RetryWork, KickReceiver,
                  receiverVars, TypeOK
    <2>2. TypeOK'
      BY <2>1 DEF TypeOK
    <2>3. RingExact'
      BY <2>1 DEF RingExact, RxAvail, TxAvail
    <2>4. SendInv'
      BY <2>1 DEF SendInv
    <2> QED
      BY <2>2, <2>3, <2>4
  <1>4. ASSUME WaitTimeout PROVE TypeOK' /\ RingExact' /\ SendInv'
    <2>0. sent \in Seq(Sizes) /\ Len(sent) > 0
      BY <1>4 DEF WaitTimeout, TypeOK, SendInv
    <2>1. /\ UNCHANGED <<head, tail, cell, rpc, pktLen, ring, got, unread, garbled, rxBell, txBell, retry>>
          /\ left' \in Nat /\ notify' \in {0, 1} /\ torn' \in {0, 1}
          /\ wpc' \in SendPCs /\ (wpc' # "idle" => wpc # "idle" /\ UNCHANGED <<sent, left>>)
          /\ sent' = sent \/ sent' = SubSeq(sent, 1, Len(sent) - 1)
      BY <1>4 DEF WaitTimeout, receiverVars, TypeOK
    <2>2. sent' \in Seq(Sizes) /\ Len(sent') <= Len(sent)
      BY <2>0, <2>1
    <2>3. TypeOK'
      BY <2>1, <2>2 DEF TypeOK
    <2>4. RingExact'
      BY <2>1 DEF RingExact, RxAvail, TxAvail
    <2>5. SendInv'
      BY <2>0, <2>1, <2>2 DEF SendInv
    <2> QED
      BY <2>3, <2>4, <2>5
  <1> QED
    BY <1>0, <1>1, <1>2, <1>3, <1>4 DEF Sender

(* Every step of the receiver's side, and a restart, keeps the invariant. *)
LEMMA ReceiverSteps ==
    ASSUME FifoInv, Receiver \/ Restart
    PROVE  FifoInv'
  <1> USE RingAssumption
  <1> USE DEF FifoInv, SendPCs, ReadPCs
  <1>1. ASSUME ReceiverCb \/ PeekHeader \/ ReadNotify \/ ReadDone PROVE FifoInv'
    <2>1. /\ UNCHANGED <<head, tail, cell, notify, wpc, left, ring, retry, sent, got, unread, garbled>>
          /\ rxBell' \in {0, 1} /\ txBell' \in {0, 1} /\ torn' \in {0, 1} /\ rpc' \in ReadPCs
      BY <1>1 DEF ReceiverCb, PeekHeader, ReadNotify, ReadDone, KickSender, senderVars, TypeOK
    <2>2. pktLen' = pktLen \/ pktLen' \in PeekPktSize(Peek(H))
      BY <1>1 DEF ReceiverCb, PeekHeader, ReadNotify, ReadDone
    <2>3. pktLen' \in Int /\ pktLen' >= -1
      BY <2>2, PeekSizeType DEF TypeOK, ReadInv
    <2>4. TypeOK'
      BY <2>1, <2>3 DEF TypeOK
    <2>5. RingExact'
      BY <2>1 DEF RingExact, RxAvail, TxAvail
    <2>6. SendInv' /\ ReadInv'
      BY <2>1, <2>3 DEF SendInv, ReadInv
    <2> QED
      BY <2>4, <2>5, <2>6
  <1>2. RxAvail \in 0..L
    BY DEF TypeOK, RingExact
  <1>3. ASSUME NEW n \in Nat, n <= RxAvail, Advance(n),
               UNCHANGED <<head, cell, notify, wpc, left, rxBell, txBell, retry, sent, torn>>,
               rpc' = "notify", pktLen' \in {0, pktLen},
               got' \in Nat, garbled' \in {0, 1},
               ring' \in [buf : Seq(Words), len : Nat],
               ring'.buf # <<>> => Len(ring'.buf) < ring'.len
        PROVE  FifoInv'
    <2>1. tail' \in 0..(L - 1) /\ unread' \in Nat /\ RingExact'
      BY <1>3, TailStep
    <2>2. TypeOK'
      BY <1>3, <2>1 DEF TypeOK
    <2>3. SendInv' /\ ReadInv'
      BY <1>3 DEF SendInv, ReadInv
    <2> QED
      BY <2>1, <2>2, <2>3
  <1>4. ASSUME ReadNew PROVE FifoInv'
    <2> DEFINE n == Min2(RxAvail, pktLen)
    <2>1. CASE pktLen = -1
      <3>1. /\ Advance(RxAvail) /\ ring' = ring /\ got' = got /\ garbled' = 1
            /\ rpc' = "notify" /\ pktLen' = 0
            /\ UNCHANGED <<head, cell, notify, wpc, left, rxBell, txBell, retry, sent, torn>>
        BY <1>4, <2>1 DEF ReadNew, senderVars
      <3> QED
        BY <3>1, <1>2, <1>3 DEF TypeOK, ReadInv
    <2>2. CASE pktLen >= 0
      <3>1. n \in Nat /\ n <= RxAvail /\ n <= L /\ n <= pktLen
        BY <1>2, <2>2 DEF Min2, TypeOK
      <3>2. /\ Advance(n)
            /\ rpc' = "notify" /\ pktLen' = 0
            /\ UNCHANGED <<head, cell, notify, wpc, left, rxBell, txBell, retry, sent, torn>>
        BY <1>4, <2>2 DEF ReadNew, senderVars
      <3>3. \/ ring' = ring
            \/ ring' = [buf |-> Peek(n), len |-> pktLen] /\ n # pktLen
        BY <1>4, <2>2 DEF ReadNew
      <3>4. EndpointPost(Peek(n)) \/ UNCHANGED <<got, garbled>>
        BY <1>4, <2>2 DEF ReadNew
      <3> HIDE DEF n
      <3>7. got \in Nat /\ garbled \in {0, 1}
        BY DEF TypeOK
      <3>8. got' \in Nat /\ garbled' \in {0, 1}
        <4>1. CASE EndpointPost(Peek(n))
          BY <4>1, <3>7, PostType
        <4>2. CASE UNCHANGED <<got, garbled>>
          BY <4>2, <3>7
        <4> QED
          BY <3>4, <4>1, <4>2
      <3>5. Peek(n) \in Seq(Words) /\ Len(Peek(n)) = n
        BY <3>1, PeekType
      <3>6. /\ ring' \in [buf : Seq(Words), len : Nat]
            /\ ring'.buf # <<>> => Len(ring'.buf) < ring'.len
        BY <2>2, <3>1, <3>3, <3>5 DEF TypeOK, ReadInv
      <3> QED
        BY <3>1, <3>2, <3>8, <3>6, <1>3
    <2> QED
      BY <2>1, <2>2 DEF ReadInv, TypeOK
  <1>5. ASSUME ReadFrag PROVE FifoInv'
    <2> DEFINE n == Min2(RxAvail, ring.len - Len(ring.buf))
    <2> DEFINE buf == ring.buf \o Peek(n)
    <2>1. ring.buf \in Seq(Words) /\ Len(ring.buf) \in Nat /\ ring.len \in Nat
      BY DEF TypeOK
    <2>2. Len(ring.buf) < ring.len
      BY <1>5 DEF ReadFrag, ReadInv
    <2>3. n \in Nat /\ n <= RxAvail /\ n <= L /\ n <= ring.len - Len(ring.buf)
      BY <1>2, <2>1, <2>2 DEF Min2
    <2>4. /\ Advance(n) /\ rpc' = "notify" /\ pktLen' = pktLen
          /\ UNCHANGED <<head, cell, notify, wpc, left, rxBell, txBell, retry, sent, torn>>
      BY <1>5 DEF ReadFrag, senderVars
    <2>5. \/ ring' = [buf |-> <<>>, len |-> 0]
          \/ ring' = [ring EXCEPT !.buf = buf] /\ Len(buf) # ring.len
      BY <1>5 DEF ReadFrag
    <2>12. EndpointPost(buf) \/ UNCHANGED <<got, garbled>>
      BY <1>5 DEF ReadFrag
    <2> HIDE DEF n
    <2>13. got \in Nat /\ garbled \in {0, 1}
      BY DEF TypeOK
    <2>7. Peek(n) \in Seq(Words) /\ Len(Peek(n)) = n
      BY <2>3, PeekType
    <2>8. buf \in Seq(Words) /\ Len(buf) = Len(ring.buf) + n
      BY <2>1, <2>7
    <2>9. Len(buf) <= ring.len
      BY <2>1, <2>3, <2>8
    <2> HIDE DEF buf
    <2>6. got' \in Nat /\ garbled' \in {0, 1}
      <3>1. CASE EndpointPost(buf)
        BY <3>1, <2>13, PostType
      <3>2. CASE UNCHANGED <<got, garbled>>
        BY <3>2, <2>13
      <3> QED
        BY <2>12, <3>1, <3>2
    <2>10. CASE ring' = [buf |-> <<>>, len |-> 0]
      <3>1. ring' \in [buf : Seq(Words), len : Nat] /\ ring'.buf = <<>>
        BY <2>10
      <3> QED
        BY <3>1, <2>3, <2>4, <2>6, <1>3
    <2>11. CASE ring' = [ring EXCEPT !.buf = buf] /\ Len(buf) # ring.len
      <3>1. ring' \in [buf : Seq(Words), len : Nat] /\ ring'.buf = buf /\ ring'.len = ring.len
        BY <2>8, <2>11 DEF TypeOK
      <3>2. Len(ring'.buf) < ring'.len
        BY <3>1, <2>1, <2>3, <2>8, <2>9, <2>11
      <3> QED
        BY <3>1, <3>2, <2>3, <2>4, <2>6, <1>3
    <2> QED
      BY <2>5, <2>10, <2>11
  <1>6. ASSUME Restart PROVE FifoInv'
    <2>1. 0 \in 0..(L - 1) /\ Len(sent) \in Nat
      BY DEF TypeOK
    <2>2. TypeOK'
      BY <1>6, <2>1 DEF Restart, TypeOK
    <2>3. RingExact'
      BY <1>6 DEF Restart, RingExact, RxAvail, TxAvail
    <2>4. SendInv' /\ ReadInv'
      BY <1>6 DEF Restart, SendInv, ReadInv
    <2> QED
      BY <2>2, <2>3, <2>4
  <1> QED
    BY <1>1, <1>4, <1>5, <1>6 DEF Receiver

(* The invariant holds in every reachable state. *)
LEMMA FifoInvInvariant == Spec => []FifoInv
  <1>1. Init => FifoInv
    BY FifoInit
  <1>2. FifoInv /\ [Next]_vars => FifoInv'
    <2>1. ASSUME FifoInv, UNCHANGED vars PROVE FifoInv'
      BY <2>1 DEF vars, FifoInv, TypeOK, RingExact, RxAvail, TxAvail, SendInv, ReadInv
    <2>2. ASSUME FifoInv, Next PROVE FifoInv'
      BY <2>2, SenderSteps, ReceiverSteps DEF Next
    <2> QED
      BY <2>1, <2>2
  <1> QED
    BY <1>1, <1>2, PTL DEF Spec

(* The state of the ring, of the sender and of the receiver keeps its type *)
(* for every ring and every set of packets: indices stay inside the        *)
(* buffer, so none of the WARN_ON_ONCE tests of gunyah.c ever fires.       *)
THEOREM FifoTypeCorrect == Spec => []TypeOK
  <1>1. FifoInv => TypeOK
    BY DEF FifoInv
  <1> QED
    BY <1>1, FifoInvInvariant, PTL

(* The indices of gunyah_tx_avail() and gunyah_rx_avail() account for      *)
(* every word exactly, for every ring length and every reserve of at least *)
(* one word, wherever chunks wrap, senders give up or a VM restarts.       *)
THEOREM RingSafety == Spec => []RingExact
  <1>1. FifoInv => RingExact
    BY DEF FifoInv
  <1> QED
    BY <1>1, FifoInvInvariant, PTL
=============================================================================
