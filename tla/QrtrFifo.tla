------------------------------ MODULE QrtrFifo ------------------------------
(***************************************************************************)
(* The shared-memory ring of the QRTR Gunyah transport (net/qrtr/gunyah.c),*)
(* in the direction from a secondary VM to the primary VM (the master):    *)
(* qrtr_gunyah_send() writes packets in as many chunks as the free space   *)
(* makes necessary, the doorbell callback qrtr_gunyah_read() takes them    *)
(* apart again by the length in their headers, and the two tell each other *)
(* about data and free space with doorbells.                               *)
(*                                                                         *)
(* The unit is the 32-bit word: packets are padded to words, and the       *)
(* header and FIFO_FULL_RESERVE are whole words.  A word of the ring is    *)
(* <<packet, index>>, <<0, 0>> before anything was written.  Stores become *)
(* visible in program order.                                               *)
(***************************************************************************)
EXTENDS Integers, Sequences

CONSTANTS
    L,         \* pipe->length
    R,         \* FIFO_FULL_RESERVE
    H,         \* length of the header
    SizeAt,    \* index of the size field in the header
    Sizes,     \* lengths of packets, header included
    MaxPkts,   \* bound on the packets sent
    Faults     \* a subset of AllFaults

(* dbl: gh_dbl_send() fails; stall: the primary VM does not read for the   *)
(* 10 s that a sender waits; restart: the secondary VM is restarted.       *)
AllFaults == {"dbl", "stall", "restart"}

ASSUME RingAssumption == L \in Nat /\ R \in Nat /\ 0 < R /\ R < L
ASSUME PacketAssumption ==
    /\ H \in Nat /\ SizeAt \in 1..(H - 1) /\ H <= L
    /\ Sizes \subseteq Nat /\ \A n \in Sizes : n >= H
    /\ MaxPkts \in Nat /\ Faults \subseteq AllFaults

Min2(a, b) == IF a < b THEN a ELSE b

VARIABLES
    head,     \* *pipe->head, written by the sender
    tail,     \* *pipe->tail, written by the receiver
    cell,     \* the words of pipe->fifo
    notify,   \* *pipe->read_notify
    wpc,      \* where qrtr_gunyah_send() is
    left,     \* left_size
    rpc,      \* where qrtr_gunyah_read() is
    pktLen,   \* pkt_len of qrtr_gunyah_read_new()
    ring,     \* qdev->ring: words collected of a fragmented packet, and its length
    rxBell,   \* 1: a doorbell is pending at the receiver
    txBell,   \* 1: a doorbell is pending at the sender
    retry,    \* the sender's retry work: 1: scheduled; 2: it ran and could not ring either
    sent,     \* history: lengths of the packets handed to qrtr_gunyah_send()
    got,      \* history: packets before and with this one were delivered
    unread,   \* history: words written and not yet read
    torn,     \* history: 1 once the receiver may have lost the packet boundaries
    garbled   \* history: 1 once anything but the next packet was delivered

vars == <<head, tail, cell, notify, wpc, left, rpc, pktLen, ring, rxBell, txBell, retry,
          sent, got, unread, torn, garbled>>
senderVars   == <<head, notify, cell, wpc, left, retry, sent>>
receiverVars == <<tail, rpc, pktLen, ring, got, garbled>>

Words == (0..MaxPkts) \X Nat

(* write: in the loop; full: found no space, about to ask for a notice;    *)
(* check: evaluating the condition of wait_event_timeout(); sleep: in it.  *)
SendPCs == {"idle", "write", "full", "check", "sleep"}

(* loop: at the test of the loop; peeked: the header was read; notify:     *)
(* read something, about to test read_notify.                              *)
ReadPCs == {"idle", "loop", "peeked", "notify"}

TypeOK ==
    /\ head \in 0..(L - 1) /\ tail \in 0..(L - 1)
    /\ cell \in [0..(L - 1) -> Words]
    /\ notify \in {0, 1} /\ rxBell \in {0, 1} /\ txBell \in {0, 1} /\ retry \in {0, 1, 2}
    /\ wpc \in SendPCs /\ rpc \in ReadPCs
    /\ left \in Nat
    /\ pktLen \in Int
    /\ ring \in [buf : Seq(Words), len : Nat]
    /\ sent \in Seq(Sizes)
    /\ got \in Nat /\ unread \in Nat
    /\ torn \in {0, 1} /\ garbled \in {0, 1}

Init ==
    /\ head = 0 /\ tail = 0
    /\ cell = [i \in 0..(L - 1) |-> <<0, 0>>]
    /\ notify = 0 /\ rxBell = 0 /\ txBell = 0 /\ retry = 0
    /\ wpc = "idle" /\ rpc = "idle"
    /\ left = 0 /\ pktLen = 0
    /\ ring = [buf |-> <<>>, len |-> 0]
    /\ sent = <<>>
    /\ got = 0 /\ unread = 0 /\ torn = 0 /\ garbled = 0

-----------------------------------------------------------------------------
(* gunyah_rx_avail() *)
RxAvail == IF head < tail THEN L - tail + head ELSE head - tail

(* Mutant: no reserve. *)
TxAvail_NoReserve == IF tail <= head THEN L - head + tail ELSE tail - head

(* gunyah_tx_avail() *)
TxAvail ==
    LET avail == IF tail <= head THEN L - head + tail ELSE tail - head
    IN  IF avail < R THEN 0 ELSE avail - R

(* Mutant: the head wraps one word late. *)
HeadAfter_Late(count) == IF head + count > L THEN head + count - L ELSE head + count

(* The index after advancing by count: gunyah_tx_write() for the head,     *)
(* gunyah_rx_advance() for the tail, whose modulo takes L off once because *)
(* nobody reads more than L words.                                         *)
HeadAfter(count) == IF head + count >= L THEN head + count - L ELSE head + count
TailAfter(count) == IF tail + count >= L THEN tail + count - L ELSE tail + count

(* Mutant: what wraps around the end of the buffer is written one place    *)
(* too far.                                                                *)
Written_Shifted(count) ==
    LET done == sent[Len(sent)] - left
        at(i) == IF i >= head THEN i - head ELSE i - head + L - 1
    IN  [i \in 0..(L - 1) |->
            IF at(i) < count THEN <<Len(sent), done + at(i)>> ELSE cell[i]]

(* gunyah_tx_write(), gunyah_sg_write(): count words of the current packet *)
(* go to the head, around the end of the buffer if need be.                *)
Written(count) ==
    LET done == sent[Len(sent)] - left
        at(i) == IF i >= head THEN i - head ELSE i - head + L
    IN  [i \in 0..(L - 1) |->
            IF at(i) < count THEN <<Len(sent), done + at(i)>> ELSE cell[i]]

(* gunyah_rx_peak() *)
Peek(count) ==
    [j \in 1..count |-> cell[IF tail + j - 1 >= L THEN tail + j - 1 - L ELSE tail + j - 1]]

(* qrtr_peek_pkt_size() of the first H words, as they are in the ring: a   *)
(* version field and a size field are understood whichever packets they    *)
(* are of, words never written are 0 (no version, no payload), and other   *)
(* words may hold anything; -1 stands for every invalid length.            *)
PeekPktSize(hdr) ==
    LET ver == hdr[1]
        size == hdr[SizeAt + 1]
    IN  CASE ver = <<0, 0>> -> {-1}
          [] ver[1] > 0 /\ ver[2] = 0 /\ size = <<0, 0>> -> {H}
          [] ver[1] > 0 /\ ver[2] = 0 /\ size[1] \in DOMAIN sent /\ size[2] = SizeAt -> {sent[size[1]]}
          [] OTHER -> Sizes \cup {H, -1}

Packet(p) == [j \in 1..sent[p] |-> <<p, j - 1>>]

-----------------------------------------------------------------------------
(* Mutant: a doorbell that could not be rung is forgotten. *)
KickReceiver_NoRetry == (rxBell' = 1 \/ UNCHANGED rxBell) /\ UNCHANGED retry

(* qrtr_gunyah_kick() of the secondary VM: a doorbell that cannot be rung  *)
(* is rung later, by the retry work.                                       *)
KickReceiver ==
    \/ rxBell' = 1 /\ UNCHANGED retry
    \/ "dbl" \in Faults /\ retry' = 1 /\ UNCHANGED rxBell

(* qrtr_gunyah_kick() of the master: no retry. *)
KickSender == txBell' = 1 \/ ("dbl" \in Faults /\ UNCHANGED txBell)

(* qrtr_gunyah_send() is called, under node->ep_lock. *)
Send(n) ==
    /\ wpc = "idle" /\ Len(sent) < MaxPkts
    /\ sent' = Append(sent, n)
    /\ left' = n
    /\ wpc' = "write"
    /\ UNCHANGED <<receiverVars, head, cell, notify, rxBell, txBell, retry, unread, torn>>

(* Its loop: write what fits, ring the doorbell. *)
SendChunk ==
    /\ wpc = "write" /\ TxAvail > 0
    /\ LET chunk == Min2(TxAvail, left) IN
       /\ cell' = Written(chunk)
       /\ head' = HeadAfter(chunk)
       /\ left' = left - chunk
       /\ unread' = unread + chunk
       /\ wpc' = IF left = chunk THEN "idle" ELSE "write"
       /\ notify' = IF left = chunk THEN 0 ELSE notify
    /\ KickReceiver
    /\ UNCHANGED <<receiverVars, txBell, sent, torn>>

SendFull ==
    /\ wpc = "write" /\ TxAvail = 0
    /\ wpc' = "full"
    /\ UNCHANGED <<receiverVars, head, cell, notify, left, rxBell, txBell, retry, sent,
                   unread, torn>>

(* gunyah_wait_for_tx_avail(): ask to be notified, ring, then wait. *)
WaitForTxAvail ==
    /\ wpc = "full"
    /\ notify' = 1
    /\ wpc' = "check"
    /\ KickReceiver
    /\ UNCHANGED <<receiverVars, head, cell, left, txBell, sent, unread, torn>>

WaitCheck ==
    /\ wpc = "check"
    /\ wpc' = IF TxAvail > 0 THEN "write" ELSE "sleep"
    /\ UNCHANGED <<receiverVars, head, cell, notify, left, rxBell, txBell, retry, sent,
                   unread, torn>>

(* The sender's doorbell callback wakes it up. *)
SenderCb ==
    /\ txBell = 1
    /\ txBell' = 0
    /\ wpc' = IF wpc = "sleep" THEN "check" ELSE wpc
    /\ UNCHANGED <<receiverVars, head, cell, notify, left, rxBell, retry, sent, unread, torn>>

(* The 10 s are over: go on if there is space by now, otherwise give the   *)
(* packet up, leaving the part already written in the ring.                *)
WaitTimeout ==
    /\ wpc = "sleep"
    /\ \/ /\ TxAvail > 0
          /\ wpc' = "write"
          /\ UNCHANGED <<left, notify, sent, torn>>
       \/ /\ TxAvail = 0 /\ "stall" \in Faults
          /\ wpc' = "idle" /\ left' = 0 /\ notify' = 0
          /\ IF left = sent[Len(sent)]
             THEN sent' = SubSeq(sent, 1, Len(sent) - 1) /\ UNCHANGED torn
             ELSE torn' = 1 /\ UNCHANGED sent
    /\ UNCHANGED <<receiverVars, head, cell, rxBell, txBell, retry, unread>>

(* qrtr_gunyah_retry_work() rings without GH_DBL_NONBLOCK and ignores the  *)
(* result: when the hypercall fails again nobody rings.                    *)
RetryWork ==
    /\ retry = 1
    /\ \/ retry' = 0 /\ rxBell' = 1
       \/ "dbl" \in Faults /\ retry' = 2 /\ UNCHANGED rxBell
    /\ UNCHANGED <<receiverVars, head, cell, notify, wpc, left, txBell, sent, unread, torn>>

-----------------------------------------------------------------------------
(* qrtr_gunyah_cb(), under dbl_lock. *)
ReceiverCb ==
    /\ rpc = "idle" /\ rxBell = 1
    /\ rxBell' = 0
    /\ rpc' = "loop"
    /\ UNCHANGED <<senderVars, tail, pktLen, ring, got, garbled, txBell, unread, torn>>

(* qrtr_gunyah_read_new() reads the header before it looks how much of the *)
(* packet there is.                                                        *)
PeekHeader ==
    /\ rpc = "loop" /\ RxAvail > 0 /\ ring.buf = <<>>
    /\ pktLen' \in PeekPktSize(Peek(H))
    /\ torn' = IF RxAvail <= SizeAt THEN 1 ELSE torn
    /\ rpc' = "peeked"
    /\ UNCHANGED <<senderVars, tail, ring, got, garbled, rxBell, txBell, unread>>

Advance(count) == tail' = TailAfter(count) /\ unread' = unread - count

(* qrtr_endpoint_post() of a complete packet. *)
EndpointPost(pkt) ==
    LET right == got < Len(sent) /\ pkt = Packet(got + 1) IN
    /\ got' = IF right THEN got + 1 ELSE got
    /\ garbled' = IF right THEN garbled ELSE 1

(* The rest of qrtr_gunyah_read_new(): drop everything after an invalid    *)
(* length; deliver a complete packet, keep the beginning of another.       *)
ReadNew ==
    /\ rpc = "peeked"
    /\ LET n == Min2(RxAvail, pktLen) IN
       \/ /\ pktLen = -1
          /\ Advance(RxAvail)
          /\ garbled' = 1
          /\ UNCHANGED <<ring, got>>
       \/ /\ pktLen >= 0 /\ n = pktLen
          /\ EndpointPost(Peek(n))
          /\ Advance(n)
          /\ UNCHANGED ring
       \/ /\ pktLen >= 0 /\ n # pktLen
          /\ ring' = [buf |-> Peek(n), len |-> pktLen]
          /\ Advance(n)
          /\ UNCHANGED <<got, garbled>>
    /\ rpc' = "notify"
    /\ pktLen' = 0
    /\ UNCHANGED <<senderVars, rxBell, txBell, torn>>

(* Mutant: the rest of the packet takes everything there is. *)
ReadFrag_NoLimit ==
    /\ rpc = "loop" /\ RxAvail > 0 /\ ring.buf # <<>>
    /\ LET buf == ring.buf \o Peek(RxAvail) IN
       /\ Advance(RxAvail)
       /\ \/ /\ Len(buf) >= ring.len
             /\ EndpointPost(buf)
             /\ ring' = [buf |-> <<>>, len |-> 0]
          \/ /\ Len(buf) < ring.len
             /\ ring' = [ring EXCEPT !.buf = buf]
             /\ UNCHANGED <<got, garbled>>
    /\ rpc' = "notify"
    /\ UNCHANGED <<senderVars, pktLen, rxBell, txBell, torn>>

(* qrtr_gunyah_read_frag() *)
ReadFrag ==
    /\ rpc = "loop" /\ RxAvail > 0 /\ ring.buf # <<>>
    /\ LET n == Min2(RxAvail, ring.len - Len(ring.buf))
           buf == ring.buf \o Peek(n)
       IN  /\ Advance(n)
           /\ \/ /\ Len(buf) = ring.len
                 /\ EndpointPost(buf)
                 /\ ring' = [buf |-> <<>>, len |-> 0]
              \/ /\ Len(buf) # ring.len
                 /\ ring' = [ring EXCEPT !.buf = buf]
                 /\ UNCHANGED <<got, garbled>>
    /\ rpc' = "notify"
    /\ UNCHANGED <<senderVars, pktLen, rxBell, txBell, torn>>

(* Ring back if the sender asked for it. *)
ReadNotify ==
    /\ rpc = "notify"
    /\ IF notify = 1 THEN KickSender ELSE UNCHANGED txBell
    /\ rpc' = "loop"
    /\ UNCHANGED <<senderVars, tail, pktLen, ring, got, garbled, rxBell, unread, torn>>

ReadDone ==
    /\ rpc = "loop" /\ RxAvail = 0
    /\ rpc' = "idle"
    /\ UNCHANGED <<senderVars, tail, pktLen, ring, got, garbled, rxBell, txBell, unread, torn>>

(* The secondary VM goes away and comes back: qrtr_gunyah_vm_cb() of the   *)
(* master calls qrtr_gunyah_fifo_init(), which clears the indices and      *)
(* leaves qdev->ring as it is.  What was under way is void.  The code does *)
(* not take dbl_lock for it; that no callback is reading (rpc = "idle") is *)
(* an assumption: a VM that is not up rings no doorbell.                   *)
Restart ==
    /\ "restart" \in Faults /\ rpc = "idle"
    /\ head' = 0 /\ tail' = 0 /\ notify' = 0 /\ unread' = 0
    /\ wpc' = "idle" /\ left' = 0
    /\ retry' = 0 /\ txBell' = 0
    /\ got' = Len(sent)
    /\ torn' = IF ring.buf # <<>> THEN 1 ELSE torn
    /\ UNCHANGED <<cell, rpc, pktLen, ring, rxBell, sent, garbled>>

-----------------------------------------------------------------------------
Sender ==
    SendChunk \/ SendFull \/ WaitForTxAvail \/ WaitCheck \/ WaitTimeout
Receiver ==
    ReceiverCb \/ PeekHeader \/ ReadNew \/ ReadFrag \/ ReadNotify \/ ReadDone

Next ==
    \/ \E n \in Sizes : Send(n)
    \/ Sender \/ SenderCb \/ RetryWork
    \/ Receiver
    \/ Restart

Spec == Init /\ [][Next]_vars

(* Both VMs run, timers expire, doorbells that were rung are delivered and *)
(* scheduled work runs.  Nobody has to send or to restart.                 *)
Fairness == WF_vars(Sender) /\ WF_vars(SenderCb) /\ WF_vars(RetryWork) /\ WF_vars(Receiver)

FairSpec == Spec /\ Fairness

-----------------------------------------------------------------------------
(* RingExact: head and tail alone tell how many words are unread, however  *)
(* chunks wrap around: the reserve is never used up, so a full ring is     *)
(* never taken for an empty one.                                           *)
RingExact == RxAvail = unread /\ unread <= L - R /\ TxAvail = L - R - unread

(* Intact: the receiver delivers the packets in order and word for word,   *)
(* in whichever chunks they were written and read, unless it read a header *)
(* before its size field had arrived, a sender gave up inside a packet, or *)
(* the secondary VM restarted inside a packet.                             *)
Intact == torn = 0 => garbled = 0

(* Delivered: every packet that was sent arrives although its doorbell     *)
(* fails to ring, unless the retry work fails to ring as well (its result  *)
(* is ignored) or the packet boundaries were lost.                         *)
Delivered ==
    \A p \in 1..MaxPkts :
        Len(sent) >= p ~> got >= p \/ torn = 1 \/ Len(sent) < p \/ retry = 2

(* The words between tail and head, as gunyah_rx_peak() would read them.   *)
Stream == INSTANCE QrtrWordQueue WITH q <- Peek(RxAvail), Cap <- L - R

(* RingIsQueue: the ring implements a bounded queue of words: a chunk adds *)
(* words behind those unread and changes none of these, wherever it wraps, *)
(* and reading takes exactly the oldest (gunyah_tx_write, gunyah_rx_peak,  *)
(* gunyah_rx_advance).                                                     *)
RingIsQueue == Stream!Spec
=============================================================================
