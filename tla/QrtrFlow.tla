------------------------------ MODULE QrtrFlow ------------------------------
(***************************************************************************)
(* Transmit flow control of the QRTR router (net/qrtr/af_qrtr.c), for one  *)
(* flow: the qrtr_tx_flow that a qrtr_node keeps for one destination       *)
(* <node, port>, the local sockets that send to it, and the remote socket  *)
(* bound to that port, which runs the same code (qrtr_endpoint_post,       *)
(* qrtr_recvmsg, qrtr_send_resume_tx).                                     *)
(*                                                                         *)
(* A sender counts a message in "pending" under flow->lock and hands it to *)
(* the transport later, under node->ep_lock: other senders, the RESUME_TX  *)
(* handler and the endpoint's removal run in between.  The message that    *)
(* takes pending to LOW asks for a RESUME_TX ("confirm"); reading it at    *)
(* the remote sends one, which resets pending.  At HIGH senders sleep, or  *)
(* are refused and listed as waiters.                                      *)
(*                                                                         *)
(* Of a message only the confirm_rx flag is kept.  The hello gate at the   *)
(* top of qrtr_node_enqueue (which drops data without touching the flow)   *)
(* belongs to the module QrtrCtrl.                                         *)
(***************************************************************************)
EXTENDS Integers, Sequences, FiniteSets

CONSTANTS
    Senders,    \* local sockets; lock_sock() keeps one send per socket
    Timed,      \* the sockets with a finite SO_SNDTIMEO
    HIGH,       \* QRTR_TX_FLOW_HIGH
    LOW,        \* QRTR_TX_FLOW_LOW
    Faults,     \* which failures may happen, a subset of AllFaults
    WireCap,    \* messages the transport takes before xmit blocks
    RcvBuf,     \* messages the remote socket's sk_rcvbuf takes
    MaxStrays   \* bound on the strays

(* alloc: a local kernel allocation fails; xmit: ep->xmit or the padding   *)
(* fails; rmem: the remote receive buffer is full of other traffic; close: *)
(* the remote socket closes; resume: the remote cannot allocate or         *)
(* transmit a RESUME_TX; peek: the remote reads with MSG_PEEK; signal: a   *)
(* sleeping sender is interrupted; unreg: the endpoint is unregistered.    *)
AllFaults == {"alloc", "xmit", "rmem", "close", "resume", "peek", "signal", "unreg"}

ASSUME WatermarkAssumption == LOW \in Nat /\ HIGH \in Nat /\ 0 < LOW /\ LOW < HIGH
ASSUME BoundAssumption == WireCap \in Nat /\ RcvBuf \in Nat /\ MaxStrays \in Nat
ASSUME SenderAssumption == Timed \subseteq Senders /\ Faults \subseteq AllFaults

VARIABLES
    flow,       \* "present" once the flow is in node->qrtr_tx_flow, "none" before
    pending,    \* flow->pending
    txFailed,   \* flow->tx_failed
    waiters,    \* sockets on flow->waiters
    ep,         \* "up"; "null" once node->ep = NULL; "woken" after the wake-ups
    pc,         \* where each socket's send is
    inbox,      \* sockets with a local RESUME_TX notification to read
    wire,       \* messages handed to the transport, in order
    rxq,        \* sk_receive_queue of the remote socket
    rsock,      \* the remote socket: "open" or "closed"
    resumes,    \* RESUME_TX packets on their way back (wire and node->rx_queue)
    strays,     \* history: confirmations the flow does not account for: sends
                \* without a flow, and answers to a message that was only peeked
    lost        \* history: 1 once a confirm or its RESUME_TX was dropped

vars == <<flow, pending, txFailed, waiters, ep, pc, inbox, wire, rxq, rsock,
          resumes, strays, lost>>

flowVars   == <<flow, pending, txFailed, waiters>>
remoteVars == <<wire, rxq, rsock, resumes>>

Flags == {"plain", "confirm"}
ConfirmIn(q) == \E i \in DOMAIN q : q[i] = "confirm"

(* wait: about to test the wait condition, may sleep; try: same, but will  *)
(* not sleep (MSG_DONTWAIT, or its timeout ran out); xmit/xmitc: accepted, *)
(* without/with confirm_rx, and not yet handed over; failed: xmit of a     *)
(* confirm_rx message failed, qrtr_tx_flow_failed() not yet called.        *)
PCs == {"idle", "wait", "try", "sleep", "xmit", "xmitc", "failed"}

TypeOK ==
    /\ flow \in {"none", "present"}
    /\ pending \in 0..HIGH
    /\ txFailed \in {0, 1}
    /\ waiters \subseteq Senders
    /\ ep \in {"up", "null", "woken"}
    /\ pc \in [Senders -> PCs]
    /\ inbox \subseteq Senders
    /\ wire \in Seq(Flags)
    /\ rxq \in Seq(Flags)
    /\ rsock \in {"open", "closed"}
    /\ resumes \in Nat
    /\ strays \in Nat
    /\ lost \in {0, 1}

Init ==
    /\ flow = "none"
    /\ pending = 0
    /\ txFailed = 0
    /\ waiters = {}
    /\ ep = "up"
    /\ pc = [s \in Senders |-> "idle"]
    /\ inbox = {}
    /\ wire = <<>>
    /\ rxq = <<>>
    /\ rsock = "open"
    /\ resumes = 0
    /\ strays = 0
    /\ lost = 0

-----------------------------------------------------------------------------
(* qrtr_sendmsg() up to the wait in qrtr_tx_wait(): find the flow or       *)
(* allocate it.  Without a flow the message goes out with confirm_rx and   *)
(* uncounted.                                                              *)
SendMsg(s, dontwait) ==
    /\ pc[s] = "idle"
    /\ \/ /\ flow' = "present"
          /\ pc' = [pc EXCEPT ![s] = IF dontwait THEN "try" ELSE "wait"]
          /\ UNCHANGED strays
       \/ /\ flow = "none" /\ "alloc" \in Faults /\ strays < MaxStrays
          /\ strays' = strays + 1
          /\ pc' = [pc EXCEPT ![s] = "xmitc"]
          /\ UNCHANGED flow
    /\ UNCHANGED <<pending, txFailed, waiters, ep, inbox, wire, rxq, rsock, resumes, lost>>

(* Mutant: one message too many fits. *)
MayProceed_Slack == pending <= HIGH \/ txFailed = 1 \/ ep # "up"

(* The condition of wait_event_interruptible_lock_irq_timeout(). *)
MayProceed == pending < HIGH \/ txFailed = 1 \/ ep # "up"

(* The wait condition is false: sleep on flow->resume_tx. *)
Block(s) ==
    /\ pc[s] = "wait"
    /\ ~MayProceed
    /\ pc' = [pc EXCEPT ![s] = "sleep"]
    /\ UNCHANGED <<flowVars, remoteVars, ep, inbox, strays, lost>>

(* Mutant: every message above the low watermark asks for a RESUME_TX. *)
Admit_ConfirmAbove(s) ==
    /\ pc[s] \in {"wait", "try"}
    /\ MayProceed /\ ep = "up"
    /\ pending' = pending + 1
    /\ pc' = [pc EXCEPT ![s] = IF pending + 1 >= LOW THEN "xmitc" ELSE "xmit"]
    /\ UNCHANGED <<flow, txFailed, waiters, remoteVars, ep, inbox, strays, lost>>

(* Mutant: the confirmation is asked for one message early. *)
Admit_ConfirmEarly(s) ==
    /\ pc[s] \in {"wait", "try"}
    /\ MayProceed /\ ep = "up"
    /\ pending' = pending + 1
    /\ pc' = [pc EXCEPT ![s] = IF pending + 2 = LOW THEN "xmitc" ELSE "xmit"]
    /\ UNCHANGED <<flow, txFailed, waiters, remoteVars, ep, inbox, strays, lost>>

(* The wait condition holds; flow->lock is held from its evaluation to the *)
(* decision.  -EPIPE without endpoint; after a failed transmission send    *)
(* uncounted with confirm_rx; otherwise count, and confirm at LOW.         *)
Admit(s) ==
    /\ pc[s] \in {"wait", "try"}
    /\ MayProceed
    /\ \/ /\ ep # "up"
          /\ pc' = [pc EXCEPT ![s] = "idle"]
          /\ UNCHANGED <<pending, txFailed>>
       \/ /\ ep = "up" /\ txFailed = 1
          /\ txFailed' = 0
          /\ pc' = [pc EXCEPT ![s] = "xmitc"]
          /\ UNCHANGED pending
       \/ /\ ep = "up" /\ txFailed = 0
          /\ pending' = pending + 1
          /\ pc' = [pc EXCEPT ![s] = IF pending + 1 = LOW THEN "xmitc" ELSE "xmit"]
          /\ UNCHANGED txFailed
    /\ UNCHANGED <<flow, waiters, remoteVars, ep, inbox, strays, lost>>

(* No room and no time left to wait: -EAGAIN with the socket on the list   *)
(* of waiters, or -ENOMEM when its entry cannot be allocated.              *)
Refuse(s) ==
    /\ pc[s] = "try"
    /\ ~MayProceed
    /\ \/ waiters' = waiters \cup {s}
       \/ "alloc" \in Faults /\ s \notin waiters /\ UNCHANGED waiters
    /\ pc' = [pc EXCEPT ![s] = "idle"]
    /\ UNCHANGED <<flow, pending, txFailed, remoteVars, ep, inbox, strays, lost>>

(* SO_SNDTIMEO runs out: the condition is tested a last time. *)
Timeout(s) ==
    /\ pc[s] = "sleep"
    /\ s \in Timed
    /\ pc' = [pc EXCEPT ![s] = "try"]
    /\ UNCHANGED <<flowVars, remoteVars, ep, inbox, strays, lost>>

(* A signal interrupts the sleep: -ERESTARTSYS. *)
Signal(s) ==
    /\ "signal" \in Faults
    /\ pc[s] = "sleep"
    /\ pc' = [pc EXCEPT ![s] = "idle"]
    /\ UNCHANGED <<flowVars, remoteVars, ep, inbox, strays, lost>>

(* qrtr_node_enqueue() hands the message to ep->xmit under node->ep_lock.  *)
XmitOk(s) ==
    /\ pc[s] \in {"xmit", "xmitc"}
    /\ ep = "up" /\ Len(wire) < WireCap
    /\ wire' = Append(wire, IF pc[s] = "xmitc" THEN "confirm" ELSE "plain")
    /\ pc' = [pc EXCEPT ![s] = "idle"]
    /\ UNCHANGED <<flowVars, rxq, rsock, resumes, ep, inbox, strays, lost>>

(* Mutant: a lost confirm_rx is not reported to the flow. *)
XmitFail_Silent(s) ==
    /\ pc[s] \in {"xmit", "xmitc"}
    /\ ep # "up" \/ "xmit" \in Faults
    /\ pc' = [pc EXCEPT ![s] = "idle"]
    /\ UNCHANGED <<flowVars, remoteVars, ep, inbox, strays, lost>>

(* The same, with the endpoint gone (-ENODEV), or the padding or the       *)
(* transport failing; a lost confirm_rx is reported to the flow next.      *)
XmitFail(s) ==
    /\ pc[s] \in {"xmit", "xmitc"}
    /\ ep # "up" \/ "xmit" \in Faults
    /\ pc' = [pc EXCEPT ![s] = IF pc[s] = "xmitc" THEN "failed" ELSE "idle"]
    /\ UNCHANGED <<flowVars, remoteVars, ep, inbox, strays, lost>>

(* qrtr_tx_flow_failed(): flag the flow, if there is one; nobody is woken. *)
TxFlowFailed(s) ==
    /\ pc[s] = "failed"
    /\ txFailed' = IF flow = "present" THEN 1 ELSE txFailed
    /\ pc' = [pc EXCEPT ![s] = "idle"]
    /\ UNCHANGED <<flow, pending, waiters, remoteVars, ep, inbox, strays, lost>>

(* The application reads the RESUME_TX notification from its socket. *)
ReadNotice(s) ==
    /\ s \in inbox
    /\ inbox' = inbox \ {s}
    /\ UNCHANGED <<flowVars, remoteVars, ep, pc, strays, lost>>

-----------------------------------------------------------------------------
(* qrtr_endpoint_post() at the remote: to the socket bound to the port, or *)
(* dropped when there is none or its receive buffer is full.               *)
EndpointPost ==
    /\ wire # <<>>
    /\ wire' = Tail(wire)
    /\ \/ /\ rsock = "open" /\ Len(rxq) < RcvBuf
          /\ rxq' = Append(rxq, Head(wire))
          /\ UNCHANGED lost
       \/ /\ rsock = "closed" \/ Len(rxq) >= RcvBuf \/ "rmem" \in Faults
          /\ lost' = IF Head(wire) = "confirm" THEN 1 ELSE lost
          /\ UNCHANGED rxq
    /\ UNCHANGED <<flowVars, ep, pc, inbox, rsock, resumes, strays>>

(* qrtr_recvmsg(): read one message; confirm_rx makes it send a RESUME_TX, *)
(* which is lost without an endpoint or when it cannot be allocated or     *)
(* transmitted: qrtr_recvmsg ignores qrtr_send_resume_tx()'s result.       *)
RecvMsg ==
    /\ rsock = "open"
    /\ rxq # <<>>
    /\ rxq' = Tail(rxq)
    /\ \/ Head(rxq) = "plain" /\ UNCHANGED <<resumes, lost>>
       \/ /\ Head(rxq) = "confirm" /\ ep = "up"
          /\ resumes' = resumes + 1
          /\ UNCHANGED lost
       \/ /\ Head(rxq) = "confirm"
          /\ ep # "up" \/ "resume" \in Faults
          /\ lost' = 1
          /\ UNCHANGED resumes
    /\ UNCHANGED <<flowVars, ep, pc, inbox, wire, rsock, strays>>

(* qrtr_recvmsg() with MSG_PEEK: the message stays in the queue, and its   *)
(* confirm_rx is answered, as it will be when the message is read.         *)
PeekMsg ==
    /\ "peek" \in Faults /\ strays < MaxStrays
    /\ rsock = "open" /\ ep = "up"
    /\ rxq # <<>> /\ Head(rxq) = "confirm"
    /\ resumes' = resumes + 1
    /\ strays' = strays + 1
    /\ UNCHANGED <<flowVars, ep, pc, inbox, wire, rxq, rsock, lost>>

(* qrtr_release() of the remote socket purges its receive queue unread. *)
RemoteRelease ==
    /\ "close" \in Faults
    /\ rsock = "open"
    /\ rsock' = "closed"
    /\ lost' = IF ConfirmIn(rxq) THEN 1 ELSE lost
    /\ rxq' = <<>>
    /\ UNCHANGED <<flowVars, ep, pc, inbox, wire, resumes, strays>>

(* Another socket binds the same port. *)
RemoteBind ==
    /\ rsock = "closed"
    /\ rsock' = "open"
    /\ UNCHANGED <<flowVars, ep, pc, inbox, wire, rxq, resumes, strays, lost>>

-----------------------------------------------------------------------------
(* Mutant: the waiters are notified and the sleepers are not woken. *)
TxResume_NoWake ==
    /\ resumes > 0 /\ flow = "present"
    /\ resumes' = resumes - 1
    /\ pending' = 0
    /\ waiters' = {}
    /\ inbox' = inbox \cup waiters
    /\ UNCHANGED <<flow, txFailed, pc, ep, wire, rxq, rsock, strays, lost>>

(* Mutant: the list of waiters is freed without notifying them. *)
TxResume_NoNotice ==
    /\ resumes > 0 /\ flow = "present"
    /\ resumes' = resumes - 1
    /\ pending' = 0
    /\ pc' = [s \in Senders |-> IF pc[s] = "sleep" THEN "wait" ELSE pc[s]]
    /\ waiters' = {}
    /\ UNCHANGED <<flow, txFailed, inbox, ep, wire, rxq, rsock, strays, lost>>

(* qrtr_tx_resume() in the node's kworker: reset the counter, wake every   *)
(* sleeper, notify and drop every waiter.  A notification that cannot be   *)
(* allocated is skipped.                                                   *)
TxResume ==
    /\ resumes > 0
    /\ resumes' = resumes - 1
    /\ \/ flow = "none" /\ UNCHANGED <<pending, pc, waiters, inbox>>
       \/ /\ flow = "present"
          /\ pending' = 0
          /\ pc' = [s \in Senders |-> IF pc[s] = "sleep" THEN "wait" ELSE pc[s]]
          /\ waiters' = {}
          /\ \E told \in SUBSET waiters :
                /\ "alloc" \in Faults \/ told = waiters
                /\ inbox' = inbox \cup told
    /\ UNCHANGED <<flow, txFailed, ep, wire, rxq, rsock, strays, lost>>

(* qrtr_endpoint_unregister(), first part: node->ep = NULL under ep_lock. *)
Unregister ==
    /\ "unreg" \in Faults
    /\ ep = "up"
    /\ ep' = "null"
    /\ UNCHANGED <<flowVars, remoteVars, pc, inbox, strays, lost>>

(* Mutant: an unregistration that wakes nobody. *)
UnregisterWake_None ==
    /\ ep = "null"
    /\ ep' = "woken"
    /\ UNCHANGED <<flowVars, remoteVars, pc, inbox, strays, lost>>

(* Last part: wake the sleepers of every flow, under qrtr_tx_lock. *)
UnregisterWake ==
    /\ ep = "null"
    /\ ep' = "woken"
    /\ pc' = [s \in Senders |-> IF pc[s] = "sleep" THEN "wait" ELSE pc[s]]
    /\ UNCHANGED <<flowVars, remoteVars, inbox, strays, lost>>

-----------------------------------------------------------------------------
SenderStep(s) == Block(s) \/ Admit(s) \/ Refuse(s) \/ XmitOk(s) \/ XmitFail(s) \/ TxFlowFailed(s)

Next ==
    \/ \E s \in Senders :
          \/ \E dontwait \in BOOLEAN : SendMsg(s, dontwait)
          \/ Block(s) \/ Admit(s) \/ Refuse(s) \/ Timeout(s) \/ Signal(s)
          \/ XmitOk(s) \/ XmitFail(s) \/ TxFlowFailed(s) \/ ReadNotice(s)
    \/ EndpointPost \/ RecvMsg \/ PeekMsg \/ RemoteRelease \/ RemoteBind
    \/ TxResume \/ Unregister \/ UnregisterWake

Spec == Init /\ [][Next]_vars

(* A started send runs on, the transport delivers, the remote application  *)
(* reads, the kworker handles what arrived, an unregistration completes.   *)
(* A socket whose transmissions are tried again and again succeeds some    *)
(* time: transports fail transiently.  Nobody is obliged to send, to       *)
(* close, or to be interrupted.                                            *)
Fairness ==
    /\ \A s \in Senders : WF_vars(SenderStep(s)) /\ SF_vars(XmitOk(s))
    /\ WF_vars(EndpointPost) /\ WF_vars(RecvMsg) /\ WF_vars(TxResume)
    /\ WF_vars(UnregisterWake)

FairSpec == Spec /\ Fairness

-----------------------------------------------------------------------------
(* The places where the one outstanding confirmation of a flow may be.     *)
Confirming(s) == pc[s] \in {"xmitc", "failed"}
OneConfirm(q) == \A i, j \in DOMAIN q : q[i] = "confirm" /\ q[j] = "confirm" => i = j
AtSender      == \E s \in Senders : Confirming(s)

Confirmation == AtSender \/ ConfirmIn(wire) \/ ConfirmIn(rxq) \/ resumes > 0 \/ txFailed = 1

(* ResumeOwed: once a flow has passed the low watermark, the RESUME_TX     *)
(* that will reset it is always under way - as a confirm_rx message with a *)
(* sender, on the wire or unread, as the RESUME_TX itself, or as the       *)
(* tx_failed flag that makes the next message ask again - unless a         *)
(* confirmation was dropped outside qrtr_tx_flow_failed()'s reach.         *)
ResumeOwed == pending >= LOW /\ lost = 0 => Confirmation

(* SingleConfirm: as long as every confirm_rx message was counted by the   *)
(* flow and none was answered by a peek, at most one confirmation exists,  *)
(* in exactly one place, and only above the low watermark: no RESUME_TX    *)
(* resets a window it was not asked for, whatever senders, failures and    *)
(* the endpoint's removal do.                                              *)
SingleConfirm ==
    strays = 0 =>
        /\ Confirmation => pending >= LOW
        /\ \A s, t \in Senders : Confirming(s) /\ Confirming(t) => s = t
        /\ OneConfirm(wire) /\ OneConfirm(rxq) /\ resumes <= 1
        /\ AtSender => ~ConfirmIn(wire) /\ ~ConfirmIn(rxq) /\ resumes = 0 /\ txFailed = 0
        /\ ConfirmIn(wire) => ~ConfirmIn(rxq) /\ resumes = 0 /\ txFailed = 0
        /\ ConfirmIn(rxq) => resumes = 0 /\ txFailed = 0
        /\ resumes = 1 => txFailed = 0

(* ReceiveBound: however senders overtake each other between being counted *)
(* and being transmitted, the remote socket never has more unread messages *)
(* of a fully accounted flow than two windows less the confirmed part of   *)
(* the older one, plus one per socket that was overtaken: what sk_rcvbuf   *)
(* must hold per flow for flow control to prevent drops.  A reader that    *)
(* peeks ends it: each peek resets pending with nothing read.              *)
ReceiveBound ==
    strays = 0 => Len(wire) + Len(rxq) <= 2 * HIGH - LOW + Cardinality(Senders) - 1

(* SleepJustified: a sender sleeps, and a socket stays on the list of      *)
(* waiters, only while the flow is full; and nobody sleeps on a flow whose *)
(* endpoint is gone once the unregistration has run its wake-ups.          *)
SleepJustified ==
    /\ \A s \in Senders : pc[s] = "sleep" => pending = HIGH /\ ep # "woken"
    /\ waiters # {} => pending = HIGH

(* SleeperReleased: every sender asleep on the flow is woken, by the       *)
(* RESUME_TX or otherwise (qrtr_tx_wait, qrtr_tx_resume).                  *)
SleeperReleased == \A s \in Senders : pc[s] = "sleep" ~> pc[s] # "sleep"

(* WaiterNotified: a socket refused with -EAGAIN finds a RESUME_TX         *)
(* notification in its receive queue, eventually, unless the endpoint goes *)
(* away (qrtr_tx_wait, qrtr_tx_resume).                                    *)
WaiterNotified == \A s \in Senders : s \in waiters ~> s \in inbox \/ ep # "up"

(* FailedConfirmRecovers: what the comment on qrtr_tx_flow_failed() says   *)
(* of its workaround: when the transmission of the confirm_rx message      *)
(* failed, senders do not "stall forever waiting for the resume TX message *)
(* associated with the dropped confirm_rx message".                        *)
FailedConfirmRecovers ==
    \A s \in Senders : pc[s] = "sleep" /\ txFailed = 1 ~> pc[s] # "sleep"
=============================================================================
