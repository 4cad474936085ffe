------------------------------ MODULE QrtrLink ------------------------------
(***************************************************************************)
(* The endpoints that wrap a bus or a file: MHI (net/qrtr/mhi.c with the   *)
(* transfer ring of drivers/bus/mhi/host), SMD (net/qrtr/smd.c) and the    *)
(* tun device (net/qrtr/tun.c).  Each registers an endpoint, passes what   *)
(* its bus receives to qrtr_endpoint_post(), sends what qrtr_node_enqueue()*)
(* passes to xmit, and is removed while both go on.                        *)
(*                                                                         *)
(* A packet is abstracted to its owner: a socket, of which the MHI         *)
(* endpoint takes a reference for as long as the bus has the packet, or    *)
(* nobody, for what the node's own thread sends.  A ring is how many       *)
(* packets of each it holds.                                               *)
(***************************************************************************)
EXTENDS Integers

CONSTANTS
    Kinds,      \* the links there are: a subset of AllKinds
    Cap,        \* packets a transfer ring takes
    MaxSends    \* bound: packets that are sent

AllKinds == {"mhi", "smd", "tun"}
Owners   == {"sock", "none"}

ASSUME LinkAssumption ==
    Kinds \subseteq AllKinds /\ Cap \in Nat \ {0} /\ MaxSends \in Nat

VARIABLES
    kind,      \* which link this is
    ppc,       \* where its probe or its removal is
    data,      \* drvdata, or private_data, is set
    ep,        \* node->ep is set: packets are passed to xmit
    node,      \* ep->node is set, and its node is there
    prepared,  \* qdev->prepared is completed
    ringfull,  \* qdev->ringfull is completed
    chan,      \* the channel: "off" (no ring), "on", or "held" (ring, no events)
    ring,      \* packets in the transfer ring, or in tun->queue
    err,       \* the bus is in an error state
    wpc,       \* where xmit is; it runs with node->ep_lock held
    skb,       \* the owner of its packet
    tries,     \* how often xmit was refused this packet
    ucb,       \* the packet qcom_mhi_qrtr_ul_callback() is called for
    rpc,       \* where the receive callback is
    holds,     \* references to sockets held by the MHI endpoint
    sends,     \* history: packets sent
    leaked,    \* history: references taken again, or lost with a packet
    missed,    \* history: 1 once the last completion came before a reinit
    slept      \* history: 1 once the channels were stopped for a suspend

lifeVars == <<kind, ppc, data, ep, node>>
busVars  == <<prepared, ringfull, chan, ring, err>>
sendVars == <<wpc, skb, tries, sends>>
histVars == <<leaked, missed, slept>>
vars == <<lifeVars, busVars, sendVars, ucb, rpc, holds, histVars>>

SendPCs == {"idle", "hold", "queue", "gen", "again", "wait", "xmit"}

(* Mutant: SMD sets drvdata before it registers. *)
Path_Early ==
    [mhi |-> [probe |-> "data", data |-> "register", register |-> "prepare", prepare |-> "up",
            up |-> "suspend", suspend |-> "drain", drain |-> "unreg", unreg |-> "release",
            release |-> "stop", stop |-> "flush", flush |-> "clear", clear |-> "gone"],
     smd |-> [probe |-> "data", data |-> "register", register |-> "up",
            up |-> "unreg", unreg |-> "release", release |-> "clear", clear |-> "gone"],
     tun |-> [probe |-> "data", data |-> "register", register |-> "up",
            up |-> "unreg", unreg |-> "release", release |-> "purge", purge |-> "gone"]]

(* Mutant: MHI channels are unprepared before the endpoint is unregistered. *)
Path_Stop ==
    [mhi |-> [probe |-> "data", data |-> "register", register |-> "prepare", prepare |-> "up",
            up |-> "suspend", suspend |-> "drain", drain |-> "stop", stop |-> "flush",
            flush |-> "unreg", unreg |-> "release", release |-> "clear", clear |-> "gone"],
     smd |-> [probe |-> "register", register |-> "data", data |-> "up",
            up |-> "unreg", unreg |-> "release", release |-> "clear", clear |-> "gone"],
     tun |-> [probe |-> "data", data |-> "register", register |-> "up",
            up |-> "unreg", unreg |-> "release", release |-> "purge", purge |-> "gone"]]

(* The step that follows each step of the probe, up to "up", and of the    *)
(* removal.  The bus stops and drains an MHI device's channels before it   *)
(* calls the driver's remove (mhi_driver_remove); the callbacks of SMD go  *)
(* on until remove has returned.                                           *)
Path ==
    [mhi |-> [probe |-> "data", data |-> "register", register |-> "prepare", prepare |-> "up",
            up |-> "suspend", suspend |-> "drain", drain |-> "unreg", unreg |-> "release",
            release |-> "stop", stop |-> "flush", flush |-> "clear", clear |-> "gone"],
     smd |-> [probe |-> "register", register |-> "data", data |-> "up",
            up |-> "unreg", unreg |-> "release", release |-> "clear", clear |-> "gone"],
     tun |-> [probe |-> "data", data |-> "register", register |-> "up",
            up |-> "unreg", unreg |-> "release", release |-> "purge", purge |-> "gone"]]

Places == {"data", "register", "prepare", "up", "suspend", "drain", "unreg", "release",
           "stop", "flush", "clear", "purge", "gone", "nap", "asleep"}

TypeOK ==
    /\ kind \in Kinds /\ ppc \in Places
    /\ data \in BOOLEAN /\ ep \in BOOLEAN /\ node \in BOOLEAN
    /\ prepared \in BOOLEAN /\ ringfull \in BOOLEAN /\ err \in BOOLEAN
    /\ chan \in {"off", "on", "held"}
    /\ ring \in [Owners -> Nat]
    /\ wpc \in SendPCs /\ skb \in Owners /\ tries \in Nat
    /\ ucb \in Owners \cup {"no"}
    /\ rpc \in {"idle", "call", "post"}
    /\ holds \in Nat /\ sends \in 0..MaxSends /\ leaked \in Nat
    /\ missed \in {0, 1} /\ slept \in {0, 1}

Init ==
    /\ kind \in Kinds /\ ppc = Path[kind].probe
    /\ data = FALSE /\ ep = FALSE /\ node = FALSE
    /\ prepared = FALSE /\ ringfull = FALSE /\ chan = "off"
    /\ ring = [o \in Owners |-> 0] /\ err = FALSE
    /\ wpc = "idle" /\ skb = "none" /\ tries = 0
    /\ ucb = "no" /\ rpc = "idle" /\ holds = 0
    /\ sends = 0 /\ leaked = 0 /\ missed = 0 /\ slept = 0

-----------------------------------------------------------------------------
Ref(o)   == IF o = "sock" THEN 1 ELSE 0
Queued   == ring["sock"] + ring["none"]
Quiet    == Queued = 0 /\ ucb = "no" /\ rpc = "idle"

Goto(s)  == ppc' = s
After(s) == Goto(Path[kind][s])

SetData ==
    /\ ppc = "data"
    /\ data' = TRUE
    /\ After("data")
    /\ UNCHANGED <<kind, ep, node, busVars, sendVars, ucb, rpc, holds, histVars>>

(* qrtr_endpoint_register(): fails without memory, and what was done       *)
(* before is undone.                                                       *)
Register ==
    /\ ppc = "register"
    /\ \/ ep' = TRUE /\ node' = TRUE /\ After("register")
       \/ Goto(IF kind = "mhi" THEN "stop" ELSE "gone") /\ UNCHANGED <<ep, node>>
    /\ UNCHANGED <<kind, data, busVars, sendVars, ucb, rpc, holds, histVars>>

(* mhi_prepare_for_transfer_autoqueue() and complete_all(&prepared); if it *)
(* fails the endpoint is unregistered.                                     *)
Prepare ==
    /\ ppc = "prepare"
    /\ \/ chan' = "on" /\ prepared' = TRUE /\ After("prepare")
       \/ Goto("unreg") /\ UNCHANGED <<chan, prepared>>
    /\ UNCHANGED <<kind, data, ep, node, ringfull, ring, err, sendVars, ucb, rpc, holds, histVars>>

(* The device goes, or the file is closed, which no call of it outlives. *)
Remove ==
    /\ ppc = "up" /\ (kind = "tun" => rpc = "idle")
    /\ After("up")
    /\ UNCHANGED <<kind, data, ep, node, busVars, sendVars, ucb, rpc, holds, histVars>>

(* No more events of the channels are handled ...                          *)
Hold ==
    /\ ppc \in {"suspend", "stop"}
    /\ chan' = IF chan = "on" THEN "held" ELSE chan
    /\ After(ppc)
    /\ UNCHANGED <<kind, data, ep, node, prepared, ringfull, ring, err, sendVars, ucb, rpc, holds,
                   histVars>>

(* ... mhi_reset_chan() waits for the event that is, and calls back for    *)
(* every packet in the ring ...                                            *)
Drain(o) ==
    /\ ppc \in {"drain", "flush", "nap"} /\ ucb = "no" /\ ring[o] > 0
    /\ ring' = [ring EXCEPT ![o] = @ - 1]
    /\ ucb' = o
    /\ UNCHANGED <<lifeVars, prepared, ringfull, chan, err, sendVars, rpc, holds, histVars>>

Drained ==
    /\ ppc = "drain" /\ Quiet
    /\ After("drain")
    /\ UNCHANGED <<kind, data, ep, node, busVars, sendVars, ucb, rpc, holds, histVars>>

(* ... and mhi_deinit_chan_ctxt() frees the ring. *)
Flushed ==
    /\ ppc = "flush" /\ Quiet
    /\ chan' = "off"
    /\ After("flush")
    /\ UNCHANGED <<kind, data, ep, node, prepared, ringfull, ring, err, sendVars, ucb, rpc, holds,
                   histVars>>

(* Mutant: node->ep is cleared without ep_lock. *)
Unregister_NoLock ==
    /\ ppc = "unreg"
    /\ ep' = FALSE
    /\ After("unreg")
    /\ UNCHANGED <<kind, data, node, busVars, sendVars, ucb, rpc, holds, histVars>>

(* qrtr_endpoint_unregister() takes ep_lock and clears node->ep; later it  *)
(* drops the node and clears ep->node.                                     *)
Unregister ==
    /\ ppc = "unreg" /\ wpc = "idle"
    /\ ep' = FALSE
    /\ After("unreg")
    /\ UNCHANGED <<kind, data, node, busVars, sendVars, ucb, rpc, holds, histVars>>

Release ==
    /\ ppc = "release"
    /\ node' = FALSE
    /\ After("release")
    /\ UNCHANGED <<kind, data, ep, busVars, sendVars, ucb, rpc, holds, histVars>>

Clear ==
    /\ ppc = "clear"
    /\ data' = FALSE
    /\ After("clear")
    /\ UNCHANGED <<kind, ep, node, busVars, sendVars, ucb, rpc, holds, histVars>>

(* qrtr_tun_release(): skb_queue_purge(). *)
Purge ==
    /\ kind = "tun" /\ ppc = "purge"
    /\ ring' = [o \in Owners |-> 0]
    /\ After("purge")
    /\ UNCHANGED <<kind, data, ep, node, prepared, ringfull, chan, err, sendVars, ucb, rpc, holds,
                   histVars>>

(* qcom_mhi_qrtr_pm_suspend_late() and _resume_early(): the channels are   *)
(* unprepared and prepared, which may fail; prepared stays completed.      *)
Suspend ==
    /\ kind = "mhi" /\ ppc = "up" /\ ~err
    /\ chan' = IF chan = "on" THEN "held" ELSE chan
    /\ Goto("nap")
    /\ slept' = 1
    /\ UNCHANGED <<kind, data, ep, node, prepared, ringfull, ring, err, sendVars, ucb, rpc, holds,
                   leaked, missed>>

Suspended ==
    /\ ppc = "nap" /\ Quiet
    /\ chan' = "off"
    /\ Goto("asleep")
    /\ UNCHANGED <<kind, data, ep, node, prepared, ringfull, ring, err, sendVars, ucb, rpc, holds,
                   histVars>>

Resume ==
    /\ ppc = "asleep"
    /\ chan' \in {"on", "off"}
    /\ Goto("up")
    /\ UNCHANGED <<kind, data, ep, node, prepared, ringfull, ring, err, sendVars, ucb, rpc, holds,
                   histVars>>

(* The device fails: no more events, and mhi_queue() refuses. *)
Crash ==
    /\ kind = "mhi" /\ ppc = "up" /\ ~err
    /\ err' = TRUE
    /\ UNCHANGED <<lifeVars, prepared, ringfull, chan, ring, sendVars, ucb, rpc, holds, histVars>>

-----------------------------------------------------------------------------
Held(o) == IF kind = "mhi" THEN holds + Ref(o) ELSE holds

(* qrtr_node_enqueue() calls xmit with ep_lock held: for MHI               *)
(* qcom_mhi_qrtr_send(), which begins with a reference to the socket.      *)
Send(o) ==
    /\ wpc = "idle" /\ ep /\ sends < MaxSends
    /\ sends' = sends + 1 /\ skb' = o /\ tries' = 0
    /\ wpc' = IF kind = "mhi" THEN "hold" ELSE "xmit"
    /\ holds' = Held(o)
    /\ UNCHANGED <<lifeVars, busVars, ucb, rpc, histVars>>

(* The packet is freed, and the reference given back. *)
Fail ==
    /\ wpc' = "idle"
    /\ holds' = holds - Ref(skb)
    /\ UNCHANGED <<lifeVars, busVars, skb, tries, sends, ucb, rpc, histVars>>

(* wait_for_completion_interruptible(&prepared); the node's thread gets no *)
(* signals.  Then skb_linearize(), which may fail.                         *)
WaitPrepared ==
    /\ wpc = "hold"
    /\ \/ /\ prepared
          /\ wpc' = "queue"
          /\ UNCHANGED <<lifeVars, busVars, skb, tries, sends, ucb, rpc, holds, histVars>>
       \/ (prepared \/ skb = "sock") /\ Fail

(* mhi_queue(): the test for a full ring is made without a lock ...        *)
QueueTest ==
    /\ wpc = "queue"
    /\ \/ err /\ Fail
       \/ /\ ~err
          /\ wpc' = IF chan # "off" /\ Queued = Cap THEN "again" ELSE "gen"
          /\ UNCHANGED <<lifeVars, busVars, skb, tries, sends, ucb, rpc, holds, histVars>>

(* ... mhi_gen_tre() adds the packet, unless it cannot be mapped.  Without *)
(* a ring it writes to memory that was freed.                              *)
QueueAdd ==
    /\ wpc = "gen"
    /\ \/ /\ ring' = IF chan = "off" THEN ring ELSE [ring EXCEPT ![skb] = @ + 1]
          /\ leaked' = IF chan = "off" THEN leaked + Ref(skb) ELSE leaked
          /\ wpc' = "idle"
          /\ UNCHANGED <<lifeVars, prepared, ringfull, chan, err, skb, tries, sends, ucb, rpc, holds,
                         missed, slept>>
       \/ Fail

(* Mutant: the completion is not reset before it is waited for. *)
Reinit_Skip == ringfull' = ringfull

Reinit == ringfull' = FALSE

(* -EAGAIN: reinit_completion(&ringfull).  If every packet was completed   *)
(* since the test, nothing is left to complete it.                         *)
Again ==
    /\ wpc = "again"
    /\ Reinit
    /\ missed' = IF Queued = 0 /\ ucb = "no" THEN 1 ELSE missed
    /\ tries' = tries + 1
    /\ wpc' = "wait"
    /\ UNCHANGED <<lifeVars, prepared, chan, ring, err, skb, sends, ucb, rpc, holds, leaked, slept>>

(* wait_for_completion(&ringfull), then once more from the start, where    *)
(* the socket is held again.                                               *)
Wake ==
    /\ wpc = "wait" /\ ringfull
    /\ wpc' = "hold"
    /\ holds' = holds + Ref(skb) /\ leaked' = leaked + Ref(skb)
    /\ UNCHANGED <<lifeVars, busVars, skb, tries, sends, ucb, rpc, missed, slept>>

(* qcom_smd_qrtr_send() and qrtr_tun_send(). *)
Xmit ==
    /\ kind # "mhi" /\ wpc = "xmit"
    /\ ring' = IF kind = "tun" THEN [ring EXCEPT ![skb] = @ + 1] ELSE ring
    /\ wpc' = "idle"
    /\ UNCHANGED <<lifeVars, prepared, ringfull, chan, err, skb, tries, sends, ucb, rpc, holds, histVars>>

(* qrtr_tun_read_iter() *)
TunRead(o) ==
    /\ kind = "tun" /\ ppc = "up" /\ ring[o] > 0
    /\ ring' = [ring EXCEPT ![o] = @ - 1]
    /\ UNCHANGED <<lifeVars, prepared, ringfull, chan, err, sendVars, ucb, rpc, holds, histVars>>

-----------------------------------------------------------------------------
(* parse_xfer_event(): a packet is taken out of the ring, then             *)
(* qcom_mhi_qrtr_ul_callback() is called.                                  *)
UlEvent(o) ==
    /\ kind = "mhi" /\ chan = "on" /\ ~err /\ ucb = "no" /\ ring[o] > 0
    /\ ring' = [ring EXCEPT ![o] = @ - 1]
    /\ ucb' = o
    /\ UNCHANGED <<lifeVars, prepared, ringfull, chan, err, sendVars, rpc, holds, histVars>>

(* Mutant: only a packet of a socket completes ringfull. *)
Complete_Sock == ringfull' = (ringfull \/ ucb = "sock")

(* Mutant: a packet that was not sent does not complete ringfull. *)
Complete_Sent == ringfull' = (ringfull \/ chan = "on")

(* complete_all(&ringfull) *)
Complete == ringfull' = TRUE

(* Mutant: the reference of a packet that was not sent is kept. *)
Put_Sent == holds' = IF chan = "on" THEN holds - Ref(ucb) ELSE holds

(* sock_put() *)
Put == holds' = holds - Ref(ucb)

UlCallback ==
    /\ ucb # "no"
    /\ Put /\ Complete
    /\ ucb' = "no"
    /\ UNCHANGED <<lifeVars, prepared, chan, ring, err, sendVars, rpc, histVars>>

(* A packet arrives: by MHI only while the channel is on, by a file while  *)
(* it is open, by SMD as soon as there is a device.                        *)
RxEvent ==
    /\ rpc = "idle"
    /\ CASE kind = "mhi" -> chan = "on" /\ ~err
         [] kind = "smd" -> ppc # "gone"
         [] kind = "tun" -> ppc = "up"
    /\ rpc' = "call"
    /\ UNCHANGED <<lifeVars, busVars, sendVars, ucb, holds, histVars>>

(* qcom_mhi_qrtr_dl_callback(), qcom_smd_qrtr_callback(): nothing without  *)
(* drvdata; otherwise qrtr_endpoint_post(), which uses ep->node.           *)
RxCallback ==
    /\ rpc = "call"
    /\ rpc' = IF data THEN "post" ELSE "idle"
    /\ UNCHANGED <<lifeVars, busVars, sendVars, ucb, holds, histVars>>

Posted ==
    /\ rpc = "post"
    /\ rpc' = "idle"
    /\ UNCHANGED <<lifeVars, busVars, sendVars, ucb, holds, histVars>>

-----------------------------------------------------------------------------
Lifecycle ==
    \/ SetData \/ Register \/ Prepare \/ Hold \/ Drained \/ Flushed \/ Unregister
    \/ Release \/ Clear \/ Purge \/ Suspended \/ Resume
    \/ \E o \in Owners : Drain(o)
Sender == WaitPrepared \/ QueueTest \/ QueueAdd \/ Again \/ Wake \/ Xmit
Events == UlCallback \/ RxCallback \/ Posted
Device == \E o \in Owners : UlEvent(o)

Next ==
    \/ Lifecycle \/ Remove \/ Suspend \/ Crash
    \/ \E o \in Owners : Send(o) \/ TunRead(o)
    \/ Sender \/ Events \/ Device \/ RxEvent

Spec == Init /\ [][Next]_vars

(* Threads and callbacks run on, a device that works completes what it was *)
(* given, and one that failed is removed.                                  *)
Fairness ==
    /\ WF_vars(Lifecycle) /\ WF_vars(Sender) /\ WF_vars(UlCallback)
    /\ WF_vars(RxCallback \/ Posted) /\ WF_vars(Device) /\ WF_vars(err /\ Remove)

FairSpec == Spec /\ Fairness

-----------------------------------------------------------------------------
(* PostSafe: what a bus receives is never posted to an endpoint that has   *)
(* no node, neither while it is probed nor while it is removed; SMD, which *)
(* does not stop its callbacks first, only while it is probed              *)
(* (qrtr_endpoint_post, ep->node).                                         *)
PostSafe == rpc = "post" => node \/ (kind = "smd" /\ ppc \in {"clear", "gone"})

(* InFlight: the packets of sockets an MHI endpoint has. *)
InFlight ==
    ring["sock"] + (IF ucb = "sock" THEN 1 ELSE 0)
    + (IF wpc # "idle" /\ skb = "sock" THEN 1 ELSE 0)

(* RefExact: an MHI endpoint has one reference to the socket of each       *)
(* packet it sends, from the call of xmit to the completion, and never     *)
(* gives back more; each retry leaks another one (__qcom_mhi_qrtr_send,    *)
(* qcom_mhi_qrtr_ul_callback).                                             *)
RefExact == kind = "mhi" => holds = InFlight + leaked

(* RetryBound: a packet is refused at most twice: once because the ring is *)
(* full, once more because the completion of a packet that had left the    *)
(* ring before wakes the sender (qcom_mhi_qrtr_send).                      *)
RetryBound == tries <= 2

(* WaitCovered: a sender that waits for ringfull has a packet in the ring  *)
(* whose completion will wake it, unless the last one came between the     *)
(* refusal and the reinit (qcom_mhi_qrtr_send).                            *)
WaitCovered == wpc = "wait" /\ missed = 0 => ringfull \/ Queued > 0 \/ ucb # "no"

(* RemovedClean: a link that is removed leaves nothing behind: no packet   *)
(* in a ring or a queue, no call of xmit, no pointer to a node (the        *)
(* removals of the three drivers, with mhi_driver_remove).                 *)
RemovedClean ==
    ppc = "gone" => Queued = 0 /\ ucb = "no" /\ wpc = "idle" /\ ~node /\ chan = "off"

(* RingThere: a packet is added to a ring that is there, whatever probe    *)
(* and removal do, unless the system was suspended (mhi_gen_tre, behind    *)
(* the completion prepared).                                               *)
RingThere == wpc = "gen" /\ slept = 0 => chan # "off"

(* The ways in which xmit never returns, and the removal waits for its     *)
(* ep_lock: the last completion was missed; the ring was filled after the  *)
(* bus drained it for the removal; the probe failed before prepared, which *)
(* the node's thread waits for, was completed.                             *)
Missed  == wpc = "wait" /\ missed = 1
Starved == wpc = "wait" /\ chan = "held" /\ ppc = "unreg"
Orphan  == wpc = "hold" /\ ~prepared /\ ppc = "unreg"

(* SendEnds: xmit returns, whether the ring is full, the device fails or   *)
(* it is removed, unless it is stuck in one of these ways                  *)
(* (qcom_mhi_qrtr_send).                                                   *)
SendEnds == wpc # "idle" ~> wpc = "idle" \/ Missed \/ Starved \/ Orphan
=============================================================================
