------------------------------ MODULE QrtrCtrl ------------------------------
(***************************************************************************)
(* The control socket of a QRTR node (net/qrtr/af_qrtr.c, net/qrtr/ns.c):  *)
(* writers that wait for space in its receive queue, the name service that *)
(* reads it, the HELLO handshake with every neighbour, whose counters the  *)
(* closing of the socket resets, and its closing and reopening.            *)
(*                                                                         *)
(* A writer is the kworker of a neighbour's qrtr_node or a local task that *)
(* sends to the control port.  HELLOs are sent by the kworkers, by the     *)
(* name service's kthread in answer to one, and by the task that starts    *)
(* the name service.  Messages other than HELLO are alike.                 *)
(***************************************************************************)
EXTENDS Integers, Sequences, FiniteSets

CONSTANTS
    Nodes,      \* neighbours, each with a qrtr_node and its kworker
    Locals,     \* local tasks that send to the control port
    RcvBuf,     \* messages the receive queue holds
    NoNode,     \* no neighbour
    Faults      \* a subset of AllFaults

(* xmit: the transport fails to send a HELLO; alloc: an allocation fails.  *)
AllFaults == {"xmit", "alloc"}

Writers == Nodes \cup Locals
Senders == Nodes \cup {"ns", "init"}   \* threads that send HELLOs

ASSUME CtrlAssumption ==
    /\ RcvBuf \in Nat \ {0} /\ IsFiniteSet(Nodes)
    /\ Faults \subseteq AllFaults
    /\ NoNode \notin Nodes /\ {"ns", "init"} \cap Writers = {} /\ Nodes \cap Locals = {}

VARIABLES
    sock,       \* "open", "closing": counters reset, still bound; "closed"
    queue,      \* sk_receive_queue of the control socket
    signal,     \* signal_on_recv
    done,       \* rx_queue_has_space
    work,       \* qrtr_ns.work is queued
    npc,        \* the name service's kthread: see NsPCs
    peer,       \* the neighbour whose HELLO it answers
    todo,       \* neighbours that the starting task still has to greet
    wpc,        \* where a writer is in qrtr_sock_queue_ctrl_skb()
    msg,        \* what it delivers: a neighbour for its HELLO, or NoNode
    stale,      \* writers that hold a control socket which was closed
    greet,      \* greet[n]: node->say_hello is queued
    sent,       \* node->hello_sent
    rcvd,       \* node->hello_rcvd
    flight,     \* flight[t]: t counted a HELLO to a neighbour, not yet transmitted
    old,        \* history: threads whose HELLO was counted before the last reset
    said,       \* history: neighbours to which a HELLO counted since then was sent
    skewed,     \* history: neighbours whose counter an old HELLO has decremented
    missed,     \* history: 1 once a writer asked this socket for a signal with its queue empty
    failed      \* history: 1 once an allocation failed

vars == <<sock, queue, signal, done, work, npc, peer, todo, wpc, msg, stale, greet, sent,
          rcvd, flight, old, said, skewed, missed, failed>>
sockVars  == <<sock, signal, done>>
nsVars    == <<work, npc, peer, todo>>
writeVars == <<wpc, msg, stale, missed>>
helloVars == <<greet, sent, flight, old, said, skewed>>

(* post: about to queue the message; full: found no space; wait: in        *)
(* wait_for_completion(); stuck: in it, on a socket that was closed.       *)
WriterPCs == {"idle", "post", "full", "wait", "stuck"}

(* read: in the loop of qrtr_ns_worker(); reply: has a HELLO to answer;    *)
(* leave: found nothing to read, not yet back in the worker's loop.        *)
NsPCs == {"idle", "read", "reply", "leave"}

TypeOK ==
    /\ sock \in {"open", "closing", "closed"}
    /\ queue \in Seq(Nodes \cup {NoNode}) /\ Len(queue) <= RcvBuf
    /\ signal \in BOOLEAN /\ done \in BOOLEAN /\ work \in BOOLEAN
    /\ npc \in NsPCs
    /\ peer \in Nodes \cup {NoNode}
    /\ todo \subseteq Nodes
    /\ wpc \in [Writers -> WriterPCs]
    /\ msg \in [Writers -> Nodes \cup {NoNode}]
    /\ stale \subseteq Writers
    /\ greet \in [Nodes -> BOOLEAN]
    /\ sent \in [Nodes -> Int] /\ rcvd \in [Nodes -> Nat]
    /\ flight \in [Senders -> Nodes \cup {NoNode}]
    /\ old \subseteq Senders /\ said \subseteq Nodes /\ skewed \subseteq Nodes
    /\ missed \in {0, 1} /\ failed \in {0, 1}

(* Before the name service starts; the endpoints are registered, and their *)
(* HELLO work was queued by qrtr_endpoint_register().                      *)
Init ==
    /\ sock = "closed" /\ queue = <<>> /\ signal = FALSE /\ done = FALSE
    /\ work = FALSE /\ npc = "idle" /\ peer = NoNode /\ todo = {}
    /\ wpc = [w \in Writers |-> "idle"] /\ msg = [w \in Writers |-> NoNode]
    /\ stale = {}
    /\ greet = [n \in Nodes |-> TRUE]
    /\ sent = [n \in Nodes |-> 0] /\ rcvd = [n \in Nodes |-> 0]
    /\ flight = [t \in Senders |-> NoNode]
    /\ old = {} /\ said = {} /\ skewed = {} /\ missed = 0 /\ failed = 0

-----------------------------------------------------------------------------
(* Writers.                                                                *)

Idle(w) == wpc[w] = "idle" /\ (w \in Nodes => flight[w] = NoNode)

(* qrtr_node_rx_work() or qrtr_local_enqueue() finds the control socket; a *)
(* HELLO from a neighbour that said it before is dropped.                  *)
Arrive(w, hello) ==
    /\ Idle(w) /\ sock # "closed"
    /\ hello => w \in Nodes /\ rcvd[w] = 0
    /\ rcvd' = IF hello THEN [rcvd EXCEPT ![w] = @ + 1] ELSE rcvd
    /\ msg' = [msg EXCEPT ![w] = IF hello THEN w ELSE NoNode]
    /\ wpc' = [wpc EXCEPT ![w] = "post"]
    /\ UNCHANGED <<sockVars, queue, nsVars, stale, helloVars, missed, failed>>

(* Mutant: work that runs is not queued again. *)
Post_NotWhileRunning(w) ==
    /\ wpc[w] = "post" /\ w \notin stale /\ Len(queue) < RcvBuf
    /\ queue' = Append(queue, msg[w])
    /\ work' = (work \/ npc = "idle")
    /\ wpc' = [wpc EXCEPT ![w] = "idle"]
    /\ UNCHANGED <<sockVars, npc, peer, todo, msg, stale, rcvd, helloVars, missed, failed>>

(* sock_queue_rcv_skb(): queue the message and wake the name service, or   *)
(* find no space.  A socket closed meanwhile has space and no reader.      *)
Post(w) ==
    /\ wpc[w] = "post"
    /\ \/ /\ w \notin stale /\ Len(queue) < RcvBuf
          /\ queue' = Append(queue, msg[w])
          /\ work' = TRUE
          /\ wpc' = [wpc EXCEPT ![w] = "idle"]
          /\ UNCHANGED stale
       \/ /\ w \notin stale /\ Len(queue) >= RcvBuf
          /\ wpc' = [wpc EXCEPT ![w] = "full"]
          /\ UNCHANGED <<queue, work, stale>>
       \/ /\ w \in stale
          /\ wpc' = [wpc EXCEPT ![w] = "idle"]
          /\ stale' = stale \ {w}
          /\ UNCHANGED <<queue, work>>
    /\ UNCHANGED <<sockVars, npc, peer, todo, msg, rcvd, helloVars, missed, failed>>

(* Mutant: the completion is reset without a request for it. *)
AskSignal_NoRequest(w) ==
    /\ wpc[w] = "full"
    /\ wpc' = [wpc EXCEPT ![w] = IF w \in stale THEN "stuck" ELSE "wait"]
    /\ done' = FALSE
    /\ UNCHANGED <<sock, signal, queue, nsVars, msg, stale, rcvd, helloVars, missed, failed>>

(* Under signal_lock: reset the completion, ask for it, then wait. *)
AskSignal(w) ==
    /\ wpc[w] = "full"
    /\ IF w \in stale
       THEN wpc' = [wpc EXCEPT ![w] = "stuck"] /\ UNCHANGED <<signal, done, missed>>
       ELSE /\ wpc' = [wpc EXCEPT ![w] = "wait"]
            /\ signal' = TRUE /\ done' = FALSE
            /\ missed' = IF queue = <<>> THEN 1 ELSE missed
    /\ UNCHANGED <<sock, queue, nsVars, msg, stale, rcvd, helloVars, failed>>

(* wait_for_completion() returns: try again. *)
Woken(w) ==
    /\ wpc[w] = "wait" /\ done
    /\ wpc' = [wpc EXCEPT ![w] = "post"]
    /\ UNCHANGED <<sockVars, queue, nsVars, msg, stale, rcvd, helloVars, missed, failed>>

-----------------------------------------------------------------------------
(* HELLOs: the gate of qrtr_node_enqueue(), under ep_lock, lets one pass   *)
(* and counts it; the transmission is a later step of the same thread.     *)
Gate(t, n) ==
    /\ sent' = [sent EXCEPT ![n] = IF @ = 0 THEN 1 ELSE @]
    /\ flight' = [flight EXCEPT ![t] = IF sent[n] = 0 THEN n ELSE NoNode]

Target(t) == flight[t]

XmitOk(t) ==
    /\ Target(t) # NoNode
    /\ flight' = [flight EXCEPT ![t] = NoNode]
    /\ said' = IF t \in old THEN said ELSE said \cup {Target(t)}
    /\ old' = old \ {t}
    /\ UNCHANGED <<sockVars, queue, nsVars, writeVars, greet, sent, rcvd, skewed, failed>>

(* Mutant: no second attempt. *)
XmitFail_NoRetry(t) ==
    /\ "xmit" \in Faults /\ Target(t) # NoNode
    /\ flight' = [flight EXCEPT ![t] = NoNode]
    /\ sent' = [sent EXCEPT ![Target(t)] = @ - 1]
    /\ old' = old \ {t}
    /\ UNCHANGED <<sockVars, queue, nsVars, writeVars, greet, rcvd, said, skewed, failed>>

(* The transmission failed: the counter goes back, whatever it is by now,  *)
(* and the kworker is to try again.                                        *)
XmitFail(t) ==
    /\ "xmit" \in Faults /\ Target(t) # NoNode
    /\ flight' = [flight EXCEPT ![t] = NoNode]
    /\ sent' = [sent EXCEPT ![Target(t)] = @ - 1]
    /\ greet' = [greet EXCEPT ![Target(t)] = TRUE]
    /\ skewed' = IF t \in old THEN skewed \cup {Target(t)} ELSE skewed
    /\ old' = old \ {t}
    /\ UNCHANGED <<sockVars, queue, nsVars, writeVars, rcvd, said, failed>>

(* qrtr_hello_work() in n's kworker: nothing without a control socket or   *)
(* without memory.                                                         *)
HelloWork(n) ==
    /\ Idle(n) /\ greet[n]
    /\ greet' = [greet EXCEPT ![n] = FALSE]
    /\ \/ sock = "closed" /\ UNCHANGED <<sent, flight, failed>>
       \/ sock # "closed" /\ Gate(n, n) /\ UNCHANGED failed
       \/ sock # "closed" /\ "alloc" \in Faults /\ failed' = 1 /\ UNCHANGED <<sent, flight>>
    /\ UNCHANGED <<sockVars, queue, nsVars, writeVars, rcvd, old, said, skewed>>

(* qrtr_bcast_enqueue() of the HELLO with which the name service starts,   *)
(* one neighbour after the other; a copy that cannot be made ends it.      *)
Bcast(n) ==
    /\ n \in todo /\ flight["init"] = NoNode
    /\ \/ Gate("init", n) /\ todo' = todo \ {n} /\ UNCHANGED failed
       \/ "alloc" \in Faults /\ todo' = {} /\ failed' = 1 /\ UNCHANGED <<sent, flight>>
    /\ UNCHANGED <<sockVars, queue, work, npc, peer, writeVars, greet, rcvd, old, said, skewed>>

-----------------------------------------------------------------------------
(* The name service's kthread: qrtr_ns_worker() reads until there is       *)
(* nothing left; without memory for its buffer it does not start.          *)
NsRun ==
    /\ npc = "idle" /\ work /\ sock = "open"
    /\ work' = FALSE
    /\ \/ npc' = "read" /\ UNCHANGED failed
       \/ "alloc" \in Faults /\ failed' = 1 /\ UNCHANGED npc
    /\ UNCHANGED <<sockVars, queue, peer, todo, writeVars, rcvd, helloVars>>

(* Mutant: the request for a signal is withdrawn and not honoured. *)
Recv_NoSignal ==
    /\ npc = "read" /\ flight["ns"] = NoNode
    /\ \/ queue = <<>> /\ npc' = "leave" /\ UNCHANGED <<queue, peer, signal>>
       \/ /\ queue # <<>>
          /\ queue' = Tail(queue)
          /\ peer' = Head(queue)
          /\ npc' = IF Head(queue) # NoNode THEN "reply" ELSE "read"
          /\ signal' = FALSE
    /\ UNCHANGED <<sock, done, work, todo, writeVars, rcvd, helloVars, failed>>

(* qrtr_recvmsg(): take a message, free its space, and signal if asked.    *)
(* ctrl_cmd_hello() then says hello to the neighbour.                      *)
Recv ==
    /\ npc = "read" /\ flight["ns"] = NoNode
    /\ \/ /\ queue = <<>>
          /\ npc' = "leave"
          /\ UNCHANGED <<queue, peer, signal, done>>
       \/ /\ queue # <<>>
          /\ queue' = Tail(queue)
          /\ peer' = Head(queue)
          /\ npc' = IF Head(queue) # NoNode THEN "reply" ELSE "read"
          /\ done' = (done \/ signal)
          /\ signal' = FALSE
    /\ UNCHANGED <<sock, work, todo, writeVars, rcvd, helloVars, failed>>

(* qrtr_ns_worker() returns. *)
NsLeave ==
    /\ npc = "leave"
    /\ npc' = "idle"
    /\ UNCHANGED <<sockVars, queue, work, peer, todo, writeVars, rcvd, helloVars, failed>>

(* say_hello() in answer to a HELLO. *)
Reply ==
    /\ npc = "reply"
    /\ Gate("ns", peer)
    /\ npc' = "read" /\ peer' = NoNode
    /\ UNCHANGED <<sockVars, queue, work, todo, writeVars, rcvd, greet, old, said, skewed, failed>>

(* qrtr_ns_init(): bind the control port, then greet everybody. *)
NsInit ==
    /\ sock = "closed"
    /\ sock' = "open"
    /\ todo' = Nodes
    /\ UNCHANGED <<queue, signal, done, work, npc, peer, writeVars, rcvd, helloVars, failed>>

(* Mutant: closing forgets the HELLOs that were received, not those sent.  *)
ReleaseReset_Half ==
    /\ sock = "open" /\ npc = "idle" /\ todo = {}
    /\ flight["ns"] = NoNode /\ flight["init"] = NoNode
    /\ sock' = "closing"
    /\ rcvd' = [n \in Nodes |-> 0]
    /\ old' = {t \in Senders : Target(t) # NoNode}
    /\ said' = {} /\ skewed' = {}
    /\ UNCHANGED <<queue, signal, done, nsVars, writeVars, greet, sent, flight, failed>>

(* qrtr_release() of the control socket, once its users are done: first it *)
(* resets the counters of all nodes ...                                    *)
ReleaseReset ==
    /\ sock = "open" /\ npc = "idle" /\ todo = {}
    /\ flight["ns"] = NoNode /\ flight["init"] = NoNode
    /\ sock' = "closing"
    /\ sent' = [n \in Nodes |-> 0] /\ rcvd' = [n \in Nodes |-> 0]
    /\ old' = {t \in Senders : Target(t) # NoNode}
    /\ said' = {} /\ skewed' = {}
    /\ UNCHANGED <<queue, signal, done, nsVars, writeVars, greet, flight, failed>>

(* ... then it gives the port back and purges the queue.  Nobody signals   *)
(* the writers that wait for space in it.                                  *)
ReleaseRemove ==
    /\ sock = "closing"
    /\ sock' = "closed"
    /\ queue' = <<>> /\ signal' = FALSE /\ done' = FALSE /\ work' = FALSE
    /\ stale' = {w \in Writers : wpc[w] # "idle"}
    /\ wpc' = [w \in Writers |->
          IF wpc[w] # "wait" THEN wpc[w] ELSE IF done THEN "post" ELSE "stuck"]
    /\ missed' = 0
    /\ UNCHANGED <<npc, peer, todo, msg, rcvd, helloVars, failed>>

-----------------------------------------------------------------------------
Writer(w) == Post(w) \/ AskSignal(w) \/ Woken(w)
NsWorker  == NsRun \/ Recv \/ Reply \/ NsLeave
Hello(t)  == XmitOk(t) \/ XmitFail(t)

Next ==
    \/ \E w \in Writers : Writer(w) \/ \E hello \in BOOLEAN : Arrive(w, hello)
    \/ \E t \in Senders : Hello(t)
    \/ \E n \in Nodes : HelloWork(n) \/ Bcast(n)
    \/ NsWorker \/ NsInit \/ ReleaseReset \/ ReleaseRemove

Spec == Init /\ [][Next]_vars

(* Threads run on, queued work runs, a closing completes.  A HELLO that is *)
(* tried again and again gets through: transports fail transiently.        *)
Fairness ==
    /\ \A w \in Writers : WF_vars(Writer(w))
    /\ \A t \in Senders : WF_vars(Hello(t)) /\ SF_vars(XmitOk(t))
    /\ \A n \in Nodes : SF_vars(HelloWork(n)) /\ WF_vars(Bcast(n))
    /\ WF_vars(NsWorker) /\ WF_vars(ReleaseRemove)

FairSpec == Spec /\ Fairness

-----------------------------------------------------------------------------
(* SignalAsked: a writer that waits for space, and has not been completed, *)
(* has its request standing: no other writer's reset of the completion and *)
(* no read withdraws it (qrtr_sock_queue_ctrl_skb against qrtr_recvmsg).   *)
SignalAsked == \A w \in Writers : wpc[w] = "wait" /\ ~done => signal

(* ReaderAwake: as long as the socket is open and memory is there, unread  *)
(* control messages always have the name service running or queued to run  *)
(* (qrtr_ns_data_ready against the end of qrtr_ns_worker).                 *)
ReaderAwake ==
    sock = "open" /\ queue # <<>> /\ failed = 0 => work \/ npc \in {"read", "reply"}

(* HelloCounted: hello_sent says whether a HELLO was sent, or is about to  *)
(* be, since the control socket was last closed; so at most one goes out,  *)
(* whichever of the kworker, the name service and its start come first,    *)
(* fail or meet a closing - unless a HELLO from before the closing fails   *)
(* after it and takes the count of a new one.                              *)
HelloCounted ==
    \A n \in Nodes \ skewed :
        sent[n] = Cardinality({t \in Senders \ old : Target(t) = n})
                      + (IF n \in said THEN 1 ELSE 0)

(* WriterSignalled: a writer that waits for space in the control socket is *)
(* signalled, unless the socket was closed, the reader had no memory, or   *)
(* some writer asked for its signal when the reader had emptied the queue  *)
(* already (qrtr_sock_queue_ctrl_skb, qrtr_recvmsg).  It may lose the race *)
(* for the space, or for the completion, and wait again.                   *)
WriterSignalled ==
    \A w \in Writers :
        wpc[w] = "wait" ~> done \/ missed = 1 \/ sock # "open" \/ failed = 1

(* HelloSaid: every neighbour is greeted while the control socket is open, *)
(* however often the transmission fails, unless its counter was skewed,    *)
(* memory ran out, or its kworker has to wait for space in the control     *)
(* socket (qrtr_hello_work, qrtr_node_enqueue, qrtr_ns_init).              *)
HelloSaid ==
    \A n \in Nodes :
        sock = "open" ~> \/ n \in said \/ n \in skewed \/ sock # "open"
                         \/ failed = 1 \/ wpc[n] \in {"wait", "stuck"}
=============================================================================
