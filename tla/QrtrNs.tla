------------------------------- MODULE QrtrNs -------------------------------
(***************************************************************************)
(* The QRTR name service (net/qrtr/ns.c) on several directly connected     *)
(* nodes, with the parts of af_qrtr.c that carry its control messages:     *)
(* the control socket's queue, the HELLO gate of qrtr_node_enqueue(), the  *)
(* DEL_CLIENT broadcast of a closing socket, which does not pass through   *)
(* the local name service, and the BYE that an endpoint's removal queues.  *)
(* Each side of a link registers and unregisters its endpoint on its own.  *)
(*                                                                         *)
(* Every node runs one name service (a kthread handling one control        *)
(* message at a time), and applications whose sockets register servers or  *)
(* look services up.  All nodes are in one network cluster, so nothing is  *)
(* forwarded for third parties (qrtr_must_forward() with net ids at most 1 *)
(* apart).  The BYE and DEL_CLIENT copies sent to local server sockets are *)
(* outputs that no modelled component reads, and are left out.             *)
(***************************************************************************)
EXTENDS Integers, Sequences, SequencesExt

CONSTANTS
    Nodes,        \* node ids
    Providers,    \* sockets <<node, port>> of applications that register servers
    Observers,    \* sockets of applications that look services up
    Services,     \* <<service, instance>> a server may register
    Queries,      \* <<service, instance>> of a lookup; 0 is a wildcard
    Faults,       \* a subset of AllFaults
    QueueCap      \* bound on every queue, below which applications and links act

(* announce: a HELLO or an announcement cannot be sent, or a broadcast     *)
(* ends before the last node; notify: a notification does not fit into an  *)
(* observer's receive buffer; nomem: there is no memory for a server, a    *)
(* lookup, a BYE or a DEL_CLIENT; hasty: a socket closes while the name    *)
(* service still has messages to handle; backlog: an endpoint is removed   *)
(* with packets left in node->rx_queue.                                    *)
AllFaults == {"announce", "notify", "nomem", "hasty", "backlog"}

Sockets == Providers \cup Observers

ASSUME SocketAssumption == Sockets \subseteq Nodes \X Nat
ASSUME FaultAssumption == Faults \subseteq AllFaults

VARIABLES
    dir,        \* dir[n]: the servers in the xarray "nodes" of n's name service
    lookups,    \* qrtr_ns.lookups of every node, each with its observer's socket
    view,       \* view[s]: what observer s made of its notifications
    open,       \* sockets bound to their port
    closing,    \* sockets whose DEL_CLIENT went to the neighbours, not yet to the own node
    multi,      \* sockets in QRTR_STATE_MULTI: they sent a NEW_SERVER
    ctrlq,      \* ctrlq[n]: receive queue of n's control socket
    chan,       \* chan[m][n]: packets from m to n, up to n's node->rx_queue
    backlog,    \* backlog[m][n]: what is left in the rx_queue of m's node for n, unregistered
    link,       \* link[m][n]: m's endpoint for n; see LinkStates
    helloSent,  \* helloSent[m][n]: m's node for n has hello_sent
    helloRcvd,  \* helloRcvd[m][n]: m's node for n has hello_rcvd
    known,      \* known[m][n]: m's node for n has left QRTR_EP_NID_AUTO
    failed,     \* history: 1 once a node or its name service was not told, for lack of memory
    dropped,    \* history: 1 once a DEL_CLIENT could not be allocated
    missed,     \* history: 1 once an observer missed a notification
    raced,      \* history: 1 once a closing came behind other messages, or a HELLO was answered
                \* during it, or an endpoint's removal left a backlog
    replaced    \* history: 1 once a server took the port of another

vars == <<dir, lookups, view, open, closing, multi, ctrlq, chan, backlog, link, helloSent,
          helloRcvd, known, failed, dropped, missed, raced, replaced>>
sockVars == <<open, closing, multi>>
linkVars == <<backlog, link, helloSent, helloRcvd, known>>
histVars == <<failed, dropped, missed, raced, replaced>>

Server(s, svc) == [node |-> s[1], port |-> s[2], svc |-> svc]
Servers == {Server(s, svc) : s \in Providers, svc \in Services}
Lookup(s, q) == [sock |-> s, query |-> q]
Ctrl(n) == <<n, 0>>      \* the control socket of n: port 0 in qrtr_ports

Msg(cmd, from, arg) == [cmd |-> cmd, from |-> from, arg |-> arg]

Msgs ==
    {Msg("HELLO", Ctrl(n), n) : n \in Nodes}
        \cup {Msg("BYE", Ctrl(n), n) : n \in Nodes}
        \cup {Msg(c, Ctrl(n), v) : c \in {"NEW_SERVER", "DEL_SERVER"}, n \in Nodes, v \in Servers}
        \cup {Msg("NEW_SERVER", <<v.node, v.port>>, v) : v \in Servers}
        \cup {Msg("DEL_SERVER", s, s) : s \in Providers}
        \cup {Msg("DEL_CLIENT", s, s) : s \in Sockets}
        \cup {Msg(c, s, q) : c \in {"NEW_LOOKUP", "DEL_LOOKUP"}, s \in Observers, q \in Queries}

(* down: not registered; up: registered, and the other side was not        *)
(* unregistered since; old: registered, and the other side was.            *)
LinkStates == {"down", "up", "old"}

Registered(m, n) == link[m][n] # "down"

(* Both sides are registered, and neither outlived an earlier endpoint of  *)
(* the other: each node's hello_sent and hello_rcvd are about the other.   *)
Up(m, n) == link[m][n] = "up" /\ link[n][m] = "up"

(* What m sends to n reaches the transport; a new endpoint may be ahead of *)
(* the other side's, which then finds the packets waiting.                 *)
Carried(m, n) == link[m][n] = "up" \/ (link[m][n] = "old" /\ link[n][m] = "up")

TypeOK ==
    /\ dir \in [Nodes -> SUBSET Servers]
    /\ lookups \subseteq {Lookup(s, q) : s \in Observers, q \in Queries}
    /\ view \in [Sockets -> SUBSET Servers]
    /\ open \subseteq Sockets /\ closing \subseteq Sockets /\ multi \subseteq Sockets
    /\ ctrlq \in [Nodes -> Seq(Msgs)]
    /\ chan \in [Nodes -> [Nodes -> Seq(Msgs)]]
    /\ backlog \in [Nodes -> [Nodes -> Seq(Msgs)]]
    /\ link \in [Nodes -> [Nodes -> LinkStates]]
    /\ helloSent \in [Nodes -> [Nodes -> BOOLEAN]]
    /\ helloRcvd \in [Nodes -> [Nodes -> BOOLEAN]]
    /\ known \in [Nodes -> [Nodes -> BOOLEAN]]
    /\ failed \in {0, 1} /\ dropped \in {0, 1} /\ missed \in {0, 1}
    /\ raced \in {0, 1} /\ replaced \in {0, 1}

Init ==
    /\ dir = [n \in Nodes |-> {}]
    /\ lookups = {}
    /\ view = [s \in Sockets |-> {}]
    /\ open = {} /\ closing = {} /\ multi = {}
    /\ ctrlq = [n \in Nodes |-> <<>>]
    /\ chan = [m \in Nodes |-> [n \in Nodes |-> <<>>]]
    /\ backlog = [m \in Nodes |-> [n \in Nodes |-> <<>>]]
    /\ link = [m \in Nodes |-> [n \in Nodes |-> "down"]]
    /\ helloSent = [m \in Nodes |-> [n \in Nodes |-> FALSE]]
    /\ helloRcvd = [m \in Nodes |-> [n \in Nodes |-> FALSE]]
    /\ known = [m \in Nodes |-> [n \in Nodes |-> FALSE]]
    /\ failed = 0 /\ dropped = 0 /\ missed = 0 /\ raced = 0 /\ replaced = 0

-----------------------------------------------------------------------------
(* qrtr_node_enqueue() of non-HELLO packets from n to each node of "to":   *)
(* dropped unless a HELLO went first.                                      *)
Enqueue(n, to, msgs) ==
    [chan EXCEPT ![n] = [m \in Nodes |->
        IF m \in to /\ Carried(n, m) /\ helloSent[n][m] THEN @[m] \o msgs ELSE @[m]]]

(* qrtr_bcast_enqueue() skips the nodes whose id is not known yet ... *)
BcastTargets(n) == {m \in Nodes \ {n} : Registered(n, m) /\ known[n][m]}

(* ... and ends at the first copy it cannot make; a transport that refuses *)
(* a packet is ignored.                                                    *)
Broadcast(n, msgs) ==
    \/ chan' = Enqueue(n, BcastTargets(n), msgs) /\ UNCHANGED failed
    \/ /\ "announce" \in Faults
       /\ \E to \in SUBSET BcastTargets(n) :
             to # BcastTargets(n) /\ chan' = Enqueue(n, to, msgs)
       /\ failed' = 1

(* server_add(): the entry of the same port is replaced. *)
ServerAdd(servers, srv) ==
    {v \in servers : <<v.node, v.port>> # <<srv.node, srv.port>>} \cup {srv}

(* The servers that server_del() removes for the sockets "socks". *)
AtSockets(servers, socks) == {v \in servers : <<v.node, v.port>> \in socks}

(* Does lookup l ask for server v?  The same test is made by server_match()*)
(* for the listing and inline for the later notifications.                 *)
Wants(l, v) ==
    /\ l.query[1] = 0 \/ l.query[1] = v.svc[1]
    /\ l.query[2] = 0 \/ l.query[2] = v.svc[2]

(* lookup_notify() of servers added or gone, to every observer of "ls" at  *)
(* node n whose port is bound.  That a notification cannot be queued is    *)
(* ignored.                                                                *)
Reached(n, ls, servers) ==
    {p \in Observers \X servers :
        /\ p[1][1] = n /\ p[1] \in open
        /\ \E l \in ls : l.sock = p[1] /\ Wants(l, p[2])}

Notify(reached, told) ==
    /\ told \subseteq reached
    /\ told # reached => "notify" \in Faults
    /\ missed' = IF told = reached THEN missed ELSE 1

NotifyNew(n, ls, added) ==
    \E told \in SUBSET Reached(n, ls, added) :
        /\ Notify(Reached(n, ls, added), told)
        /\ view' = [s \in Sockets |-> view[s] \cup {v \in added : <<s, v>> \in told}]

NotifyDel(n, ls, gone) ==
    \E told \in SUBSET Reached(n, ls, gone) :
        /\ Notify(Reached(n, ls, gone), told)
        /\ view' = [s \in Sockets |-> {v \in view[s] : <<s, v>> \notin told}]

-----------------------------------------------------------------------------
(* Applications at socket s. *)
Room ==
    \A n \in Nodes : Len(ctrlq[n]) < QueueCap /\ \A m \in Nodes : Len(chan[m][n]) < QueueCap
Post(n, m) == ctrlq' = [ctrlq EXCEPT ![n] = Append(@, m)]

(* qrtr_bind() of a new socket. *)
Bind(s) ==
    /\ s \notin open \cup closing
    /\ open' = open \cup {s}
    /\ UNCHANGED <<dir, lookups, view, closing, multi, ctrlq, chan, linkVars, histVars>>

(* qrtr_sendmsg() to the local control port: a NEW_SERVER sets the state   *)
(* of the socket to QRTR_STATE_MULTI.                                      *)
AskNewServer(s, svc) ==
    /\ s \in open /\ Room
    /\ Post(s[1], Msg("NEW_SERVER", s, Server(s, svc)))
    /\ multi' = multi \cup {s}
    /\ UNCHANGED <<dir, lookups, view, open, closing, chan, linkVars, histVars>>

AskDelServer(s) ==
    /\ s \in multi /\ s \in open /\ Room
    /\ Post(s[1], Msg("DEL_SERVER", s, s))
    /\ UNCHANGED <<dir, lookups, view, sockVars, chan, linkVars, histVars>>

AskLookup(s, cmd, q) ==
    /\ s \in open /\ Room
    /\ cmd \in {"NEW_LOOKUP", "DEL_LOOKUP"}
    /\ Post(s[1], Msg(cmd, s, q))
    /\ UNCHANGED <<dir, lookups, view, sockVars, chan, linkVars, histVars>>

(* A socket's state and what it was told go with it. *)
Forget(s) == multi' = multi \ {s} /\ view' = [view EXCEPT ![s] = {}]

(* qrtr_release(), qrtr_send_del_client(): a socket that registered a      *)
(* server broadcasts its DEL_CLIENT to every known node, from the closing  *)
(* thread itself ...                                                       *)
CloseBcast(s) ==
    /\ s \in open /\ s \in multi /\ Room
    /\ "hasty" \in Faults \/ ctrlq[s[1]] = <<>>
    /\ open' = open \ {s}
    /\ closing' = closing \cup {s}
    /\ Forget(s)
    /\ Broadcast(s[1], <<Msg("DEL_CLIENT", s, s)>>)
    /\ raced' = IF ctrlq[s[1]] = <<>> THEN raced ELSE 1
    /\ UNCHANGED <<dir, lookups, ctrlq, linkVars, dropped, missed, replaced>>

(* ... and then queues it to the local name service, which is all that a   *)
(* socket in QRTR_STATE_INIT does.                                         *)
CloseLocal(s) ==
    /\ s \in closing \/ (s \in open /\ s \notin multi /\ Room)
    /\ "hasty" \in Faults \/ s \in closing \/ ctrlq[s[1]] = <<>>
    /\ open' = open \ {s}
    /\ closing' = closing \ {s}
    /\ Forget(s)
    /\ Post(s[1], Msg("DEL_CLIENT", s, s))
    /\ raced' = IF ctrlq[s[1]] = <<>> \/ (s \in closing /\ ~\E l \in lookups : l.sock = s)
                THEN raced ELSE 1
    /\ UNCHANGED <<dir, lookups, chan, linkVars, failed, dropped, missed, replaced>>

(* The DEL_CLIENT cannot be allocated: nobody is told. *)
CloseDropped(s) ==
    /\ "nomem" \in Faults /\ s \in open
    /\ open' = open \ {s}
    /\ dropped' = 1
    /\ Forget(s)
    /\ UNCHANGED <<dir, lookups, closing, ctrlq, chan, linkVars, failed, missed, raced, replaced>>

-----------------------------------------------------------------------------
(* qrtr_endpoint_register() on m's side: a new node for n.  The one before *)
(* it is flushed: qrtr_endpoint_unregister() waits for that.               *)
Register(m, n) ==
    /\ m # n /\ ~Registered(m, n) /\ backlog[m][n] = <<>>
    /\ link' = [link EXCEPT ![m][n] = "up"]
    /\ helloRcvd' = [helloRcvd EXCEPT ![m][n] = FALSE]
    /\ UNCHANGED <<dir, lookups, view, sockVars, ctrlq, chan, backlog, helloSent, known, histVars>>

(* qrtr_hello_work(): the node's kworker says hello once. *)
HelloWork(m, n) ==
    /\ m # n /\ Registered(m, n) /\ ~helloSent[m][n]
    /\ helloSent' = [helloSent EXCEPT ![m][n] = TRUE]
    /\ chan' = IF Carried(m, n)
               THEN [chan EXCEPT ![m][n] = Append(@, Msg("HELLO", Ctrl(m), m))] ELSE chan
    /\ UNCHANGED <<dir, lookups, view, sockVars, ctrlq, backlog, link, helloRcvd, known, histVars>>

(* qrtr_endpoint_unregister() on m's side: BYE to the local control socket *)
(* for a known node id, if there is memory for it.  Of the packets to m,   *)
(* the first i are already in node->rx_queue and handled when the kworker  *)
(* is flushed, after the BYE was queued; the others are lost, and so are   *)
(* those behind the first j from m, which the other side still gets.       *)
Unregister(m, n) ==
    /\ m # n /\ Registered(m, n) /\ Room
    /\ link' = [link EXCEPT ![m][n] = "down", ![n][m] = IF @ = "down" THEN @ ELSE "old"]
    /\ \E i \in 0..Len(chan[n][m]), j \in 0..Len(chan[m][n]) :
          /\ i > 0 => "backlog" \in Faults
          /\ j > 0 => Registered(n, m)
          /\ chan' = [chan EXCEPT ![n][m] = <<>>, ![m][n] = SubSeq(@, 1, j)]
          /\ backlog' = [backlog EXCEPT ![m][n] = SubSeq(chan[n][m], 1, i)]
          /\ raced' = IF i = 0 THEN raced ELSE 1
          /\ helloRcvd' = [helloRcvd EXCEPT ![m][n] = @ /\ i > 0]
          /\ \/ ctrlq' = [ctrlq EXCEPT ![m] = IF known[m][n] \/ i > 0
                                             THEN Append(@, Msg("BYE", Ctrl(n), n)) ELSE @]
                /\ UNCHANGED failed
             \/ "nomem" \in Faults /\ (known[m][n] \/ i > 0) /\ failed' = 1 /\ UNCHANGED ctrlq
    /\ helloSent' = [helloSent EXCEPT ![m][n] = FALSE]
    /\ known' = [known EXCEPT ![m][n] = FALSE]
    /\ UNCHANGED <<dir, lookups, view, sockVars, dropped, missed, replaced>>

(* qrtr_sock_queue_skb() of packet p from m to the control socket of n: a  *)
(* second HELLO is not queued.                                             *)
QueueCtrl(m, n, p) ==
    \/ /\ p.cmd = "HELLO" /\ helloRcvd[n][m]
       /\ UNCHANGED <<ctrlq, helloRcvd>>
    \/ /\ p.cmd = "HELLO" /\ ~helloRcvd[n][m]
       /\ helloRcvd' = [helloRcvd EXCEPT ![n][m] = TRUE]
       /\ Post(n, p)
    \/ /\ p.cmd # "HELLO"
       /\ Post(n, p)
       /\ UNCHANGED helloRcvd

(* qrtr_endpoint_post() and qrtr_node_rx_work() at n of a packet from m:   *)
(* the sender's node id becomes known.                                     *)
RxWork(m, n) ==
    /\ chan[m][n] # <<>> /\ Registered(n, m)
    /\ chan' = [chan EXCEPT ![m][n] = Tail(@)]
    /\ known' = [known EXCEPT ![n][m] = TRUE]
    /\ QueueCtrl(m, n, Head(chan[m][n]))
    /\ UNCHANGED <<dir, lookups, view, sockVars, backlog, link, helloSent, histVars>>

(* qrtr_node_rx_work() in kthread_flush_worker() of an unregistered node. *)
FlushWork(m, n) ==
    /\ backlog[n][m] # <<>>
    /\ backlog' = [backlog EXCEPT ![n][m] = Tail(@)]
    /\ QueueCtrl(m, n, Head(backlog[n][m]))
    /\ UNCHANGED <<dir, lookups, view, sockVars, chan, link, helloSent, known, histVars>>

-----------------------------------------------------------------------------
(* The closing of socket s is known to the neighbours, or about to be, and *)
(* not yet to its name service.                                            *)
Leaving(s) ==
    \/ s \in closing
    \/ \E i \in DOMAIN ctrlq[s[1]] : ctrlq[s[1]][i].cmd = "DEL_CLIENT" /\ ctrlq[s[1]][i].arg = s

(* qrtr_ns_worker() at n takes the next control message. *)
Take(n, cmd) ==
    /\ ctrlq[n] # <<>>
    /\ Head(ctrlq[n]).cmd = cmd
    /\ ctrlq' = [ctrlq EXCEPT ![n] = Tail(@)]

(* Mutant: the HELLO is answered without announcing the servers. *)
CtrlCmdHello_NoServers(n) ==
    /\ Take(n, "HELLO")
    /\ LET m == Head(ctrlq[n]).arg IN
       IF Carried(n, m) /\ known[n][m] /\ ~helloSent[n][m]
       THEN /\ helloSent' = [helloSent EXCEPT ![n][m] = TRUE]
            /\ chan' = [chan EXCEPT ![n][m] = Append(@, Msg("HELLO", Ctrl(n), n))]
       ELSE UNCHANGED <<helloSent, chan>>
    /\ UNCHANGED <<dir, lookups, view, sockVars, backlog, link, helloRcvd, known, histVars>>

(* ctrl_cmd_hello(): answer the HELLO unless one was sent already, then    *)
(* announce_servers(): every server that is not the peer's own and that    *)
(* qrtr_sendmsg() does not drop because its node is another known one.     *)
(* The first message that cannot be sent ends it.                          *)
CtrlCmdHello(n) ==
    /\ Take(n, "HELLO")
    /\ LET m == Head(ctrlq[n]).arg
           announced == {v \in dir[n] : v.node # m /\ (v.node = n \/ ~known[n][v.node])}
           order == SetToSeq(announced)
           news == [i \in DOMAIN order |-> Msg("NEW_SERVER", Ctrl(n), order[i])]
           hello == IF helloSent[n][m] THEN <<>> ELSE <<Msg("HELLO", Ctrl(n), n)>>
           all == hello \o news
           there == Registered(n, m) /\ known[n][m]
       IN  /\ \/ /\ ~there
                /\ UNCHANGED <<helloSent, chan, failed>>
             \/ /\ there
                /\ helloSent' = [helloSent EXCEPT ![n][m] = TRUE]
                /\ chan' = [chan EXCEPT ![n][m] = IF Carried(n, m) THEN @ \o all ELSE @]
                /\ UNCHANGED failed
             \/ /\ "announce" \in Faults /\ there /\ Carried(n, m)
                /\ \E i \in 0..(Len(all) - 1) :
                      /\ helloSent' = [helloSent EXCEPT ![n][m] = @ \/ i > 0]
                      /\ chan' = [chan EXCEPT ![n][m] = @ \o SubSeq(all, 1, i)]
                /\ failed' = 1
           /\ raced' = IF there /\ \E v \in announced : Leaving(<<v.node, v.port>>)
                       THEN 1 ELSE raced
    /\ UNCHANGED <<dir, lookups, view, sockVars, backlog, link, helloRcvd, known,
                   dropped, missed, replaced>>

(* Mutant: the servers of the node go without telling the observers. *)
CtrlCmdBye_Quiet(n) ==
    /\ Take(n, "BYE")
    /\ dir' = [dir EXCEPT ![n] = {v \in @ : v.node # Head(ctrlq[n]).arg}]
    /\ UNCHANGED <<lookups, view, sockVars, chan, linkVars, histVars>>

(* ctrl_cmd_bye(): forget every server of the node, telling observers. *)
CtrlCmdBye(n) ==
    /\ Take(n, "BYE")
    /\ LET gone == {v \in dir[n] : v.node = Head(ctrlq[n]).arg} IN
       /\ dir' = [dir EXCEPT ![n] = @ \ gone]
       /\ NotifyDel(n, lookups, gone)
    /\ UNCHANGED <<lookups, sockVars, chan, linkVars, failed, dropped, raced, replaced>>

(* Mutant: only the lookups of the client are dropped. *)
CtrlCmdDelClient_KeepServer(n) ==
    /\ Take(n, "DEL_CLIENT")
    /\ lookups' = {l \in lookups : l.sock # Head(ctrlq[n]).arg}
    /\ UNCHANGED <<dir, view, sockVars, chan, linkVars, histVars>>

(* ctrl_cmd_del_client(): drop the client's lookups, then its server,      *)
(* without a broadcast: the closing socket sent its own DEL_CLIENT.        *)
CtrlCmdDelClient(n) ==
    /\ Take(n, "DEL_CLIENT")
    /\ LET s == Head(ctrlq[n]).arg
           left == {l \in lookups : ~(l.sock = s /\ s[1] = n)}
           gone == AtSockets(dir[n], {s})
       IN  /\ lookups' = left
           /\ dir' = [dir EXCEPT ![n] = @ \ gone]
           /\ NotifyDel(n, left, gone)
    /\ UNCHANGED <<sockVars, chan, linkVars, failed, dropped, raced, replaced>>

(* ctrl_cmd_new_server(): add the server; broadcast a local one, and give  *)
(* up if that fails; tell the observers.                                   *)
CtrlCmdNewServer(n) ==
    /\ Take(n, "NEW_SERVER")
    /\ LET srv == Head(ctrlq[n]).arg IN
       /\ dir' = [dir EXCEPT ![n] = ServerAdd(@, srv)]
       /\ replaced' = IF \E v \in AtSockets(dir[n], {<<srv.node, srv.port>>}) : v # srv
                      THEN 1 ELSE replaced
       /\ \/ /\ IF srv.node = n THEN Broadcast(n, <<Msg("NEW_SERVER", Ctrl(n), srv)>>)
                                ELSE UNCHANGED <<chan, failed>>
             /\ NotifyNew(n, lookups, {srv})
          \/ /\ "announce" \in Faults /\ srv.node = n
             /\ failed' = 1
             /\ UNCHANGED <<chan, view, missed>>
    /\ UNCHANGED <<lookups, sockVars, linkVars, dropped, raced>>

(* server_add() fails: the message is given up. *)
CtrlCmdNewServerFail(n) ==
    /\ "nomem" \in Faults
    /\ Take(n, "NEW_SERVER")
    /\ failed' = 1
    /\ UNCHANGED <<dir, lookups, view, sockVars, chan, linkVars, dropped, missed, raced, replaced>>

(* Mutant: the removal of a local server is not broadcast. *)
CtrlCmdDelServer_Local(n) ==
    /\ Take(n, "DEL_SERVER")
    /\ LET m == Head(ctrlq[n])
           gone == AtSockets(dir[n], {IF m.from[1] = n THEN m.from ELSE <<m.arg.node, m.arg.port>>})
       IN  /\ dir' = [dir EXCEPT ![n] = @ \ gone]
           /\ NotifyDel(n, lookups, gone)
    /\ UNCHANGED <<lookups, sockVars, chan, linkVars, failed, dropped, raced, replaced>>

(* ctrl_cmd_del_server(): from a local server its own socket counts, from  *)
(* a remote name service the server it names; broadcast a local one.       *)
CtrlCmdDelServer(n) ==
    /\ Take(n, "DEL_SERVER")
    /\ LET m == Head(ctrlq[n])
           s == IF m.from[1] = n THEN m.from ELSE <<m.arg.node, m.arg.port>>
           gone == AtSockets(dir[n], {s})
       IN  /\ dir' = [dir EXCEPT ![n] = @ \ gone]
           /\ NotifyDel(n, lookups, gone)
           /\ IF s[1] = n /\ gone # {}
              THEN Broadcast(n, [i \in DOMAIN SetToSeq(gone) |->
                                    Msg("DEL_SERVER", Ctrl(n), SetToSeq(gone)[i])])
              ELSE UNCHANGED <<chan, failed>>
    /\ UNCHANGED <<lookups, sockVars, linkVars, dropped, raced, replaced>>

(* Mutant: the servers already known are not listed. *)
CtrlCmdNewLookup_NoList(n) ==
    /\ Take(n, "NEW_LOOKUP")
    /\ lookups' = lookups \cup {Lookup(Head(ctrlq[n]).from, Head(ctrlq[n]).arg)}
    /\ UNCHANGED <<dir, view, sockVars, chan, linkVars, histVars>>

(* ctrl_cmd_new_lookup(): remember the observer, unless there is no memory *)
(* for it, and list what matches.                                          *)
CtrlCmdNewLookup(n) ==
    /\ Take(n, "NEW_LOOKUP")
    /\ LET m == Head(ctrlq[n])
           l == Lookup(m.from, m.arg)
       IN  \/ lookups' = lookups \cup {l} /\ NotifyNew(n, {l}, dir[n])
           \/ "nomem" \in Faults /\ UNCHANGED <<lookups, view, missed>>
    /\ UNCHANGED <<dir, sockVars, chan, linkVars, failed, dropped, raced, replaced>>

(* ctrl_cmd_del_lookup(): same socket and service; a lookup for any        *)
(* instance goes whatever instance is named.  The observer forgets what it *)
(* no longer looks for.                                                    *)
CtrlCmdDelLookup(n) ==
    /\ Take(n, "DEL_LOOKUP")
    /\ LET m == Head(ctrlq[n])
           left == {l \in lookups :
                      ~ /\ l.sock = m.from
                        /\ l.query[1] = m.arg[1]
                        /\ l.query[2] = 0 \/ l.query[2] = m.arg[2]}
       IN  /\ lookups' = left
           /\ view' = [view EXCEPT ![m.from] =
                  {v \in @ : \E l \in left : l.sock = m.from /\ Wants(l, v)}]
    /\ UNCHANGED <<dir, sockVars, chan, linkVars, histVars>>

-----------------------------------------------------------------------------
Application(s) ==
    \/ Bind(s) \/ CloseBcast(s) \/ CloseLocal(s) \/ CloseDropped(s)
    \/ s \in Providers /\ AskDelServer(s)
    \/ s \in Providers /\ \E svc \in Services : AskNewServer(s, svc)
    \/ /\ s \in Observers
       /\ \E q \in Queries, cmd \in {"NEW_LOOKUP", "DEL_LOOKUP"} : AskLookup(s, cmd, q)

Link(m, n) ==
    Register(m, n) \/ HelloWork(m, n) \/ Unregister(m, n) \/ RxWork(m, n) \/ FlushWork(m, n)

NsWorker(n) ==
    \/ CtrlCmdHello(n) \/ CtrlCmdBye(n) \/ CtrlCmdDelClient(n)
    \/ CtrlCmdNewServer(n) \/ CtrlCmdNewServerFail(n) \/ CtrlCmdDelServer(n)
    \/ CtrlCmdNewLookup(n) \/ CtrlCmdDelLookup(n)

Next ==
    \/ \E s \in Sockets : Application(s)
    \/ \E m, n \in Nodes : Link(m, n)
    \/ \E n \in Nodes : NsWorker(n)

Spec == Init /\ [][Next]_vars

-----------------------------------------------------------------------------
(* Nothing is left to handle anywhere, and every link has said hello. *)
Settled ==
    /\ \A n \in Nodes : ctrlq[n] = <<>>
    /\ \A m, n \in Nodes : chan[m][n] = <<>> /\ backlog[m][n] = <<>>
    /\ \A m, n \in Nodes : Up(m, n) => helloSent[m][n]
    /\ closing = {}

(* The lookups of a socket that is open, not of one closed before it. *)
Current(l) == l.sock \in open /\ ~Leaving(l.sock)

(* LookupComplete: an observer has been told of every server its name      *)
(* service knows and it looks for, in whichever order lookups, servers,    *)
(* removals and nodes come and go.  Except after a broadcast that failed:  *)
(* ctrl_cmd_new_server() then gives up before the observers; after a       *)
(* notification that did not fit (lookup_notify() only logs it); and after *)
(* a DEL_CLIENT that was not allocated: the lookups of the closed socket   *)
(* stay, and a new one that gets its port inherits them, but not the list. *)
LookupComplete ==
    failed = 0 /\ dropped = 0 /\ missed = 0 =>
        \A l \in lookups : Current(l) =>
            \A v \in dir[l.sock[1]] : Wants(l, v) => v \in view[l.sock]

(* LookupSound: an observer believes in no server that it looks for and    *)
(* that its name service has forgotten.  Except when a notification did    *)
(* not fit; when a server took the port of another: server_add() frees the *)
(* old one without telling the observers; and when a socket closed with    *)
(* messages before its DEL_CLIENT: notifications for it then reach the     *)
(* next socket on its port, which never asked.                             *)
LookupSound ==
    raced = 0 /\ replaced = 0 /\ missed = 0 => \A l \in lookups : Current(l) =>
        \A v \in view[l.sock] : Wants(l, v) => v \in dir[l.sock[1]]

(* Discoverable: when everything has settled, two connected nodes know     *)
(* each other's servers: no interleaving of HELLO, announcements, removals *)
(* and registrations, of each side on its own, loses a server.  Except     *)
(* when an announcement failed, and on a link of which one side was        *)
(* registered anew while the other kept its node, whose hello_sent and     *)
(* hello_rcvd then suppress the second exchange of HELLOs (Up).            *)
Discoverable ==
    Settled /\ failed = 0 =>
        \A m, n \in Nodes : Up(m, n) =>
            \A v \in dir[m] : v.node = m => v \in dir[n]

(* NoLeftovers: when everything has settled, a name service lists no       *)
(* server of a local socket that is closed, whatever the socket had sent   *)
(* just before.  Except when the DEL_CLIENT of qrtr_send_del_client()      *)
(* could not be allocated.                                                 *)
NoLeftovers ==
    Settled /\ dropped = 0 =>
        \A n \in Nodes : \A v \in dir[n] : v.node = n => <<n, v.port>> \in open

(* NoGhosts: when everything has settled, a node lists no server of a      *)
(* connected neighbour that the neighbour itself no longer has: what the   *)
(* comment in ctrl_cmd_del_client() relies on when it does not broadcast.  *)
(* Except when a socket closed with a request still unhandled, or a HELLO  *)
(* was answered between the broadcast of its DEL_CLIENT and the handling   *)
(* of its own copy; when a packet was handled after the BYE of its node;   *)
(* when a DEL_CLIENT, DEL_SERVER or BYE found no memory; and on a link of  *)
(* which one side was registered anew, as above.                           *)
NoGhosts ==
    Settled /\ raced = 0 /\ failed = 0 /\ dropped = 0 =>
        \A m, n \in Nodes : Up(m, n) =>
            \A v \in dir[n] : v.node = m => v \in dir[m]
=============================================================================
