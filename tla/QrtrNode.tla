------------------------------ MODULE QrtrNode ------------------------------
(***************************************************************************)
(* Lifetime of the router's struct qrtr_node objects (net/qrtr/af_qrtr.c): *)
(* the reference count, the radix tree qrtr_nodes that maps node ids to    *)
(* objects, the list qrtr_all_epts, and the rw-semaphore qrtr_epts_lock    *)
(* that lookups, broadcasts and the last release share.                    *)
(*                                                                         *)
(* Threads are the transports (one per endpoint), the tasks that send, and *)
(* the kworker of each node, named by the node it belongs to.  A writer of *)
(* qrtr_epts_lock holds it for one step and never blocks inside, so only   *)
(* the readers are state.  Nodes are allocated from a pool and reused,     *)
(* except one that a failed registration freed under its kthread: what     *)
(* that thread does to memory that is handed out again is not modelled.    *)
(* Transports call qrtr_endpoint_post() at any time before the last        *)
(* qrtr_node_release() of qrtr_endpoint_unregister().                      *)
(***************************************************************************)
EXTENDS Integers, FiniteSets

CONSTANTS
    Eps,        \* endpoints
    Users,      \* tasks in qrtr_sendmsg(), qrtr_recvmsg() or qrtr_release()
    Objs,       \* the memory nodes are allocated from
    Nids,       \* node ids, without QRTR_EP_NID_AUTO
    AUTO,       \* QRTR_EP_NID_AUTO
    NULL,       \* no object, no endpoint
    NetId,      \* NetId[e]: the network cluster endpoint e registers with
    Events      \* what may happen besides the above, a subset of AllEvents

(* alloc: qrtr_alloc_ctrl_packet() fails; late: packets arrive while the   *)
(* endpoint is being unregistered; forward: the kworkers forward packets   *)
(* to other nodes; wakeups: a registration cannot store the services that  *)
(* do not wake the system.                                                 *)
AllEvents == {"alloc", "late", "forward", "wakeups"}

Threads == Eps \cup Users \cup Objs

ASSUME NidAssumption == Nids \subseteq Nat \ {0} /\ AUTO \notin Nids
ASSUME PoolAssumption == NULL \notin Eps \cup Objs /\ Events \subseteq AllEvents
ASSUME ThreadAssumption == Eps \cap Users = {} /\ Eps \cap Objs = {} /\ Users \cap Objs = {}
ASSUME FiniteAssumption == IsFiniteSet(Eps) /\ IsFiniteSet(Users) /\ IsFiniteSet(Objs)
ASSUME NetAssumption == NetId \in [Eps -> Nat]

VARIABLES
    mem,      \* mem[o]: "live" from kzalloc() to kfree(), else "free"
    ref,      \* node->ref
    nid,      \* node->nid
    net,      \* node->net_id
    ep,       \* node->ep
    tree,     \* qrtr_nodes: node id to object
    list,     \* qrtr_all_epts
    readers,  \* threads that hold qrtr_epts_lock for reading
    leaked,   \* 1 once a thread returned without giving the lock back
    pc,       \* where each thread is
    hold,     \* hold[t]: the node t holds a reference to; ep->node for endpoints
    cur,      \* cur[e]: last node id the loop of qrtr_endpoint_unregister() saw
    todo,     \* todo[t]: the nodes of qrtr_all_epts that t's loop over it meets
    running,  \* nodes a kthread runs kthread_worker_fn() on
    orphans,  \* history: nodes that a failed registration freed under their kthread
    told      \* history: told[o]: node ids of o the local controller got a BYE for

vars == <<mem, ref, nid, net, ep, tree, list, readers, leaked, pc, hold, cur, todo,
          running, orphans, told>>
kthreadVars == <<running, orphans>>
objVars == <<mem, nid, net, ep, told, kthreadVars>>

(* idle: not registered, or nothing to do; up: registered; bye: in the     *)
(* loop over qrtr_nodes; fwd: in qrtr_fwd_del_proc(); walk: in a loop over *)
(* qrtr_all_epts; put: using the node, then giving its reference back;     *)
(* putw: in down_write() for what looked like the last reference; putq:    *)
(* the same, first in the queue and given precedence over new readers;     *)
(* flush: the node is out of all tables, its kworker being flushed.        *)
PCs == {"idle", "up", "bye", "fwd", "walk", "put", "putw", "putq", "flush"}

TypeOK ==
    /\ mem \in [Objs -> {"free", "live"}]
    /\ ref \in [Objs -> Nat]
    /\ nid \in [Objs -> Nids \cup {AUTO}]
    /\ net \in [Objs -> Nat]
    /\ ep \in [Objs -> Eps \cup {NULL}]
    /\ tree \in [Nids -> Objs \cup {NULL}]
    /\ list \subseteq Objs
    /\ readers \subseteq Threads
    /\ leaked \in {0, 1}
    /\ pc \in [Threads -> PCs]
    /\ hold \in [Threads -> Objs \cup {NULL}]
    /\ cur \in [Eps -> Nids \cup {0}]
    /\ todo \in [Threads -> SUBSET Objs]
    /\ running \subseteq Objs
    /\ orphans \subseteq Objs
    /\ told \in [Objs -> SUBSET Nids]

Init ==
    /\ mem = [o \in Objs |-> "free"]
    /\ ref = [o \in Objs |-> 0]
    /\ nid = [o \in Objs |-> AUTO]
    /\ net = [o \in Objs |-> 0]
    /\ ep = [o \in Objs |-> NULL]
    /\ tree = [k \in Nids |-> NULL]
    /\ list = {}
    /\ readers = {}
    /\ leaked = 0
    /\ pc = [t \in Threads |-> "idle"]
    /\ hold = [t \in Threads |-> NULL]
    /\ cur = [e \in Eps |-> 0]
    /\ todo = [t \in Threads |-> {}]
    /\ running = {}
    /\ orphans = {}
    /\ told = [o \in Objs |-> {}]

Goto(t, where) == pc' = [pc EXCEPT ![t] = where]

(* down_write() and down_read() of qrtr_epts_lock: a writer needs it free, *)
(* a reader only has to let a writer go first that has waited long enough. *)
WriteLock == readers = {} /\ leaked = 0
ReadLock  == \A t \in Threads : pc[t] # "putq"

-----------------------------------------------------------------------------
(* qrtr_endpoint_register(): a new node, known to the list and not yet to  *)
(* the tree.                                                               *)
Register(e, o) ==
    /\ pc[e] = "idle" /\ mem[o] = "free" /\ o \notin orphans
    /\ WriteLock
    /\ mem' = [mem EXCEPT ![o] = "live"]
    /\ ref' = [ref EXCEPT ![o] = 1]
    /\ nid' = [nid EXCEPT ![o] = AUTO]
    /\ net' = [net EXCEPT ![o] = NetId[e]]
    /\ ep' = [ep EXCEPT ![o] = e]
    /\ told' = [told EXCEPT ![o] = {}]
    /\ running' = running \cup {o}
    /\ list' = list \cup {o}
    /\ hold' = [hold EXCEPT ![e] = o]
    /\ Goto(e, "up")
    /\ UNCHANGED <<tree, readers, leaked, cur, todo, orphans>>

(* Its error path: xa_insert() fails, the new node is freed before anybody *)
(* else knows it, and the kthread already started on its kworker stays.    *)
RegisterFail(e, o) ==
    /\ "wakeups" \in Events
    /\ pc[e] = "idle" /\ mem[o] = "free" /\ o \notin orphans
    /\ running' = running \cup {o}
    /\ orphans' = orphans \cup {o}
    /\ UNCHANGED <<mem, ref, nid, net, ep, tree, list, readers, leaked, pc, hold, cur, todo, told>>

(* qrtr_node_assign() of node id k to o: a taken id keeps its node; the    *)
(* first id of a node becomes its own, whether it got into the tree or not.*)
NodeAssign(o, k) ==
    IF k = nid[o] THEN UNCHANGED <<tree, nid>>
    ELSE /\ tree' = IF tree[k] = NULL THEN [tree EXCEPT ![k] = o] ELSE tree
         /\ nid' = IF nid[o] = AUTO THEN [nid EXCEPT ![o] = k] ELSE nid

(* qrtr_endpoint_post(): assign the sender's node id, or the one of a      *)
(* server behind the sender.                                               *)
EndpointPost(e, k) ==
    /\ \/ pc[e] = "up"
       \/ "late" \in Events /\ pc[e] \in {"bye", "fwd", "put"}
    /\ NodeAssign(hold[e], k)
    /\ UNCHANGED <<mem, ref, net, ep, list, readers, leaked, pc, hold, cur, todo, told,
                   kthreadVars>>

-----------------------------------------------------------------------------
(* qrtr_endpoint_unregister() cuts the endpoint off ... *)
Unregister(e) ==
    /\ pc[e] = "up"
    /\ ep' = [ep EXCEPT ![hold[e]] = NULL]
    /\ cur' = [cur EXCEPT ![e] = 0]
    /\ Goto(e, "bye")
    /\ UNCHANGED <<mem, ref, nid, net, tree, list, readers, leaked, hold, todo, told, kthreadVars>>

(* Mutant: the loop over qrtr_nodes skips the next id. *)
Remaining_Skip(e) == {k \in Nids : k > cur[e] + 1 /\ tree[k] = hold[e]}

Remaining(e) == {k \in Nids : k > cur[e] /\ tree[k] = hold[e]}

(* ... for each node id of the node, in order and with qrtr_nodes_lock     *)
(* dropped in between, tells the local controller BYE and starts           *)
(* qrtr_fwd_del_proc() ...                                                 *)
Bye(e, k) ==
    /\ pc[e] = "bye" /\ ReadLock
    /\ k \in Remaining(e) /\ \A j \in Remaining(e) : k <= j
    /\ cur' = [cur EXCEPT ![e] = k]
    /\ \/ told' = [told EXCEPT ![hold[e]] = @ \cup {k}]
       \/ "alloc" \in Events /\ UNCHANGED told
    /\ readers' = readers \cup {e}
    /\ todo' = [todo EXCEPT ![e] = list]
    /\ Goto(e, "fwd")
    /\ UNCHANGED <<mem, ref, nid, net, ep, tree, list, leaked, hold, kthreadVars>>

(* qrtr_must_forward() for a packet that came through node src. *)
MustForward(src, dst) ==
    /\ dst # src /\ nid[dst] # AUTO
    /\ net[dst] - net[src] > 1 \/ net[src] - net[dst] > 1

(* Mutant: the lock is not given back. *)
FwdDelProc_NoUnlock(e) ==
    /\ pc[e] = "fwd"
    /\ todo' = [todo EXCEPT ![e] = {}]
    /\ Goto(e, "bye")
    /\ UNCHANGED <<objVars, ref, tree, list, readers, leaked, hold, cur>>

(* qrtr_fwd_del_proc() enqueues a DEL_PROC to every node that must have    *)
(* one and unlocks, or returns at the first it cannot allocate, with the   *)
(* lock held.                                                              *)
FwdDelProc(e) ==
    /\ pc[e] = "fwd"
    /\ \/ UNCHANGED leaked
       \/ "alloc" \in Events /\ (\E d \in todo[e] : MustForward(hold[e], d)) /\ leaked' = 1
    /\ readers' = readers \ {e}
    /\ todo' = [todo EXCEPT ![e] = {}]
    /\ Goto(e, "bye")
    /\ UNCHANGED <<objVars, ref, tree, list, hold, cur>>

(* ... and, after the loop and the wake-ups of the senders (QrtrFlow),     *)
(* gives its reference back.                                               *)
ByeDone(e) ==
    /\ pc[e] = "bye" /\ Remaining(e) = {}
    /\ Goto(e, "put")
    /\ UNCHANGED <<objVars, ref, tree, list, readers, leaked, hold, cur, todo>>

-----------------------------------------------------------------------------
(* The threads that look nodes up: tasks, and kworkers that forward. *)
MayLookup(t) == pc[t] = "idle" /\ (t \in Objs => "forward" \in Events /\ mem[t] = "live")

(* qrtr_node_lookup(): the tree is read and the reference taken under      *)
(* qrtr_epts_lock, which the last release holds for writing.               *)
NodeLookup(t, k) ==
    /\ MayLookup(t) /\ ReadLock
    /\ tree[k] # NULL
    /\ ref' = [ref EXCEPT ![tree[k]] = @ + 1]
    /\ hold' = [hold EXCEPT ![t] = tree[k]]
    /\ Goto(t, "put")
    /\ UNCHANGED <<objVars, tree, list, readers, leaked, cur, todo>>

(* qrtr_bcast_enqueue() and qrtr_fwd_ctrl_pkt(): a packet to each node of  *)
(* the list, with the lock held throughout and no reference taken.         *)
WalkStart(t) ==
    /\ MayLookup(t) /\ ReadLock
    /\ readers' = readers \cup {t}
    /\ todo' = [todo EXCEPT ![t] = list]
    /\ Goto(t, "walk")
    /\ UNCHANGED <<objVars, ref, tree, list, leaked, hold, cur>>

WalkDone(t) ==
    /\ pc[t] = "walk"
    /\ readers' = readers \ {t}
    /\ todo' = [todo EXCEPT ![t] = {}]
    /\ Goto(t, "idle")
    /\ UNCHANGED <<objVars, ref, tree, list, leaked, hold, cur>>

-----------------------------------------------------------------------------
(* qrtr_node_release(): refcount_dec_not_one(), or on to down_write(). *)
PutFast(t) ==
    /\ pc[t] = "put" /\ ref[hold[t]] # 1
    /\ ref' = [ref EXCEPT ![hold[t]] = @ - 1]
    /\ hold' = [hold EXCEPT ![t] = NULL]
    /\ Goto(t, "idle")
    /\ UNCHANGED <<objVars, tree, list, readers, leaked, cur, todo>>

PutSlow(t) ==
    /\ pc[t] = "put" /\ ref[hold[t]] = 1
    /\ Goto(t, "putw")
    /\ UNCHANGED <<objVars, ref, tree, list, readers, leaked, hold, cur, todo>>

(* The rw-semaphore hands over to the writer at the head of its queue. *)
HandOff(t) ==
    /\ pc[t] = "putw"
    /\ Goto(t, "putq")
    /\ UNCHANGED <<objVars, ref, tree, list, readers, leaked, hold, cur, todo>>

(* Mutant: the count is not tested again under the lock. *)
PutLocked_NoRetest(t) ==
    /\ pc[t] \in {"putw", "putq"} /\ WriteLock
    /\ ref' = [ref EXCEPT ![hold[t]] = @ - 1]
    /\ tree' = [k \in Nids |-> IF tree[k] = hold[t] THEN NULL ELSE tree[k]]
    /\ list' = list \ {hold[t]}
    /\ Goto(t, "flush")
    /\ UNCHANGED <<objVars, readers, leaked, hold, cur, todo>>

(* Mutant: only the node's own id is taken out of the tree. *)
PutLocked_OwnId(t) ==
    /\ pc[t] \in {"putw", "putq"} /\ WriteLock
    /\ ref[hold[t]] = 1
    /\ ref' = [ref EXCEPT ![hold[t]] = 0]
    /\ tree' = [k \in Nids |-> IF tree[k] = hold[t] /\ nid[hold[t]] = k THEN NULL ELSE tree[k]]
    /\ list' = list \ {hold[t]}
    /\ Goto(t, "flush")
    /\ UNCHANGED <<objVars, readers, leaked, hold, cur, todo>>

(* With the lock: refcount_dec_and_test() again; at zero                   *)
(* __qrtr_node_release() takes the node out of the tree, every entry of    *)
(* it, and out of the list, and unlocks.                                   *)
PutLocked(t) ==
    /\ pc[t] \in {"putw", "putq"}
    /\ WriteLock
    /\ LET o == hold[t] IN
       /\ ref' = [ref EXCEPT ![o] = @ - 1]
       /\ \/ /\ ref[o] = 1
             /\ tree' = [k \in Nids |-> IF tree[k] = o THEN NULL ELSE tree[k]]
             /\ list' = list \ {o}
             /\ Goto(t, "flush")
             /\ UNCHANGED hold
          \/ /\ ref[o] # 1
             /\ hold' = [hold EXCEPT ![t] = NULL]
             /\ Goto(t, "idle")
             /\ UNCHANGED <<tree, list>>
    /\ UNCHANGED <<objVars, readers, leaked, cur, todo>>

(* kthread_flush_worker() and kthread_stop() wait for the node's kworker   *)
(* and end its kthread; then the node is freed.                            *)
FlushAndFree(t) ==
    /\ pc[t] = "flush"
    /\ t # hold[t] /\ pc[hold[t]] = "idle"
    /\ mem' = [mem EXCEPT ![hold[t]] = "free"]
    /\ running' = running \ {hold[t]}
    /\ hold' = [hold EXCEPT ![t] = NULL]
    /\ Goto(t, "idle")
    /\ UNCHANGED <<ref, nid, net, ep, told, tree, list, readers, leaked, cur, todo, orphans>>

-----------------------------------------------------------------------------
(* What a thread does without being asked to start anything new. *)
Progress(t) ==
    \/ PutFast(t) \/ PutSlow(t) \/ HandOff(t) \/ PutLocked(t) \/ FlushAndFree(t)
    \/ WalkDone(t)
    \/ t \in Eps /\ (FwdDelProc(t) \/ ByeDone(t) \/ \E k \in Nids : Bye(t, k))

Next ==
    \/ \E e \in Eps : \/ \E o \in Objs : Register(e, o) \/ RegisterFail(e, o)
                      \/ \E k \in Nids : EndpointPost(e, k)
                      \/ Unregister(e)
    \/ \E t \in Users \cup Objs : WalkStart(t) \/ \E k \in Nids : NodeLookup(t, k)
    \/ \E t \in Threads : Progress(t)

Spec == Init /\ [][Next]_vars

(* Every thread that has started something runs on, and is not overtaken   *)
(* for ever at qrtr_epts_lock, whose queue is served in order.  Nobody is  *)
(* obliged to register, unregister or send.                                *)
Fairness == \A t \in Threads : SF_vars(Progress(t))

FairSpec == Spec /\ Fairness

-----------------------------------------------------------------------------
(* NoUseAfterFree: every node a thread can still reach - by a reference,   *)
(* in the middle of a walk over the list, by a lookup to come, or as the   *)
(* kworker its kthread runs on - is allocated (__qrtr_node_release against *)
(* everyone else).  The one exception is a node that a failed registration *)
(* freed: qrtr_endpoint_register() does not stop the kthread it started.   *)
NoUseAfterFree ==
    /\ \A t \in Threads : hold[t] # NULL => mem[hold[t]] = "live"
    /\ \A t \in Threads : \A o \in todo[t] : mem[o] = "live"
    /\ \A o \in Objs : pc[o] # "idle" => mem[o] = "live"
    /\ \A o \in running : mem[o] = "live" \/ o \in orphans
    /\ \A k \in Nids : tree[k] # NULL => mem[tree[k]] = "live"
    /\ \A o \in list : mem[o] = "live"

(* RefsAccounted: a node's count is the number of its holders, and it is   *)
(* zero only for the one thread that frees it, when no table has the node  *)
(* any more: a lookup never brings a count back from zero.                 *)
RefsAccounted ==
    \A o \in Objs :
        /\ ref[o] = Cardinality({t \in Threads : hold[t] = o /\ pc[t] # "flush"})
        /\ ref[o] = 0 => o \notin list /\ \A k \in Nids : tree[k] # o
        /\ ref[o] > 0 => \A t \in Threads : pc[t] = "flush" => hold[t] # o

(* NodeReleased: what __qrtr_node_release() is for ("Release node          *)
(* resources and free the node"): a node whose endpoint was unregistered   *)
(* is freed, unless senders keep looking it up.                            *)
NodeReleased ==
    \A o \in Objs :
        []<>(mem[o] = "free" \/ ep[o] # NULL \/ \E u \in Users : pc[u] = "put" /\ hold[u] = o)

(* ByeBeforeGone: a node id stops being routable only after the local      *)
(* controller was told BYE for it (qrtr_endpoint_unregister).              *)
ByeBeforeGone ==
    [][\A k \in Nids : tree[k] # NULL /\ tree'[k] = NULL => k \in told[tree[k]]]_vars

=============================================================================
