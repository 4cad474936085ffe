-------------------------- MODULE QrtrNode_proofs ---------------------------
(***************************************************************************)
(* Proofs about the lifetime of nodes, for any finite number of endpoints, *)
(* tasks and nodes, any node ids, and every event: a node's count is the   *)
(* number of its holders, no thread reaches a node that was freed, and     *)
(* (without packets after the endpoint is gone, and with memory for the    *)
(* BYE) a node id is unrouted only after a BYE for it.                     *)
(***************************************************************************)
EXTENDS QrtrNode, FiniteSetTheorems, TLAPS

(* t has one of the references that o's count stands for. *)
Owns(t, o) == hold[t] = o /\ pc[t] # "flush"

Owners(o) == {t \in Threads : Owns(t, o)}

Held(o) == \E t \in Threads : Owns(t, o)

(* Each reference is counted. *)
CountInv == \A o \in Objs : ref[o] = Cardinality(Owners(o))

(* Where a thread has a node, and which threads are endpoints. *)
PlaceInv ==
    \A t \in Threads :
        /\ hold[t] = NULL <=> pc[t] \in {"idle", "walk"}
        /\ pc[t] \in {"up", "bye", "fwd"} => t \in Eps

(* A loop over qrtr_all_epts runs with the lock held, and so meets nodes   *)
(* that are still in the list.                                             *)
LoopInv ==
    \A t \in Threads :
        /\ pc[t] \in {"walk", "fwd"} => t \in readers
        /\ todo[t] # {} => pc[t] \in {"walk", "fwd"}
        /\ todo[t] \subseteq list

(* The tables have only nodes that somebody holds. *)
TableInv ==
    /\ \A o \in list : Held(o)
    /\ \A k \in Nids : tree[k] # NULL => Held(tree[k])

(* Who flushes a node is alone with it. *)
FlushInv ==
    \A t \in Threads : pc[t] = "flush" =>
        /\ ~Held(hold[t])
        /\ \A u \in Threads : pc[u] = "flush" /\ hold[u] = hold[t] => u = t

(* Holders, and the node's own kworker, keep its memory. *)
LiveInv ==
    /\ \A t \in Threads : hold[t] # NULL => mem[hold[t]] = "live"
    /\ \A o \in Objs : pc[o] # "idle" => mem[o] = "live"

(* A kthread runs on allocated memory, or on what a failed registration    *)
(* freed, and that memory is never a node again.                           *)
KthreadInv ==
    /\ \A o \in running : mem[o] = "live" \/ o \in orphans
    /\ \A o \in orphans : mem[o] = "free"

NodeInv ==
    TypeOK /\ CountInv /\ PlaceInv /\ LoopInv /\ TableInv /\ FlushInv /\ LiveInv /\ KthreadInv

-----------------------------------------------------------------------------
(* Counting.                                                               *)

(* A node has finitely many owners. *)
LEMMA OwnersFinite ==
  ASSUME NEW o
  PROVE  IsFiniteSet(Owners(o)) /\ Cardinality(Owners(o)) \in Nat
  <1>1. IsFiniteSet(Eps \cup Users)
    BY FiniteAssumption, FS_Union
  <1>2. IsFiniteSet(Threads)
    BY <1>1, FiniteAssumption, FS_Union DEF Threads
  <1>3. Owners(o) \in SUBSET Threads
    BY DEF Owners
  <1>4. IsFiniteSet(Owners(o))
    BY <1>2, <1>3, FS_Subset
  <1>5. QED
    BY <1>4, FS_CardinalityType

(* What a count says about the owners: refcount_dec_not_one() and          *)
(* refcount_dec_and_test() rely on it.                                     *)
LEMMA CountMeans ==
  ASSUME CountInv, NEW o \in Objs
  PROVE  /\ ref[o] = 0 <=> ~Held(o)
         /\ \A t, u \in Threads : ref[o] = 1 /\ Owns(t, o) /\ Owns(u, o) => t = u
         /\ \A t \in Threads : ref[o] # 1 /\ Owns(t, o) => \E u \in Threads : u # t /\ Owns(u, o)
  <1>1. ref[o] = Cardinality(Owners(o))
    BY DEF CountInv
  <1>2. ref[o] = 0 <=> Owners(o) = {}
    BY <1>1, OwnersFinite, FS_EmptySet
  <1>3. ref[o] = 0 <=> ~Held(o)
    BY <1>2 DEF Owners, Held
  <1>4. ASSUME NEW t \in Threads, NEW u \in Threads, ref[o] = 1, Owns(t, o), Owns(u, o)
        PROVE  t = u
    <2>1. PICK x : Owners(o) = {x}
      BY <1>1, <1>4, OwnersFinite, FS_Singleton
    <2>2. t \in Owners(o) /\ u \in Owners(o)
      BY <1>4 DEF Owners
    <2>3. QED
      BY <2>1, <2>2
  <1>5. ASSUME NEW t \in Threads, ref[o] # 1, Owns(t, o)
        PROVE  \E u \in Threads : u # t /\ Owns(u, o)
    <2>1. Owners(o) # {t}
      BY <1>1, <1>5, FS_Singleton
    <2>2. t \in Owners(o)
      BY <1>5 DEF Owners
    <2>3. PICK u \in Owners(o) : u # t
      BY <2>1, <2>2
    <2>4. QED
      BY <2>3 DEF Owners
  <1>6. QED
    BY <1>3, <1>4, <1>5

(* Taking a reference. *)
LEMMA CountUp ==
  ASSUME TypeOK, CountInv, NEW t \in Threads, NEW o \in Objs,
         hold[t] = NULL,
         ref' = [ref EXCEPT ![o] = @ + 1],
         hold' = [hold EXCEPT ![t] = o],
         NEW where \in PCs, where # "flush", pc' = [pc EXCEPT ![t] = where]
  PROVE  CountInv'
  <1> USE DEF TypeOK
  <1>1. \A q \in Objs : q # o => Owners(q)' = Owners(q)
    BY PoolAssumption DEF Owners, Owns
  <1>2. Owners(o)' = Owners(o) \cup {t} /\ t \notin Owners(o)
    BY PoolAssumption DEF Owners, Owns
  <1>3. Cardinality(Owners(o) \cup {t}) = Cardinality(Owners(o)) + 1
    BY <1>2, OwnersFinite, FS_AddElement
  <1>4. ASSUME NEW q \in Objs PROVE ref'[q] = Cardinality(Owners(q)')
    <2>1. ref[q] = Cardinality(Owners(q))
      BY DEF CountInv
    <2>2. QED
      BY <1>1, <1>2, <1>3, <2>1
  <1>5. QED
    BY <1>4 DEF CountInv

(* Giving one back. *)
LEMMA CountDown ==
  ASSUME TypeOK, CountInv, NEW t \in Threads, NEW o \in Objs,
         Owns(t, o),
         ref' = [ref EXCEPT ![o] = @ - 1],
         \A u \in Threads : u # t => hold'[u] = hold[u] /\ pc'[u] = pc[u],
         hold'[t] = NULL \/ pc'[t] = "flush"
  PROVE  /\ ref[o] > 0
         /\ ref' \in [Objs -> Nat]
         /\ CountInv'
  <1> USE DEF TypeOK
  <1>1. \A q \in Objs : q # o => Owners(q)' = Owners(q)
    BY PoolAssumption DEF Owners, Owns
  <1>2. Owners(o)' = Owners(o) \ {t} /\ t \in Owners(o)
    BY PoolAssumption DEF Owners, Owns
  <1>3. /\ Cardinality(Owners(o) \ {t}) = Cardinality(Owners(o)) - 1
        /\ Cardinality(Owners(o) \ {t}) \in Nat
    BY <1>2, OwnersFinite, FS_RemoveElement, FS_CardinalityType
  <1>4. \A q \in Objs : ref[q] = Cardinality(Owners(q))
    BY DEF CountInv
  <1>5. ref[o] > 0 /\ ref' \in [Objs -> Nat]
    BY <1>3, <1>4
  <1>6. ASSUME NEW q \in Objs PROVE ref'[q] = Cardinality(Owners(q)')
    BY <1>1, <1>2, <1>3, <1>4
  <1>7. QED
    BY <1>5, <1>6 DEF CountInv

(* Steps that move threads without touching references. *)
LEMMA CountSame ==
  ASSUME TypeOK, CountInv, UNCHANGED <<ref, hold>>,
         \A t \in Threads : hold[t] # NULL => (pc'[t] = "flush" <=> pc[t] = "flush")
  PROVE  CountInv'
  <1>1. ASSUME NEW o \in Objs PROVE Owners(o)' = Owners(o)
    BY PoolAssumption DEF TypeOK, Owners, Owns
  <1>2. ASSUME NEW o \in Objs PROVE ref'[o] = Cardinality(Owners(o)')
    BY <1>1 DEF CountInv
  <1>3. QED
    BY <1>2 DEF CountInv

-----------------------------------------------------------------------------
(* One lemma per operation.                                                *)

(* qrtr_endpoint_register() takes memory nobody has. *)
LEMMA RegisterStep ==
  ASSUME NodeInv, NEW e \in Eps, NEW o \in Objs, Register(e, o)
  PROVE  NodeInv'
  <1> USE DEF NodeInv, Register, Goto, WriteLock
  <1>1. e \in Threads /\ e \notin Objs /\ o # NULL
    BY ThreadAssumption, PoolAssumption DEF Threads
  <1>2. ~Held(o) /\ (\A t \in Threads : hold[t] # o) /\ hold[e] = NULL
    BY <1>1 DEF LiveInv, Held, Owns, PlaceInv
  <1>3. ref[o] = 0
    BY <1>2, CountMeans
  <1>4. TypeOK'
    BY <1>1, NetAssumption DEF TypeOK, PCs
  <1>5. CountInv'
    <2>1. ref' = [ref EXCEPT ![o] = @ + 1]
      BY <1>3 DEF TypeOK
    <2>2. QED
      BY <1>1, <1>2, <2>1, CountUp DEF PCs
  <1>6. \A q \in Objs : Held(q)' <=> q = o \/ Held(q)
    BY <1>1, <1>2, PoolAssumption DEF TypeOK, Held, Owns
  <1>7. PlaceInv'
    BY <1>1, <1>2 DEF TypeOK, PlaceInv
  <1>8. LoopInv'
    BY <1>1 DEF TypeOK, LoopInv
  <1>9. TableInv'
    BY <1>6 DEF TypeOK, TableInv
  <1>10. FlushInv'
    BY <1>1, <1>2, <1>6 DEF TypeOK, FlushInv, PlaceInv
  <1>11. LiveInv'
    BY <1>1, <1>2 DEF TypeOK, LiveInv
  <1>12. KthreadInv'
    BY DEF TypeOK, KthreadInv
  <1>13. QED
    BY <1>4, <1>5, <1>7, <1>8, <1>9, <1>10, <1>11, <1>12

(* The error path leaves a kthread behind, and nothing else. *)
LEMMA RegisterFailStep ==
  ASSUME NodeInv, NEW e \in Eps, NEW o \in Objs, RegisterFail(e, o)
  PROVE  NodeInv'
  <1> USE DEF NodeInv, RegisterFail
  <1>1. TypeOK'
    BY DEF TypeOK
  <1>2. \A q : Owners(q)' = Owners(q) /\ (Held(q)' <=> Held(q))
    BY DEF Owners, Held, Owns
  <1>3. CountInv' /\ TableInv' /\ FlushInv'
    BY <1>2 DEF CountInv, TableInv, FlushInv
  <1>4. PlaceInv' /\ LoopInv' /\ LiveInv'
    BY DEF PlaceInv, LoopInv, LiveInv
  <1>5. KthreadInv'
    BY DEF TypeOK, KthreadInv
  <1>6. QED
    BY <1>1, <1>3, <1>4, <1>5

(* qrtr_endpoint_post() puts only the endpoint's own node into the tree. *)
LEMMA EndpointPostStep ==
  ASSUME NodeInv, NEW e \in Eps, NEW k \in Nids, EndpointPost(e, k)
  PROVE  NodeInv'
  <1> USE DEF NodeInv, EndpointPost
  <1>1. e \in Threads
    BY DEF Threads
  <1>2. hold[e] \in Objs /\ Owns(e, hold[e])
    BY <1>1 DEF TypeOK, PlaceInv, Owns
  <1>3. TypeOK'
    BY <1>1, <1>2 DEF TypeOK, NodeAssign, kthreadVars
  <1>4. CountInv'
    BY CountSame
  <1>5. \A q : Held(q)' <=> Held(q)
    BY DEF Held, Owns
  <1>6. TableInv'
    <2>1. \A q \in list : Held(q)
      BY DEF TableInv
    <2>2. ASSUME NEW j \in Nids, tree'[j] # NULL PROVE Held(tree'[j])
      <3>1. tree'[j] = tree[j] \/ tree'[j] = hold[e]
        BY <1>2 DEF TypeOK, NodeAssign
      <3>2. QED
        BY <1>1, <1>2, <2>2, <3>1 DEF TableInv, Held
    <2>3. QED
      BY <1>5, <2>1, <2>2 DEF TableInv
  <1>7. PlaceInv' /\ LoopInv' /\ FlushInv' /\ LiveInv'
    BY <1>5 DEF PlaceInv, LoopInv, FlushInv, LiveInv
  <1>8. KthreadInv'
    BY DEF KthreadInv, kthreadVars
  <1>9. QED
    BY <1>3, <1>4, <1>6, <1>7, <1>8

(* Steps of a thread that keeps its node, and neither enters nor leaves a  *)
(* loop over the list.                                                     *)
LEMMA MoveStep ==
  ASSUME NodeInv, NEW t \in Threads, NEW where \in PCs,
         pc[t] \notin {"idle", "walk", "fwd", "flush"},
         where \notin {"idle", "walk", "fwd", "flush"},
         where \in {"up", "bye"} => t \in Eps,
         Goto(t, where), TypeOK',
         UNCHANGED <<mem, ref, tree, list, readers, hold, todo, kthreadVars>>
  PROVE  NodeInv'
  <1> USE DEF NodeInv, Goto
  <1>1. CountInv'
    BY CountSame DEF TypeOK
  <1>2. \A q : Held(q)' <=> Held(q)
    BY DEF TypeOK, Held, Owns
  <1>3. PlaceInv'
    BY DEF TypeOK, PlaceInv
  <1>4. LoopInv'
    BY DEF TypeOK, LoopInv
  <1>5. TableInv'
    BY <1>2 DEF TableInv
  <1>6. FlushInv'
    BY <1>2 DEF TypeOK, FlushInv
  <1>7. LiveInv'
    BY DEF TypeOK, LiveInv
  <1>8. KthreadInv'
    BY DEF KthreadInv, kthreadVars
  <1>9. QED
    BY <1>1, <1>3, <1>4, <1>5, <1>6, <1>7, <1>8

(* Steps that enter or leave a loop over the list, and the lock with it. *)
LEMMA LoopStep ==
  ASSUME NodeInv, NEW t \in Threads, NEW where \in PCs, NEW S \in SUBSET Objs,
         \/ /\ pc[t] = "bye" /\ where = "fwd" /\ S = list /\ readers' = readers \cup {t}
         \/ /\ pc[t] = "fwd" /\ where = "bye" /\ S = {} /\ readers' = readers \ {t}
         \/ /\ pc[t] = "idle" /\ where = "walk" /\ S = list /\ readers' = readers \cup {t}
            /\ t \in Objs => mem[t] = "live"
         \/ /\ pc[t] = "walk" /\ where = "idle" /\ S = {} /\ readers' = readers \ {t},
         Goto(t, where), todo' = [todo EXCEPT ![t] = S], TypeOK',
         UNCHANGED <<mem, ref, tree, list, hold, kthreadVars>>
  PROVE  NodeInv'
  <1> USE DEF NodeInv, Goto
  <1>1. CountInv'
    BY CountSame DEF TypeOK
  <1>2. \A q : Held(q)' <=> Held(q)
    BY DEF TypeOK, Held, Owns
  <1>3. PlaceInv'
    BY DEF TypeOK, PlaceInv
  <1>4. LoopInv'
    BY DEF TypeOK, LoopInv
  <1>5. TableInv'
    BY <1>2 DEF TableInv
  <1>6. FlushInv'
    BY <1>2 DEF TypeOK, FlushInv
  <1>7. LiveInv'
    BY DEF TypeOK, LiveInv
  <1>8. KthreadInv'
    BY DEF KthreadInv, kthreadVars
  <1>9. QED
    BY <1>1, <1>3, <1>4, <1>5, <1>6, <1>7, <1>8

(* qrtr_node_lookup() finds a node that somebody holds. *)
LEMMA NodeLookupStep ==
  ASSUME NodeInv, NEW t \in Threads, NEW k \in Nids, NodeLookup(t, k)
  PROVE  NodeInv'
  <1> USE DEF NodeInv, NodeLookup, MayLookup, Goto, objVars
  <1> DEFINE o == tree[k]
  <1>1. o \in Objs /\ o # NULL /\ hold[t] = NULL
    BY PoolAssumption DEF TypeOK, PlaceInv
  <1>2. Held(o)
    BY DEF TableInv
  <1>3. TypeOK'
    BY <1>1 DEF TypeOK, PCs, kthreadVars
  <1>4. CountInv'
    BY <1>1, CountUp DEF PCs
  <1>5. \A q \in Objs : Held(q)' <=> Held(q)
    BY <1>1, <1>2, PoolAssumption DEF TypeOK, Held, Owns
  <1>6. PlaceInv'
    BY <1>1 DEF TypeOK, PlaceInv
  <1>7. LoopInv'
    BY DEF TypeOK, LoopInv
  <1>8. TableInv'
    BY <1>5 DEF TypeOK, TableInv
  <1>9. FlushInv'
    BY <1>1, <1>5 DEF TypeOK, FlushInv, PlaceInv
  <1>10. LiveInv'
    BY <1>1, <1>2 DEF TypeOK, LiveInv, Held, Owns
  <1>11. KthreadInv'
    BY DEF KthreadInv, kthreadVars
  <1>12. QED
    BY <1>3, <1>4, <1>6, <1>7, <1>8, <1>9, <1>10, <1>11

(* A reference that was not the last is given back, under the lock or      *)
(* without it: the others still hold the node.                             *)
LEMMA PutStep ==
  ASSUME NodeInv, NEW t \in Threads,
         pc[t] \in {"put", "putw", "putq"}, ref[hold[t]] # 1,
         ref' = [ref EXCEPT ![hold[t]] = @ - 1],
         hold' = [hold EXCEPT ![t] = NULL], Goto(t, "idle"),
         UNCHANGED <<objVars, tree, list, readers, leaked, cur, todo>>
  PROVE  NodeInv'
  <1> USE DEF NodeInv, Goto, objVars
  <1> DEFINE o == hold[t]
  <1>1. o \in Objs /\ o # NULL /\ Owns(t, o)
    BY PoolAssumption DEF TypeOK, PlaceInv, Owns
  <1>2. ref' \in [Objs -> Nat] /\ CountInv'
    BY <1>1, CountDown DEF TypeOK
  <1>3. TypeOK'
    BY <1>2 DEF TypeOK, PCs, kthreadVars
  <1>4. \E u \in Threads : u # t /\ Owns(u, o)
    BY <1>1, CountMeans
  <1>5. \A q \in Objs : Held(q)' <=> Held(q)
    <2>1. \A q \in Objs : \A u \in Threads : u # t => (Owns(u, q)' <=> Owns(u, q))
      BY DEF TypeOK, Owns
    <2>2. \A q \in Objs : ~Owns(t, q)' /\ (Owns(t, q) => q = o)
      BY PoolAssumption DEF TypeOK, Owns
    <2>3. QED
      BY <1>4, <2>1, <2>2 DEF Held
  <1>6. PlaceInv'
    BY <1>1 DEF TypeOK, PlaceInv
  <1>7. LoopInv'
    BY DEF TypeOK, LoopInv
  <1>8. TableInv'
    BY <1>5 DEF TypeOK, TableInv
  <1>9. FlushInv'
    BY <1>1, <1>5 DEF TypeOK, FlushInv, PlaceInv
  <1>10. LiveInv'
    BY <1>1 DEF TypeOK, LiveInv
  <1>11. KthreadInv'
    BY DEF KthreadInv, kthreadVars
  <1>12. QED
    BY <1>2, <1>3, <1>6, <1>7, <1>8, <1>9, <1>10, <1>11

(* __qrtr_node_release(): with the lock held for writing nobody is in a    *)
(* loop over the list, and the last holder is alone with the node.         *)
LEMMA LastPutStep ==
  ASSUME NodeInv, NEW t \in Threads,
         pc[t] \in {"putw", "putq"}, WriteLock, ref[hold[t]] = 1,
         ref' = [ref EXCEPT ![hold[t]] = @ - 1],
         tree' = [k \in Nids |-> IF tree[k] = hold[t] THEN NULL ELSE tree[k]],
         list' = list \ {hold[t]}, Goto(t, "flush"),
         UNCHANGED <<objVars, readers, leaked, hold, cur, todo>>
  PROVE  NodeInv'
  <1> USE DEF NodeInv, Goto, objVars
  <1> DEFINE o == hold[t]
  <1>1. o \in Objs /\ o # NULL /\ Owns(t, o)
    BY PoolAssumption DEF TypeOK, PlaceInv, Owns
  <1>2. ref' \in [Objs -> Nat] /\ CountInv'
    BY <1>1, CountDown DEF TypeOK
  <1>3. TypeOK'
    BY <1>2 DEF TypeOK, PCs, kthreadVars
  <1>4. \A u \in Threads : Owns(u, o) => u = t
    BY <1>1, CountMeans
  <1>5. \A q \in Objs : Held(q)' <=> q # o /\ Held(q)
    BY <1>1, <1>4 DEF TypeOK, Held, Owns
  <1>6. \A u \in Threads : pc[u] = "flush" => hold[u] # o
    BY <1>1 DEF FlushInv, Held
  <1>7. PlaceInv'
    BY <1>1 DEF TypeOK, PlaceInv
  <1>8. LoopInv'
    BY DEF TypeOK, LoopInv, WriteLock
  <1>9. TableInv'
    BY <1>5 DEF TypeOK, TableInv
  <1>10. FlushInv'
    BY <1>1, <1>5, <1>6 DEF TypeOK, FlushInv, PlaceInv
  <1>11. LiveInv'
    BY DEF TypeOK, LiveInv
  <1>12. KthreadInv'
    BY DEF KthreadInv, kthreadVars
  <1>13. QED
    BY <1>2, <1>3, <1>7, <1>8, <1>9, <1>10, <1>11, <1>12

(* The node is freed by the one thread that has it, its kworker done. *)
LEMMA FlushAndFreeStep ==
  ASSUME NodeInv, NEW t \in Threads, FlushAndFree(t)
  PROVE  NodeInv'
  <1> USE DEF NodeInv, FlushAndFree, Goto
  <1> DEFINE o == hold[t]
  <1>1. o \in Objs /\ o # NULL /\ ~Owns(t, o)
    BY PoolAssumption DEF TypeOK, PlaceInv, Owns
  <1>2. ~Held(o) /\ \A u \in Threads : hold[u] = o => u = t
    BY DEF FlushInv, Held, Owns
  <1>3. TypeOK'
    BY DEF TypeOK, PCs
  <1>4. \A q \in Objs, u \in Threads : Owns(u, q)' <=> Owns(u, q)
    BY <1>1, PoolAssumption DEF TypeOK, Owns
  <1>5. CountInv'
    <2>1. \A q \in Objs : Owners(q)' = Owners(q)
      BY <1>4 DEF Owners
    <2>2. QED
      BY <2>1 DEF CountInv
  <1>6. \A q \in Objs : Held(q)' <=> Held(q)
    BY <1>4 DEF Held
  <1>7. PlaceInv'
    BY <1>1 DEF TypeOK, PlaceInv
  <1>8. LoopInv'
    BY DEF TypeOK, LoopInv
  <1>9. TableInv'
    BY <1>6 DEF TypeOK, TableInv
  <1>10. FlushInv'
    BY <1>1, <1>6 DEF TypeOK, FlushInv, PlaceInv
  <1>11. LiveInv'
    BY <1>1, <1>2 DEF TypeOK, LiveInv, Threads
  <1>12. KthreadInv'
    BY DEF TypeOK, KthreadInv
  <1>13. QED
    BY <1>3, <1>5, <1>7, <1>8, <1>9, <1>10, <1>11, <1>12

-----------------------------------------------------------------------------
LEMMA NodeInit == Init => NodeInv
  <1> SUFFICES ASSUME Init PROVE NodeInv
    OBVIOUS
  <1> USE DEF Init
  <1>1. TypeOK
    BY DEF TypeOK, PCs
  <1>2. \A o \in Objs : ~Held(o) /\ Owners(o) = {}
    BY PoolAssumption DEF Held, Owners, Owns
  <1>3. CountInv
    BY <1>2, FS_EmptySet DEF CountInv
  <1>4. PlaceInv /\ LoopInv
    BY DEF PlaceInv, LoopInv
  <1>5. TableInv /\ FlushInv /\ LiveInv /\ KthreadInv
    BY DEF TableInv, FlushInv, LiveInv, KthreadInv, Threads
  <1>6. QED
    BY <1>1, <1>3, <1>4, <1>5 DEF NodeInv

LEMMA NodeStep == NodeInv /\ [Next]_vars => NodeInv'
  <1> SUFFICES ASSUME NodeInv, [Next]_vars PROVE NodeInv'
    OBVIOUS
  <1>1. CASE \E e \in Eps : \E o \in Objs : Register(e, o)
    BY <1>1, RegisterStep
  <1>1a. CASE \E e \in Eps : \E o \in Objs : RegisterFail(e, o)
    BY <1>1a, RegisterFailStep
  <1>2. CASE \E e \in Eps : \E k \in Nids : EndpointPost(e, k)
    BY <1>2, EndpointPostStep
  <1>3. ASSUME NEW e \in Eps, Unregister(e) PROVE NodeInv'
    <2>1. e \in Threads
      BY DEF Threads
    <2>2. hold[e] \in Objs /\ TypeOK'
      BY <1>3, <2>1 DEF Unregister, Goto, NodeInv, TypeOK, PCs, PlaceInv, kthreadVars
    <2>3. QED
      BY <1>3, <2>1, <2>2, MoveStep DEF Unregister, PCs
  <1>4. ASSUME NEW t \in Users \cup Objs, WalkStart(t) PROVE NodeInv'
    <2>1. t \in Threads
      BY DEF Threads
    <2>2. TypeOK' /\ list \in SUBSET Objs
      BY <1>4, <2>1 DEF WalkStart, Goto, NodeInv, TypeOK, PCs, objVars, kthreadVars
    <2>3. QED
      BY <1>4, <2>1, <2>2, LoopStep DEF WalkStart, MayLookup, PCs, objVars
  <1>5. ASSUME NEW t \in Users \cup Objs, NEW k \in Nids, NodeLookup(t, k) PROVE NodeInv'
    BY <1>5, NodeLookupStep DEF Threads
  <1>6. ASSUME NEW t \in Threads, Progress(t) PROVE NodeInv'
    <2> USE DEF objVars
    <2>1. CASE PutFast(t)
      BY <2>1, PutStep DEF PutFast
    <2>2. CASE PutSlow(t) \/ HandOff(t)
      <3>1. TypeOK'
        BY <2>2 DEF PutSlow, HandOff, Goto, NodeInv, TypeOK, PCs, kthreadVars
      <3>2. QED
        BY <2>2, <3>1, MoveStep DEF PutSlow, HandOff, PCs
    <2>3. CASE PutLocked(t)
      BY <2>3, PutStep, LastPutStep DEF PutLocked
    <2>4. CASE FlushAndFree(t)
      BY <2>4, FlushAndFreeStep
    <2>5. CASE WalkDone(t)
      <3>1. TypeOK'
        BY <2>5 DEF WalkDone, Goto, NodeInv, TypeOK, PCs, kthreadVars
      <3>2. {} \in SUBSET Objs
        OBVIOUS
      <3>3. QED
        BY <2>5, <3>1, <3>2, LoopStep DEF WalkDone, PCs
    <2>6. CASE t \in Eps /\ FwdDelProc(t)
      <3>1. TypeOK'
        BY <2>6 DEF FwdDelProc, Goto, NodeInv, TypeOK, PCs, kthreadVars
      <3>2. {} \in SUBSET Objs
        OBVIOUS
      <3>3. QED
        BY <2>6, <3>1, <3>2, LoopStep DEF FwdDelProc, PCs
    <2>7. CASE t \in Eps /\ ByeDone(t)
      <3>1. TypeOK'
        BY <2>7 DEF ByeDone, Goto, NodeInv, TypeOK, PCs, kthreadVars
      <3>2. QED
        BY <2>7, <3>1, MoveStep DEF ByeDone, PCs
    <2>8. ASSUME t \in Eps, NEW k \in Nids, Bye(t, k) PROVE NodeInv'
      <3>1. TypeOK' /\ list \in SUBSET Objs
        <4>1. hold[t] \in Objs
          BY <2>8 DEF Bye, NodeInv, TypeOK, PlaceInv
        <4>2. QED
          BY <2>8, <4>1 DEF Bye, Goto, NodeInv, TypeOK, PCs, kthreadVars
      <3>2. QED
        BY <2>8, <3>1, LoopStep DEF Bye, PCs
    <2>9. QED
      BY <1>6, <2>1, <2>2, <2>3, <2>4, <2>5, <2>6, <2>7, <2>8 DEF Progress
  <1>7. CASE UNCHANGED vars
    <2>1. \A o : Owners(o)' = Owners(o) /\ (Held(o)' <=> Held(o))
      BY <1>7 DEF vars, Owners, Held, Owns
    <2>2. TypeOK' /\ CountInv'
      BY <1>7, <2>1 DEF vars, NodeInv, TypeOK, CountInv
    <2>3. PlaceInv' /\ LoopInv' /\ TableInv' /\ FlushInv' /\ LiveInv' /\ KthreadInv'
      BY <1>7, <2>1 DEF vars, NodeInv, PlaceInv, LoopInv, TableInv, FlushInv, LiveInv, KthreadInv
    <2>4. QED
      BY <2>2, <2>3 DEF NodeInv
  <1>8. QED
    BY <1>1, <1>1a, <1>2, <1>3, <1>4, <1>5, <1>6, <1>7 DEF Next

(* The inductive invariant holds in every reachable state. *)
THEOREM NodeSafe == Spec => []NodeInv
  BY NodeInit, NodeStep, PTL DEF Spec

(* Every node that a reference, a loop over qrtr_all_epts, a lookup to     *)
(* come or a kthread can reach is allocated, but for the kthreads that     *)
(* failed registrations left behind (qrtr_endpoint_register).              *)
THEOREM NeverFreedInUse == Spec => []NoUseAfterFree
  <1>1. ASSUME NodeInv PROVE NoUseAfterFree
    <2> USE <1>1 DEF NodeInv
    <2>1. \A o \in Objs : Held(o) => mem[o] = "live"
      BY PoolAssumption DEF LiveInv, Held, Owns
    <2>2. \A o \in list : mem[o] = "live"
      BY <2>1 DEF TableInv, TypeOK
    <2>3. \A k \in Nids : tree[k] # NULL => mem[tree[k]] = "live"
      BY <2>1 DEF TableInv, TypeOK
    <2>4. \A t \in Threads : \A o \in todo[t] : mem[o] = "live"
      BY <2>2 DEF LoopInv
    <2>5. QED
      BY <2>2, <2>3, <2>4 DEF NoUseAfterFree, LiveInv, KthreadInv
  <1>2. QED
    BY <1>1, NodeSafe, PTL

(* node->ref counts the holders; zero means out of every table, with one   *)
(* thread left that flushes and frees.                                     *)
THEOREM CountsAreHolders == Spec => []RefsAccounted
  <1>1. ASSUME NodeInv PROVE RefsAccounted
    <2> SUFFICES ASSUME NEW o \in Objs
                 PROVE  /\ ref[o] = Cardinality(Owners(o))
                        /\ ref[o] = 0 => o \notin list /\ \A k \in Nids : tree[k] # o
                        /\ ref[o] > 0 => \A t \in Threads : pc[t] = "flush" => hold[t] # o
      BY DEF RefsAccounted, Owners, Owns
    <2>1. ref[o] = Cardinality(Owners(o)) /\ ref[o] \in Nat
      BY <1>1 DEF NodeInv, CountInv, TypeOK
    <2>2. ref[o] = 0 <=> ~Held(o)
      BY <1>1, CountMeans DEF NodeInv
    <2>3. QED
      BY <1>1, <2>1, <2>2, PoolAssumption DEF NodeInv, TableInv, FlushInv
  <1>2. QED
    BY <1>1, NodeSafe, PTL

-----------------------------------------------------------------------------
(* A node id in the tree: the controller got its BYE, or the endpoint of   *)
(* the node is registered or still has the id before it in its loop.       *)
ToldInv ==
    \A k \in Nids : tree[k] # NULL =>
        \/ k \in told[tree[k]]
        \/ \E e \in Eps : /\ hold[e] = tree[k]
                          /\ pc[e] = "up" \/ (pc[e] \in {"bye", "fwd"} /\ k > cur[e])

LEMMA ToldInit == Init => ToldInv
  BY DEF Init, ToldInv

(* The loop of qrtr_endpoint_unregister() visits the ids in order, so what *)
(* is behind it was told; a lone last holder is never such an endpoint.    *)
LEMMA ToldStep ==
  ASSUME Events \subseteq {"forward", "wakeups"}, NodeInv, ToldInv, [Next]_vars
  PROVE  /\ ToldInv'
         /\ \A k \in Nids : tree[k] # NULL /\ tree'[k] = NULL => k \in told[tree[k]]
  <1> USE DEF NodeInv
  <1> DEFINE Kept == \A k \in Nids : tree[k] # NULL => tree'[k] # NULL
  <1> DEFINE Ahead(e, k) == /\ hold[e] = tree[k]
                            /\ pc[e] = "up" \/ (pc[e] \in {"bye", "fwd"} /\ k > cur[e])
  <1>0. Eps \subseteq Threads /\ Nids \subseteq Nat \ {0}
    BY NidAssumption DEF Threads
  <1>1. ASSUME NEW e \in Eps, NEW o \in Objs, Register(e, o) PROVE ToldInv' /\ Kept
    <2>1. \A k \in Nids : tree[k] # o
      BY <1>1, PoolAssumption DEF Register, TableInv, LiveInv, Held, Owns
    <2>2. \A k \in Nids : tree[k] # NULL => told'[tree[k]] = told[tree[k]]
      BY <1>1, <2>1 DEF Register, TypeOK
    <2>3. \A k \in Nids, f \in Eps : tree[k] # NULL /\ Ahead(f, k) => Ahead(f, k)'
      BY <1>0, <1>1, <2>1 DEF Register, Goto, TypeOK, PlaceInv
    <2>4. QED
      BY <1>1, <2>2, <2>3 DEF Register, ToldInv
  <1>1a. ASSUME NEW e \in Eps, NEW o \in Objs, RegisterFail(e, o) PROVE ToldInv' /\ Kept
    BY <1>1a DEF RegisterFail, ToldInv
  <1>2. ASSUME NEW e \in Eps, NEW k \in Nids, EndpointPost(e, k) PROVE ToldInv' /\ Kept
    <2>1. pc[e] = "up" /\ hold[e] # NULL
      BY <1>0, <1>2 DEF EndpointPost, PlaceInv
    <2>2. \A j \in Nids : tree'[j] = tree[j] \/ (tree[j] = NULL /\ tree'[j] = hold[e])
      BY <1>2 DEF EndpointPost, NodeAssign, TypeOK
    <2>3. QED
      BY <1>2, <2>1, <2>2 DEF EndpointPost, ToldInv
  <1>3. ASSUME NEW e \in Eps, Unregister(e) PROVE ToldInv' /\ Kept
    <2>1. \A k \in Nids, f \in Eps : Ahead(f, k) => Ahead(f, k)'
      BY <1>0, <1>3 DEF Unregister, Goto, TypeOK
    <2>2. QED
      BY <1>3, <2>1 DEF Unregister, ToldInv
  <1>4. ASSUME NEW e \in Eps, NEW k \in Nids, Bye(e, k) PROVE ToldInv' /\ Kept
    <2>1. hold[e] \in Objs /\ pc[e] = "bye" /\ told' = [told EXCEPT ![hold[e]] = @ \cup {k}]
      BY <1>0, <1>4 DEF Bye, TypeOK, PlaceInv
    <2>2. ASSUME NEW j \in Nids, tree[j] # NULL
          PROVE  \/ j \in told'[tree[j]]
                 \/ \E f \in Eps : Ahead(f, j)'
      <3>1. CASE j \in told[tree[j]]
        BY <2>1, <2>2, <3>1 DEF TypeOK
      <3>2. CASE \E f \in Eps : f # e /\ Ahead(f, j)
        BY <1>0, <1>4, <3>2 DEF Bye, Goto, TypeOK
      <3>3. CASE Ahead(e, j)
        <4>1. j \in Remaining(e) /\ k <= j
          BY <1>4, <2>1, <3>3 DEF Bye, Remaining
        <4>2. CASE j = k
          BY <2>1, <3>3, <4>2 DEF TypeOK
        <4>3. CASE j > k
          BY <1>0, <1>4, <2>1, <3>3, <4>3 DEF Bye, Goto, TypeOK
        <4>4. QED
          BY <1>0, <4>1, <4>2, <4>3
      <3>4. QED
        BY <2>2, <3>1, <3>2, <3>3 DEF ToldInv
    <2>3. QED
      BY <1>4, <2>2 DEF Bye, ToldInv
  <1>5. ASSUME NEW e \in Eps, ByeDone(e) PROVE ToldInv' /\ Kept
    <2>1. \A k \in Nids : ~Ahead(e, k)
      BY <1>5 DEF ByeDone, Remaining
    <2>2. \A k \in Nids, f \in Eps : Ahead(f, k) => Ahead(f, k)'
      BY <1>0, <1>5, <2>1 DEF ByeDone, Goto, TypeOK
    <2>3. QED
      BY <1>5, <2>2 DEF ByeDone, ToldInv, objVars
  <1> DEFINE Aside(t) == /\ \/ pc[t] \notin {"up", "bye", "fwd"}
                            \/ pc[t] = "fwd" /\ pc'[t] = "bye" /\ hold'[t] = hold[t]
                         /\ \A u \in Threads : u # t => pc'[u] = pc[u] /\ hold'[u] = hold[u]
                         /\ UNCHANGED <<cur, told, tree>>
  <1>6. \A t \in Threads : Aside(t) => ToldInv' /\ Kept
    <2> SUFFICES ASSUME NEW t \in Threads, Aside(t) PROVE ToldInv' /\ Kept
      OBVIOUS
    <2>1. \A k \in Nids, f \in Eps : Ahead(f, k) => Ahead(f, k)'
      BY <1>0
    <2>2. QED
      BY <2>1 DEF ToldInv
  <1> HIDE DEF Aside
  <1>7. ASSUME NEW t \in Threads, pc[t] \in {"putw", "putq"}, ref[hold[t]] = 1, PutLocked(t)
        PROVE  /\ ToldInv'
               /\ \A k \in Nids : tree[k] # NULL /\ tree'[k] = NULL => k \in told[tree[k]]
    <2>1. hold[t] \in Objs /\ Owns(t, hold[t])
      BY <1>7 DEF TypeOK, PlaceInv, Owns
    <2>2. \A k \in Nids, f \in Eps : tree[k] = hold[t] => ~Ahead(f, k)
      <3>1. \A u \in Threads : Owns(u, hold[t]) => u = t
        BY <1>7, <2>1, CountMeans
      <3>2. QED
        BY <1>0, <1>7, <3>1 DEF Owns
    <2>3. \A k \in Nids, f \in Eps : tree[k] # hold[t] /\ Ahead(f, k) => Ahead(f, k)'
      BY <1>0, <1>7 DEF PutLocked, Goto, TypeOK
    <2>4. \A k \in Nids : tree'[k] = IF tree[k] = hold[t] THEN NULL ELSE tree[k]
      BY <1>7 DEF PutLocked
    <2>5. \A k \in Nids : tree[k] = hold[t] => k \in told[tree[k]]
      BY <2>1, <2>2, PoolAssumption DEF ToldInv
    <2>6. ToldInv'
      BY <1>7, <2>3, <2>4 DEF PutLocked, ToldInv, objVars
    <2>7. QED
      BY <2>4, <2>5, <2>6
  <1>8. ASSUME NEW t \in Threads, Progress(t)
        PROVE  /\ ToldInv'
               /\ \A k \in Nids : tree[k] # NULL /\ tree'[k] = NULL => k \in told[tree[k]]
    <2> USE DEF objVars, Goto, TypeOK
    <2>1. CASE PutFast(t) \/ PutSlow(t) \/ HandOff(t) \/ FlushAndFree(t) \/ WalkDone(t)
      <3>1. Aside(t)
        BY <2>1 DEF Aside, PutFast, PutSlow, HandOff, FlushAndFree, WalkDone
      <3>2. QED
        BY <1>6, <3>1
    <2>2. CASE PutLocked(t) /\ ref[hold[t]] # 1
      <3>1. Aside(t)
        BY <2>2 DEF Aside, PutLocked
      <3>2. QED
        BY <1>6, <3>1
    <2>3. CASE PutLocked(t) /\ ref[hold[t]] = 1
      BY <1>7, <2>3 DEF PutLocked
    <2>4. CASE FwdDelProc(t)
      <3>1. Aside(t)
        BY <2>4 DEF Aside, FwdDelProc
      <3>2. QED
        BY <1>6, <3>1
    <2>5. CASE t \in Eps /\ (ByeDone(t) \/ \E k \in Nids : Bye(t, k))
      BY <1>4, <1>5, <2>5
    <2>6. QED
      BY <1>8, <2>1, <2>2, <2>3, <2>4, <2>5 DEF Progress
  <1>9. ASSUME NEW t \in Users \cup Objs, WalkStart(t) \/ \E k \in Nids : NodeLookup(t, k)
        PROVE  ToldInv' /\ Kept
    <2>1. t \in Threads
      BY DEF Threads
    <2>2. Aside(t)
      BY <1>9, <2>1 DEF Aside, WalkStart, NodeLookup, MayLookup, Goto, TypeOK, objVars
    <2>3. QED
      BY <1>6, <2>1, <2>2
  <1>10. CASE UNCHANGED vars
    BY <1>10 DEF vars, ToldInv
  <1>11. QED
    BY <1>1, <1>1a, <1>2, <1>3, <1>8, <1>9, <1>10 DEF Next

(* Without packets from an endpoint that is being unregistered, and with   *)
(* memory for the BYE, no node id is unrouted before the local controller  *)
(* was told (qrtr_endpoint_unregister against __qrtr_node_release).        *)
THEOREM ByeFirst ==
  ASSUME Events \subseteq {"forward", "wakeups"}
  PROVE  Spec => ByeBeforeGone
  <1>1. NodeInv /\ ToldInv /\ [Next]_vars =>
          /\ ToldInv'
          /\ [\A k \in Nids : tree[k] # NULL /\ tree'[k] = NULL => k \in told[tree[k]]]_vars
    BY ToldStep
  <1>2. QED
    BY <1>1, ToldInit, NodeSafe, PTL DEF Spec, ByeBeforeGone
=============================================================================
