--------------------------- MODULE QrtrCtrl_proofs --------------------------
(***************************************************************************)
(* Proofs about the control socket, for any number of neighbours and local *)
(* writers and every size of the queue: a waiting writer's request for a   *)
(* signal stands, unread messages have a reader, and the counters of the   *)
(* HELLO handshake are exact.                                              *)
(***************************************************************************)
EXTENDS QrtrCtrl, FiniteSetTheorems, TLAPS

(* The queue, its writers and its reader. *)
QueueTypes ==
    /\ sock \in {"open", "closing", "closed"}
    /\ queue \in Seq(Nodes \cup {NoNode})
    /\ signal \in BOOLEAN /\ done \in BOOLEAN /\ work \in BOOLEAN
    /\ npc \in NsPCs
    /\ wpc \in [Writers -> WriterPCs]
    /\ msg \in [Writers -> Nodes \cup {NoNode}]

(* A socket without its port has no messages and no writer of its own. *)
ClosedInv ==
    sock = "closed" => queue = <<>> /\ \A w \in Writers : wpc[w] = "idle" \/ w \in stale

QueueInv == QueueTypes /\ ClosedInv /\ SignalAsked /\ ReaderAwake

(* The counters, and the HELLOs between counting and transmission. *)
HelloTypes ==
    /\ sent \in [Nodes -> Int]
    /\ flight \in [Senders -> Nodes \cup {NoNode}]
    /\ peer \in Nodes \cup {NoNode}
    /\ npc = "reply" => peer \in Nodes /\ flight["ns"] = NoNode
    /\ \A n \in Nodes : sent[n] <= 1
    /\ \A t \in old : Target(t) # NoNode

(* HELLOs to n that were counted since the last reset and are under way.   *)
UnderWay(n) == {t \in Senders \ old : Target(t) = n}

HelloInv == HelloTypes /\ HelloCounted

-----------------------------------------------------------------------------
(* The queue.                                                              *)

(* The initial states satisfy the invariant of the queue. *)
LEMMA QueueInit == Init => QueueInv
  <1> SUFFICES ASSUME Init
               PROVE  QueueInv
    OBVIOUS
  <1> USE DEF Init
  <1>1. signal \in BOOLEAN /\ done \in BOOLEAN /\ work \in BOOLEAN
    BY Zenon
  <1>2. QueueTypes
    BY <1>1 DEF QueueTypes, NsPCs, WriterPCs
  <1>3. ClosedInv /\ SignalAsked /\ ReaderAwake
    BY DEF ClosedInv, SignalAsked, ReaderAwake
  <1>4. QED
    BY <1>2, <1>3 DEF QueueInv

(* Steps of HELLOs leave the queue alone. *)
Greeting ==
    \/ \E t \in Senders : Hello(t)
    \/ \E n \in Nodes : HelloWork(n) \/ Bcast(n)

(* What they keep; memory that ran out stays on record. *)
LEMMA GreetingKeeps ==
  ASSUME Greeting
  PROVE  /\ UNCHANGED <<sock, queue, signal, done, work, npc, wpc, msg, stale>>
         /\ failed' = failed \/ failed' = 1
  <1> USE DEF sockVars, nsVars, writeVars
  <1>1. ASSUME NEW t \in Senders, XmitOk(t)
        PROVE  UNCHANGED <<sock, queue, signal, done, work, npc, wpc, msg, stale, failed>>
    BY <1>1 DEF XmitOk
  <1>2. ASSUME NEW t \in Senders, XmitFail(t)
        PROVE  UNCHANGED <<sock, queue, signal, done, work, npc, wpc, msg, stale, failed>>
    BY <1>2 DEF XmitFail
  <1>3. ASSUME NEW n \in Nodes, HelloWork(n)
        PROVE  /\ UNCHANGED <<sock, queue, signal, done, work, npc, wpc, msg, stale>>
               /\ failed' = failed \/ failed' = 1
    BY <1>3 DEF HelloWork
  <1>4. ASSUME NEW n \in Nodes, Bcast(n)
        PROVE  /\ UNCHANGED <<sock, queue, signal, done, work, npc, wpc, msg, stale>>
               /\ failed' = failed \/ failed' = 1
    BY <1>4 DEF Bcast
  <1>5. QED
    BY <1>1, <1>2, <1>3, <1>4 DEF Greeting, Hello

(* Every step preserves the invariant of the queue. *)
LEMMA QueueStep == QueueInv /\ [Next]_vars => QueueInv'
  <1> SUFFICES ASSUME QueueInv, [Next]_vars
               PROVE  QueueInv'
    OBVIOUS
  <1> USE DEF QueueInv, QueueTypes, sockVars, nsVars, writeVars, helloVars
  <1>1. ASSUME NEW w \in Writers, NEW hello \in BOOLEAN, Arrive(w, hello) PROVE QueueInv'
    <2> USE <1>1 DEF Arrive
    <2>1. QueueTypes'
      BY DEF WriterPCs, NsPCs
    <2>2. ClosedInv'
      BY DEF ClosedInv
    <2>3. SignalAsked' /\ ReaderAwake'
      BY DEF SignalAsked, ReaderAwake, NsPCs, WriterPCs, ClosedInv
    <2>4. QED
      BY <2>1, <2>2, <2>3
  <1>2. ASSUME NEW w \in Writers, Post(w) PROVE QueueInv'
    <2> USE <1>2 DEF Post
    <2>1. QueueTypes'
      <3>1. work' \in BOOLEAN
        BY Zenon
      <3>2. QED
        BY <3>1 DEF WriterPCs, NsPCs
    <2>2. ClosedInv'
      BY DEF ClosedInv
    <2>3. SignalAsked' /\ ReaderAwake'
      BY DEF SignalAsked, ReaderAwake, NsPCs, WriterPCs, ClosedInv
    <2>4. QED
      BY <2>1, <2>2, <2>3
  <1>3. ASSUME NEW w \in Writers, AskSignal(w) PROVE QueueInv'
    <2> USE <1>3 DEF AskSignal
    <2>1. QueueTypes'
      <3>1. signal' \in BOOLEAN /\ done' \in BOOLEAN
        BY Zenon
      <3>2. QED
        BY <3>1 DEF WriterPCs, NsPCs
    <2>2. ClosedInv'
      BY DEF ClosedInv
    <2>3. SignalAsked' /\ ReaderAwake'
      BY DEF SignalAsked, ReaderAwake, NsPCs, WriterPCs, ClosedInv
    <2>4. QED
      BY <2>1, <2>2, <2>3
  <1>4. ASSUME NEW w \in Writers, Woken(w) PROVE QueueInv'
    <2> USE <1>4 DEF Woken
    <2>1. QueueTypes'
      BY DEF WriterPCs, NsPCs
    <2>2. ClosedInv'
      BY DEF ClosedInv
    <2>3. SignalAsked' /\ ReaderAwake'
      BY DEF SignalAsked, ReaderAwake, NsPCs, WriterPCs, ClosedInv
    <2>4. QED
      BY <2>1, <2>2, <2>3
  <1>5. ASSUME NsRun PROVE QueueInv'
    <2> USE <1>5 DEF NsRun
    <2>1. QueueTypes'
      <3>1. work' \in BOOLEAN
        BY Zenon
      <3>2. QED
        BY <3>1 DEF WriterPCs, NsPCs
    <2>2. ClosedInv'
      BY DEF ClosedInv
    <2>3. SignalAsked' /\ ReaderAwake'
      BY DEF SignalAsked, ReaderAwake, NsPCs, WriterPCs, ClosedInv
    <2>4. QED
      BY <2>1, <2>2, <2>3
  <1>6. ASSUME Recv PROVE QueueInv'
    <2> USE <1>6 DEF Recv
    <2>1. QueueTypes'
      <3>1. signal' \in BOOLEAN /\ done' \in BOOLEAN
        BY Zenon
      <3>2. QED
        BY <3>1 DEF WriterPCs, NsPCs
    <2>2. ClosedInv'
      BY DEF ClosedInv
    <2>3. SignalAsked' /\ ReaderAwake'
      BY DEF SignalAsked, ReaderAwake, NsPCs, WriterPCs, ClosedInv
    <2>4. QED
      BY <2>1, <2>2, <2>3
  <1>7. ASSUME Reply PROVE QueueInv'
    <2> USE <1>7 DEF Reply
    <2>1. QueueTypes'
      BY DEF WriterPCs, NsPCs
    <2>2. ClosedInv'
      BY DEF ClosedInv
    <2>3. SignalAsked' /\ ReaderAwake'
      BY DEF SignalAsked, ReaderAwake, NsPCs, WriterPCs, ClosedInv
    <2>4. QED
      BY <2>1, <2>2, <2>3
  <1>8. ASSUME NsLeave PROVE QueueInv'
    <2> USE <1>8 DEF NsLeave
    <2>1. QueueTypes'
      BY DEF WriterPCs, NsPCs
    <2>2. ClosedInv'
      BY DEF ClosedInv
    <2>3. SignalAsked' /\ ReaderAwake'
      BY DEF SignalAsked, ReaderAwake, NsPCs, WriterPCs, ClosedInv
    <2>4. QED
      BY <2>1, <2>2, <2>3
  <1>9. ASSUME NsInit PROVE QueueInv'
    <2> USE <1>9 DEF NsInit
    <2>1. QueueTypes'
      BY DEF WriterPCs, NsPCs
    <2>2. ClosedInv'
      BY DEF ClosedInv
    <2>3. SignalAsked' /\ ReaderAwake'
      BY DEF SignalAsked, ReaderAwake, NsPCs, WriterPCs, ClosedInv
    <2>4. QED
      BY <2>1, <2>2, <2>3
  <1>10. ASSUME ReleaseReset PROVE QueueInv'
    <2> USE <1>10 DEF ReleaseReset
    <2>1. QueueTypes'
      BY DEF WriterPCs, NsPCs
    <2>2. ClosedInv'
      BY DEF ClosedInv
    <2>3. SignalAsked' /\ ReaderAwake'
      BY DEF SignalAsked, ReaderAwake, NsPCs, WriterPCs, ClosedInv
    <2>4. QED
      BY <2>1, <2>2, <2>3
  <1>11. ASSUME ReleaseRemove PROVE QueueInv'
    <2> USE <1>11 DEF ReleaseRemove
    <2>1. QueueTypes'
      <3>1. signal' \in BOOLEAN /\ done' \in BOOLEAN /\ work' \in BOOLEAN
        BY Zenon
      <3>2. QED
        BY <3>1 DEF WriterPCs, NsPCs
    <2>2. ClosedInv'
      BY DEF ClosedInv
    <2>3. SignalAsked' /\ ReaderAwake'
      BY DEF SignalAsked, ReaderAwake, NsPCs, WriterPCs, ClosedInv
    <2>4. QED
      BY <2>1, <2>2, <2>3
  <1>12. CASE Greeting
    BY <1>12, GreetingKeeps DEF ClosedInv, SignalAsked, ReaderAwake
  <1>13. CASE UNCHANGED vars
    BY <1>13 DEF vars, ClosedInv, SignalAsked, ReaderAwake
  <1>14. QED
    BY <1>1, <1>2, <1>3, <1>4, <1>5, <1>6, <1>7, <1>8, <1>9, <1>10, <1>11, <1>12, <1>13
       DEF Next, Writer, NsWorker, Greeting

(* A writer that waits for space in the control socket and has not been    *)
(* completed has its request for the completion standing, for any number   *)
(* of writers that reset it (qrtr_sock_queue_ctrl_skb, qrtr_recvmsg).      *)
THEOREM SignalSafety == Spec => []SignalAsked
  <1>1. QueueInv => SignalAsked
    BY DEF QueueInv
  <1>2. QED
    BY <1>1, QueueInit, QueueStep, PTL DEF Spec

(* The name service runs, or is queued to run, as long as the open control *)
(* socket has messages and memory did not run out (qrtr_ns_worker).        *)
THEOREM ReaderSafety == Spec => []ReaderAwake
  <1>1. QueueInv => ReaderAwake
    BY DEF QueueInv
  <1>2. QED
    BY <1>1, QueueInit, QueueStep, PTL DEF Spec

-----------------------------------------------------------------------------
(* The HELLO handshake.                                                    *)

(* Finitely many threads send HELLOs. *)
LEMMA UnderWayFinite ==
  ASSUME NEW n
  PROVE  /\ IsFiniteSet(UnderWay(n))
         /\ Cardinality(UnderWay(n)) \in Nat
  <1>1. IsFiniteSet(Nodes \cup {"ns"})
    BY CtrlAssumption, FS_AddElement
  <1>2. IsFiniteSet((Nodes \cup {"ns"}) \cup {"init"})
    BY <1>1, FS_AddElement
  <1>3. Senders = (Nodes \cup {"ns"}) \cup {"init"}
    BY DEF Senders
  <1>4. IsFiniteSet(Senders)
    BY <1>2, <1>3
  <1>5. UnderWay(n) \in SUBSET Senders
    BY DEF UnderWay
  <1>6. IsFiniteSet(UnderWay(n))
    BY <1>4, <1>5, FS_Subset
  <1>7. QED
    BY <1>6, FS_CardinalityType

(* The initial states satisfy the invariant of the handshake. *)
LEMMA HelloInit == Init => HelloInv
  <1> SUFFICES ASSUME Init
               PROVE  HelloInv
    OBVIOUS
  <1>1. HelloTypes
    BY DEF Init, HelloTypes, Target
  <1>2. \A n \in Nodes : UnderWay(n) = {}
    BY CtrlAssumption DEF Init, UnderWay, Target
  <1>3. \A n \in Nodes : sent[n] = 0 /\ n \notin said /\ Cardinality(UnderWay(n)) = 0
    BY <1>2, FS_EmptySet DEF Init
  <1>4. HelloCounted
    BY <1>3 DEF HelloCounted, UnderWay
  <1>5. QED
    BY <1>1, <1>4 DEF HelloInv

(* A thread that passes the gate counts its HELLO if it is the first.      *)
LEMMA GateCounts ==
  ASSUME HelloInv, NEW t \in Senders, NEW n \in Nodes, Gate(t, n),
         flight[t] = NoNode, UNCHANGED <<old, said, skewed>>
  PROVE  /\ sent' \in [Nodes -> Int] /\ \A m \in Nodes : sent'[m] <= 1
         /\ flight' \in [Senders -> Nodes \cup {NoNode}]
         /\ \A u \in Senders : u # t => flight'[u] = flight[u]
         /\ (\A u \in old : Target(u) # NoNode)'
         /\ HelloCounted'
  <1> USE DEF HelloInv, HelloTypes, Gate
  <1>1. /\ sent' \in [Nodes -> Int] /\ \A m \in Nodes : sent'[m] <= 1
        /\ flight' \in [Senders -> Nodes \cup {NoNode}]
        /\ \A u \in Senders : u # t => flight'[u] = flight[u]
    OBVIOUS
  <1>2. t \notin old
    BY DEF Target
  <1>3. (\A u \in old : Target(u) # NoNode)'
    BY <1>2 DEF Target
  <1>4. ASSUME NEW m \in Nodes \ skewed
        PROVE  sent'[m] = Cardinality(UnderWay(m)') + (IF m \in said THEN 1 ELSE 0)
    <2>0. sent[m] = Cardinality(UnderWay(m)) + (IF m \in said THEN 1 ELSE 0)
      BY DEF HelloCounted, UnderWay
    <2>1. CASE sent[n] # 0 \/ m # n
      <3>1. sent'[m] = sent[m]
        BY <2>1
      <3>2. UnderWay(m)' = UnderWay(m)
        BY <2>1, CtrlAssumption DEF UnderWay, Target
      <3>3. QED
        BY <2>0, <3>1, <3>2
    <2>2. CASE sent[n] = 0 /\ m = n
      <3>1. Cardinality(UnderWay(n)) = 0 /\ n \notin said
        BY <2>0, <2>2, UnderWayFinite
      <3>2. UnderWay(n) = {}
        BY <3>1, UnderWayFinite, FS_EmptySet
      <3>3. UnderWay(n)' = {t}
        BY <1>2, <2>2, <3>2 DEF UnderWay, Target
      <3>4. Cardinality({t}) = 1
        BY FS_Singleton
      <3>5. QED
        BY <2>2, <3>1, <3>3, <3>4
    <2>3. QED
      BY <2>1, <2>2
  <1>5. HelloCounted'
    BY <1>4 DEF HelloCounted, UnderWay
  <1>6. QED
    BY <1>1, <1>3, <1>5

(* A thread whose HELLO is transmitted, or fails, has none under way.      *)
LEMMA FlightEnds ==
  ASSUME HelloTypes, NEW t \in Senders, NEW n \in Nodes, Target(t) = n,
         flight' = [flight EXCEPT ![t] = NoNode], old' = old \ {t}
  PROVE  /\ flight' \in [Senders -> Nodes \cup {NoNode}]
         /\ (\A u \in old : Target(u) # NoNode)'
         /\ \A m \in Nodes : m # n \/ t \in old => UnderWay(m)' = UnderWay(m)
         /\ t \notin old =>
               /\ Cardinality(UnderWay(n)) >= 1
               /\ Cardinality(UnderWay(n)') = Cardinality(UnderWay(n)) - 1
  <1> USE DEF HelloTypes
  <1>1. flight' \in [Senders -> Nodes \cup {NoNode}]
    OBVIOUS
  <1>2. (\A u \in old : Target(u) # NoNode)'
    <2>1. ASSUME NEW u \in old' PROVE flight'[u] # NoNode
      <3>1. u \in old /\ u # t /\ flight[u] # NoNode
        BY DEF Target
      <3>2. u \in Senders => flight'[u] = flight[u]
        BY <3>1
      <3>3. QED
        BY <3>1, <3>2
    <2>2. QED
      BY <2>1 DEF Target
  <1>3. ASSUME NEW m \in Nodes, m # n \/ t \in old PROVE UnderWay(m)' = UnderWay(m)
    BY <1>3, CtrlAssumption DEF UnderWay, Target
  <1>4. ASSUME t \notin old
        PROVE  /\ Cardinality(UnderWay(n)) >= 1
               /\ Cardinality(UnderWay(n)') = Cardinality(UnderWay(n)) - 1
    <2>1. t \in UnderWay(n)
      BY <1>4 DEF UnderWay
    <2>2. UnderWay(n)' = UnderWay(n) \ {t}
      BY <1>4, CtrlAssumption DEF UnderWay, Target
    <2>3. IsFiniteSet(UnderWay(n)) /\ Cardinality(UnderWay(n)) \in Nat
      BY UnderWayFinite
    <2>4. Cardinality(UnderWay(n) \ {t}) = Cardinality(UnderWay(n)) - 1
      BY <2>1, <2>3, FS_RemoveElement
    <2>5. Cardinality(UnderWay(n) \ {t}) \in Nat
      BY <2>3, FS_RemoveElement, FS_CardinalityType
    <2>6. QED
      BY <2>2, <2>3, <2>4, <2>5
  <1>5. QED
    BY <1>1, <1>2, <1>3, <1>4

(* Every step preserves the invariant of the handshake. *)
LEMMA HelloStep == QueueInv /\ HelloInv /\ [Next]_vars => HelloInv'
  <1> SUFFICES ASSUME QueueInv, HelloInv, [Next]_vars
               PROVE  HelloInv'
    OBVIOUS
  <1> USE DEF HelloInv, sockVars, nsVars, writeVars, helloVars
  <1>s. "ns" \in Senders /\ "init" \in Senders /\ Nodes \subseteq Senders
    BY DEF Senders
  <1>d. "ns" \notin Nodes
    BY CtrlAssumption DEF Writers
  <1>e. ASSUME UNCHANGED <<sent, flight, old, said, skewed>>,
               peer' \in Nodes \cup {NoNode},
               npc' = "reply" => peer' \in Nodes /\ flight["ns"] = NoNode
        PROVE  HelloInv'
    BY <1>e DEF HelloTypes, HelloCounted, Target
  <1>1. ASSUME NEW t \in Senders, XmitOk(t) PROVE HelloInv'
    <2> DEFINE n == flight[t]
    <2> USE <1>1 DEF XmitOk
    <2>1. Target(t) = n /\ n \in Nodes
      BY DEF HelloTypes, Target
    <2>2. HelloTypes'
      BY <1>s, <2>1, FlightEnds DEF HelloTypes
    <2>3. ASSUME NEW m \in Nodes \ skewed
          PROVE  sent'[m] = Cardinality(UnderWay(m)') + (IF m \in said' THEN 1 ELSE 0)
      <3>1. sent[m] = Cardinality(UnderWay(m)) + (IF m \in said THEN 1 ELSE 0)
        BY DEF HelloCounted, UnderWay
      <3>2. sent'[m] = sent[m] /\ sent[m] <= 1
        BY DEF HelloTypes
      <3>3. Cardinality(UnderWay(m)) \in Nat
        BY UnderWayFinite
      <3>4. CASE m # n \/ t \in old
        <4>1. UnderWay(m)' = UnderWay(m)
          BY <2>1, <3>4, FlightEnds
        <4>2. m \in said' <=> m \in said
          BY <2>1, <3>4
        <4>3. QED
          BY <3>1, <3>2, <4>1, <4>2
      <3>5. CASE m = n /\ t \notin old
        <4>1. /\ Cardinality(UnderWay(m)) >= 1
              /\ Cardinality(UnderWay(m)') = Cardinality(UnderWay(m)) - 1
          BY <2>1, <3>5, FlightEnds
        <4>2. m \in said'
          BY <2>1, <3>5
        <4>3. m \notin said /\ Cardinality(UnderWay(m)) = 1
          BY <3>1, <3>2, <3>3, <4>1
        <4>4. QED
          BY <3>1, <3>2, <4>1, <4>2, <4>3
      <3>6. QED
        BY <3>4, <3>5
    <2>4. HelloCounted'
      BY <2>3 DEF HelloCounted, UnderWay
    <2>5. QED
      BY <2>2, <2>4
  <1>2. ASSUME NEW t \in Senders, XmitFail(t) PROVE HelloInv'
    <2> DEFINE n == flight[t]
    <2> USE <1>2 DEF XmitFail
    <2>1. Target(t) = n /\ n \in Nodes
      BY DEF HelloTypes, Target
    <2>2. HelloTypes'
      <3>1. /\ flight' \in [Senders -> Nodes \cup {NoNode}]
            /\ (\A u \in old : Target(u) # NoNode)'
        BY <2>1, FlightEnds
      <3>2. sent' \in [Nodes -> Int] /\ \A m \in Nodes : sent'[m] <= 1
        BY <2>1 DEF HelloTypes
      <3>3. flight["ns"] = NoNode => flight'["ns"] = NoNode
        BY <1>s DEF HelloTypes
      <3>4. QED
        BY <3>1, <3>2, <3>3 DEF HelloTypes
    <2>3. ASSUME NEW m \in Nodes \ skewed'
          PROVE  sent'[m] = Cardinality(UnderWay(m)') + (IF m \in said THEN 1 ELSE 0)
      <3>1. sent[m] = Cardinality(UnderWay(m)) + (IF m \in said THEN 1 ELSE 0)
        BY DEF HelloCounted, UnderWay
      <3>2. Cardinality(UnderWay(m)) \in Nat
        BY UnderWayFinite
      <3>3. CASE m # n
        <4>1. UnderWay(m)' = UnderWay(m)
          BY <2>1, <3>3, FlightEnds
        <4>2. sent'[m] = sent[m]
          BY <2>1, <3>3 DEF HelloTypes
        <4>3. QED
          BY <3>1, <4>1, <4>2
      <3>4. CASE m = n
        <4>1. t \notin old
          BY <2>1, <3>4
        <4>2. Cardinality(UnderWay(m)') = Cardinality(UnderWay(m)) - 1
          BY <2>1, <3>4, <4>1, FlightEnds
        <4>3. sent'[m] = sent[m] - 1
          BY <2>1, <3>4 DEF HelloTypes
        <4>4. QED
          BY <3>1, <3>2, <4>2, <4>3
      <3>5. QED
        BY <3>3, <3>4
    <2>4. HelloCounted'
      BY <2>3 DEF HelloCounted, UnderWay
    <2>5. QED
      BY <2>2, <2>4
  <1>3. ASSUME NEW n \in Nodes, HelloWork(n) PROVE HelloInv'
    <2> USE <1>3 DEF HelloWork
    <2>1. CASE UNCHANGED <<sent, flight>>
      BY <1>e, <2>1 DEF HelloTypes
    <2>2. CASE Gate(n, n)
      <3>1. flight[n] = NoNode
        BY DEF Idle
      <3>2. /\ sent' \in [Nodes -> Int] /\ \A m \in Nodes : sent'[m] <= 1
            /\ flight' \in [Senders -> Nodes \cup {NoNode}]
            /\ \A u \in Senders : u # n => flight'[u] = flight[u]
            /\ (\A u \in old : Target(u) # NoNode)'
            /\ HelloCounted'
        BY <1>s, <2>2, <3>1, GateCounts
      <3>3. flight'["ns"] = flight["ns"]
        BY <1>s, <1>d, <3>2
      <3>4. QED
        BY <3>2, <3>3 DEF HelloTypes
    <2>3. QED
      BY <2>1, <2>2
  <1>4. ASSUME NEW n \in Nodes, Bcast(n) PROVE HelloInv'
    <2> USE <1>4 DEF Bcast
    <2>1. CASE UNCHANGED <<sent, flight>>
      BY <1>e, <2>1 DEF HelloTypes
    <2>2. CASE Gate("init", n)
      <3>1. /\ sent' \in [Nodes -> Int] /\ \A m \in Nodes : sent'[m] <= 1
            /\ flight' \in [Senders -> Nodes \cup {NoNode}]
            /\ \A u \in Senders : u # "init" => flight'[u] = flight[u]
            /\ (\A u \in old : Target(u) # NoNode)'
            /\ HelloCounted'
        BY <1>s, <2>2, GateCounts
      <3>2. flight'["ns"] = flight["ns"]
        BY <1>s, <3>1
      <3>3. QED
        BY <3>1, <3>2 DEF HelloTypes
    <2>3. QED
      BY <2>1, <2>2
  <1>5. ASSUME Reply PROVE HelloInv'
    <2> USE <1>5 DEF Reply
    <2>1. peer \in Nodes /\ flight["ns"] = NoNode
      BY DEF HelloTypes
    <2>2. /\ sent' \in [Nodes -> Int] /\ \A m \in Nodes : sent'[m] <= 1
          /\ flight' \in [Senders -> Nodes \cup {NoNode}]
          /\ (\A u \in old : Target(u) # NoNode)'
          /\ HelloCounted'
      <3> DEFINE n == peer
      <3>1. n \in Nodes /\ Gate("ns", n)
        BY <2>1
      <3> HIDE DEF n
      <3>2. QED
        BY <1>s, <2>1, <3>1, GateCounts
    <2>3. QED
      BY <2>2 DEF HelloTypes
  <1>6. ASSUME ReleaseReset PROVE HelloInv'
    <2> USE <1>6 DEF ReleaseReset
    <2>1. HelloTypes'
      BY DEF HelloTypes, Target
    <2>2. \A m \in Nodes : UnderWay(m)' = {}
      BY CtrlAssumption DEF UnderWay, Target
    <2>3. HelloCounted'
      BY <2>2, FS_EmptySet DEF HelloCounted, UnderWay
    <2>4. QED
      BY <2>1, <2>3
  <1>7. ASSUME Recv, QueueTypes PROVE HelloInv'
    <2> USE <1>7 DEF Recv
    <2>1. queue # <<>> => Head(queue) \in Nodes \cup {NoNode}
      BY DEF QueueTypes
    <2>2. QED
      BY <1>e, <2>1 DEF HelloTypes
  <1>8. ASSUME NEW w \in Writers, Writer(w) \/ \E hello \in BOOLEAN : Arrive(w, hello)
        PROVE  HelloInv'
    BY <1>e, <1>8 DEF Writer, Post, AskSignal, Woken, Arrive, HelloTypes
  <1>9. CASE NsRun \/ NsLeave \/ NsInit \/ ReleaseRemove
    BY <1>e, <1>9 DEF NsRun, NsLeave, NsInit, ReleaseRemove, HelloTypes
  <1>10. CASE UNCHANGED vars
    BY <1>e, <1>10 DEF vars, HelloTypes
  <1>11. QED
    BY <1>1, <1>2, <1>3, <1>4, <1>5, <1>6, <1>7, <1>8, <1>9, <1>10
       DEF Next, Hello, NsWorker, QueueInv

(* hello_sent is exact, for any number of neighbours: it counts the HELLOs *)
(* that were sent or are being sent since the control socket was closed    *)
(* last, so no neighbour gets a second one from whichever thread, unless   *)
(* an old HELLO fails after the closing (qrtr_node_enqueue, qrtr_release). *)
THEOREM HelloSafety == Spec => []HelloCounted
  <1>1. HelloInv => HelloCounted
    BY DEF HelloInv
  <1>2. QED
    BY <1>1, QueueInit, QueueStep, HelloInit, HelloStep, PTL DEF Spec
=============================================================================
