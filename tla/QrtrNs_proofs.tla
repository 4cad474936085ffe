---------------------------- MODULE QrtrNs_proofs ---------------------------
(***************************************************************************)
(* Proofs about QrtrNs, for any number of nodes, sockets and services:     *)
(* what observers rely on, and what remains of a closed socket.            *)
(*                                                                         *)
(* What an observer believes, and what a name service still lists, depends *)
(* on the DEL_CLIENT messages that are on their way: a port may be bound   *)
(* again while the closing of its last user still waits in the queue of    *)
(* the control socket.  The invariant follows these messages.              *)
(***************************************************************************)
EXTENDS QrtrNs, FiniteSetTheorems, TLAPS

(* Message p makes the name service of s[1] keep something for socket s: a *)
(* lookup, or a lookup or a server; message p makes it drop everything it  *)
(* keeps for s.                                                            *)
Asks(p, s) == p.cmd = "NEW_LOOKUP" /\ p.from = s
Opens(p, s) ==
    \/ Asks(p, s)
    \/ p.cmd = "NEW_SERVER" /\ <<p.arg.node, p.arg.port>> = s
Closes(p, s) == p.cmd = "DEL_CLIENT" /\ p.arg = s

(* Queue q holds a closing of s, or a lookup; every opening of s in it is  *)
(* closed later; no lookup of s in it is; a closing of s is its first      *)
(* message.                                                                *)
Closing(q, s) == \E i \in DOMAIN q : Closes(q[i], s)
Asked(q, s) == \E i \in DOMAIN q : Asks(q[i], s)
Clean(q, s) ==
    \A i \in DOMAIN q : Opens(q[i], s) => \E j \in DOMAIN q : j > i /\ Closes(q[j], s)
Ordered(q, s) ==
    \A i, j \in DOMAIN q : Asks(q[i], s) /\ Closes(q[j], s) => j < i
ClosesFirst(q, s) == \A j \in DOMAIN q : Closes(q[j], s) => j = 1

(* The closing of a local socket of n, which only n itself can queue. *)
LocalClose(p, n) == p.cmd = "DEL_CLIENT" /\ p.arg[1] = n

(* What may come to n over a link, and what may wait at its control socket:*)
(* lookups are local, and a peer never speaks of n's own sockets.          *)
LinkMsgs(n) ==
    {p \in Msgs :
        /\ p.cmd \notin {"NEW_LOOKUP", "DEL_LOOKUP"}
        /\ p.cmd = "NEW_SERVER" => p.arg.node # n
        /\ ~LocalClose(p, n)}
CtrlMsgs(n) == {p \in Msgs : p.cmd = "NEW_LOOKUP" => p.from[1] = n}

MsgInv ==
    /\ \A m, n \in Nodes : chan[m][n] \in Seq(LinkMsgs(n)) /\ backlog[n][m] \in Seq(LinkMsgs(n))
    /\ \A n \in Nodes : ctrlq[n] \in Seq(CtrlMsgs(n))

FiniteInv == \A n \in Nodes : IsFiniteSet(dir[n])

(* A closed socket has received nothing. *)
SocketInv ==
    \A s \in Sockets : /\ s \in open => s \notin closing
                       /\ s \notin open => view[s] = {}

(* The name service of s keeps a lookup for it, or a lookup or a server. *)
Looks(s) == \E l \in lookups : l.sock = s
Kept(s) == Looks(s) \/ \E v \in dir[s[1]] : <<v.node, v.port>> = s

(* What a closed socket left behind has its DEL_CLIENT still to come. *)
CoverInv ==
    dropped = 0 => \A s \in Sockets \ open :
        /\ s \notin closing => Clean(ctrlq[s[1]], s)
        /\ Kept(s) => s \in closing \/ Closing(ctrlq[s[1]], s)

(* Without a hasty close, the lookups of a socket are handled before it    *)
(* closes, and dropped before anything else is handled.                    *)
OrderInv ==
    raced = 0 => \A s \in Sockets :
        /\ s \in closing => ~Asked(ctrlq[s[1]], s)
        /\ Ordered(ctrlq[s[1]], s)
        /\ Looks(s) => ClosesFirst(ctrlq[s[1]], s)

(* What observer s believes is listed, and it still asks for it; one that  *)
(* took over a port whose closing is still to come believes nothing.       *)
Justified(s) ==
    \A v \in view[s] : v \in dir[s[1]] /\ \E l \in lookups : l.sock = s /\ Wants(l, v)
ViewInv ==
    raced = 0 /\ replaced = 0 /\ missed = 0 =>
        \A s \in open : /\ Closing(ctrlq[s[1]], s) => view[s] = {}
                        /\ Justified(s)

NsInv ==
    /\ TypeOK /\ MsgInv /\ FiniteInv /\ SocketInv
    /\ CoverInv /\ OrderInv /\ ViewInv /\ LookupComplete

-----------------------------------------------------------------------------
(* What the messages carry, by their command. *)
LEMMA MsgFacts ==
    ASSUME NEW p \in Msgs
    PROVE  /\ p.cmd = "HELLO" => p.arg \in Nodes
           /\ p.cmd = "NEW_SERVER" => p.arg \in Servers
           /\ p.cmd = "DEL_CLIENT" => p.arg \in Sockets
           /\ p.cmd \in {"NEW_LOOKUP", "DEL_LOOKUP"} => p.from \in Observers /\ p.arg \in Queries
  <1>1. CASE p \in {Msg("HELLO", Ctrl(n), n) : n \in Nodes} \cup {Msg("BYE", Ctrl(n), n) : n \in Nodes}
    BY <1>1 DEF Msg
  <1>2. CASE p \in {Msg(c, Ctrl(n), v) : c \in {"NEW_SERVER", "DEL_SERVER"}, n \in Nodes, v \in Servers}
    BY <1>2 DEF Msg
  <1>3. CASE p \in {Msg("NEW_SERVER", <<v.node, v.port>>, v) : v \in Servers}
    BY <1>3 DEF Msg
  <1>4. CASE p \in {Msg("DEL_SERVER", s, s) : s \in Providers} \cup {Msg("DEL_CLIENT", s, s) : s \in Sockets}
    BY <1>4 DEF Msg
  <1>5. CASE p \in {Msg(c, s, q) : c \in {"NEW_LOOKUP", "DEL_LOOKUP"}, s \in Observers, q \in Queries}
    BY <1>5 DEF Msg
  <1> QED
    BY <1>1, <1>2, <1>3, <1>4, <1>5 DEF Msgs

(* The messages the programs send are control messages. *)
LEMMA MsgMembers ==
    /\ \A n \in Nodes : Msg("HELLO", Ctrl(n), n) \in Msgs /\ Msg("BYE", Ctrl(n), n) \in Msgs
    /\ \A n \in Nodes, w \in Servers : /\ Msg("NEW_SERVER", Ctrl(n), w) \in Msgs
                                      /\ Msg("DEL_SERVER", Ctrl(n), w) \in Msgs
    /\ \A w \in Servers : Msg("NEW_SERVER", <<w.node, w.port>>, w) \in Msgs
    /\ \A t \in Providers : Msg("DEL_SERVER", t, t) \in Msgs
    /\ \A t \in Sockets : Msg("DEL_CLIENT", t, t) \in Msgs
    /\ \A c \in {"NEW_LOOKUP", "DEL_LOOKUP"}, t \in Observers, q \in Queries : Msg(c, t, q) \in Msgs
  <1>1. /\ {Msg("HELLO", Ctrl(n), n) : n \in Nodes} \subseteq Msgs
        /\ {Msg("BYE", Ctrl(n), n) : n \in Nodes} \subseteq Msgs
        /\ {Msg(c, Ctrl(n), v) : c \in {"NEW_SERVER", "DEL_SERVER"}, n \in Nodes, v \in Servers} \subseteq Msgs
        /\ {Msg("NEW_SERVER", <<v.node, v.port>>, v) : v \in Servers} \subseteq Msgs
        /\ {Msg("DEL_SERVER", s, s) : s \in Providers} \subseteq Msgs
        /\ {Msg("DEL_CLIENT", s, s) : s \in Sockets} \subseteq Msgs
        /\ {Msg(c, s, q) : c \in {"NEW_LOOKUP", "DEL_LOOKUP"}, s \in Observers, q \in Queries} \subseteq Msgs
    BY DEF Msgs
  <1>2. \A n \in Nodes : Msg("HELLO", Ctrl(n), n) \in Msgs
    BY <1>1
  <1>3. \A n \in Nodes : Msg("BYE", Ctrl(n), n) \in Msgs
    BY <1>1
  <1>4. ASSUME NEW n \in Nodes, NEW w \in Servers, NEW c \in {"NEW_SERVER", "DEL_SERVER"}
        PROVE  Msg(c, Ctrl(n), w) \in Msgs
    BY <1>1
  <1>5. ASSUME NEW w \in Servers PROVE Msg("NEW_SERVER", <<w.node, w.port>>, w) \in Msgs
    <2>1. Msg("NEW_SERVER", <<w.node, w.port>>, w) \in
              {Msg("NEW_SERVER", <<v.node, v.port>>, v) : v \in Servers}
      OBVIOUS
    <2>2. {Msg("NEW_SERVER", <<v.node, v.port>>, v) : v \in Servers} \subseteq Msgs
      BY <1>1
    <2> QED
      BY <2>1, <2>2
  <1>6. \A t \in Providers : Msg("DEL_SERVER", t, t) \in Msgs
    BY <1>1
  <1>7. \A t \in Sockets : Msg("DEL_CLIENT", t, t) \in Msgs
    BY <1>1
  <1>8. ASSUME NEW c \in {"NEW_LOOKUP", "DEL_LOOKUP"}, NEW t \in Observers, NEW q \in Queries
        PROVE  Msg(c, t, q) \in Msgs
    BY <1>1
  <1> QED
    BY <1>2, <1>3, <1>4, <1>5, <1>6, <1>7, <1>8

(* A server names the socket it is registered from, and both its parts. *)
LEMMA ServerFacts ==
    ASSUME NEW v \in Servers
    PROVE  /\ <<v.node, v.port>> \in Providers
           /\ v.node \in Nodes
  <1>1. PICK s \in Providers, svc \in Services : v = Server(s, svc)
    BY DEF Servers
  <1>2. s \in Nodes \X Nat
    BY SocketAssumption DEF Sockets
  <1> QED
    BY <1>1, <1>2 DEF Server

LEMMA SocketFacts ==
    ASSUME NEW s \in Sockets
    PROVE  s[1] \in Nodes /\ s = <<s[1], s[2]>>
  BY SocketAssumption

(* SetToSeq() of a finite set is a sequence of its members. *)
LEMMA ListType ==
    ASSUME NEW S, IsFiniteSet(S)
    PROVE  SetToSeq(S) \in Seq(S)
  <1>1. Cardinality(S) \in Nat /\ ExistsBijection(1..Cardinality(S), S)
    BY FS_CardinalityType
  <1>2. PICK f \in [1..Cardinality(S) -> S] : IsInjective(f)
    BY <1>1 DEF ExistsBijection, Bijection, Injection, IsInjective
  <1>3. SetToSeq(S) \in [1..Cardinality(S) -> S]
    BY <1>2 DEF SetToSeq
  <1> QED
    BY <1>1, <1>3

-----------------------------------------------------------------------------
(* Lemmas about queues: a message is appended, or the first one is taken. *)
LEMMA QueueAppend ==
    ASSUME NEW q \in Seq(Msgs), NEW p \in Msgs, NEW s
    PROVE  /\ Closing(Append(q, p), s) <=> Closing(q, s) \/ Closes(p, s)
           /\ Clean(q, s) /\ ~Opens(p, s) => Clean(Append(q, p), s)
           /\ Closes(p, s) => Clean(Append(q, p), s)
  <1> DEFINE r == Append(q, p)
  <1>1. /\ DOMAIN q = 1..Len(q) /\ Len(q) \in Nat
        /\ DOMAIN r = 1..(Len(q) + 1)
        /\ r[Len(q) + 1] = p
        /\ \A i \in 1..Len(q) : r[i] = q[i]
    OBVIOUS
  <1> HIDE DEF r
  <1>2. Closing(r, s) <=> Closing(q, s) \/ Closes(p, s)
    <2>1. ASSUME Closing(r, s) PROVE Closing(q, s) \/ Closes(p, s)
      <3>1. PICK i \in DOMAIN r : Closes(r[i], s)
        BY <2>1 DEF Closing
      <3> QED
        BY <1>1, <3>1 DEF Closing
    <2>2. ASSUME Closing(q, s) PROVE Closing(r, s)
      <3>1. PICK i \in DOMAIN q : Closes(q[i], s)
        BY <2>2 DEF Closing
      <3>2. i \in DOMAIN r /\ r[i] = q[i]
        BY <1>1, <3>1
      <3> QED
        BY <3>1, <3>2 DEF Closing
    <2>3. ASSUME Closes(p, s) PROVE Closing(r, s)
      BY <1>1, <2>3 DEF Closing
    <2> QED
      BY <2>1, <2>2, <2>3
  <1>3. ASSUME Clean(q, s), ~Opens(p, s) PROVE Clean(r, s)
    <2>1. SUFFICES ASSUME NEW i \in DOMAIN r, Opens(r[i], s)
                   PROVE  \E j \in DOMAIN r : j > i /\ Closes(r[j], s)
      BY DEF Clean
    <2>2. i \in DOMAIN q /\ r[i] = q[i]
      BY <1>1, <1>3, <2>1
    <2>3. PICK j \in DOMAIN q : j > i /\ Closes(q[j], s)
      BY <1>3, <2>1, <2>2 DEF Clean
    <2>4. j \in DOMAIN r /\ r[j] = q[j]
      BY <1>1, <2>3
    <2> QED
      BY <2>3, <2>4
  <1>4. ASSUME Closes(p, s) PROVE Clean(r, s)
    <2>1. SUFFICES ASSUME NEW i \in DOMAIN r, Opens(r[i], s)
                   PROVE  \E j \in DOMAIN r : j > i /\ Closes(r[j], s)
      BY DEF Clean
    <2>2. i # Len(q) + 1
      BY <1>1, <1>4, <2>1 DEF Opens, Asks, Closes
    <2>3. Len(q) + 1 > i /\ Len(q) + 1 \in DOMAIN r
      BY <1>1, <2>1, <2>2
    <2> QED
      BY <1>1, <1>4, <2>3
  <1> QED
    BY <1>2, <1>3, <1>4 DEF r

LEMMA QueueTake ==
    ASSUME NEW q \in Seq(Msgs), q # <<>>, NEW s
    PROVE  /\ Head(q) \in Msgs
           /\ Closing(q, s) <=> Closing(Tail(q), s) \/ Closes(Head(q), s)
           /\ Clean(q, s) => Clean(Tail(q), s)
           /\ Clean(q, s) /\ Opens(Head(q), s) => Closing(Tail(q), s)
  <1> DEFINE r == Tail(q)
  <1>1. /\ DOMAIN q = 1..Len(q) /\ Len(q) \in Nat /\ Len(q) > 0
        /\ DOMAIN r = 1..(Len(q) - 1)
        /\ Head(q) = q[1] /\ q[1] \in Msgs
        /\ \A i \in 1..(Len(q) - 1) : r[i] = q[i + 1]
    OBVIOUS
  <1> HIDE DEF r
  <1>2. ASSUME NEW i \in DOMAIN q, i # 1
        PROVE  i - 1 \in DOMAIN r /\ r[i - 1] = q[i]
    <2>1. i - 1 \in 1..(Len(q) - 1)
      BY <1>1, <1>2
    <2>2. r[i - 1] = q[(i - 1) + 1] /\ (i - 1) + 1 = i
      BY <1>1, <2>1
    <2> QED
      BY <1>1, <2>1, <2>2
  <1>3. ASSUME NEW i \in DOMAIN r
        PROVE  i + 1 \in DOMAIN q /\ r[i] = q[i + 1]
    BY <1>1, <1>3
  <1>4. Closing(q, s) <=> Closing(r, s) \/ Closes(Head(q), s)
    <2>1. ASSUME Closing(q, s) PROVE Closing(r, s) \/ Closes(Head(q), s)
      <3>1. PICK i \in DOMAIN q : Closes(q[i], s)
        BY <2>1 DEF Closing
      <3> QED
        BY <1>1, <1>2, <3>1 DEF Closing
    <2>2. ASSUME Closing(r, s) PROVE Closing(q, s)
      <3>1. PICK i \in DOMAIN r : Closes(r[i], s)
        BY <2>2 DEF Closing
      <3> QED
        BY <1>3, <3>1 DEF Closing
    <2>3. ASSUME Closes(Head(q), s) PROVE Closing(q, s)
      BY <1>1, <2>3 DEF Closing
    <2> QED
      BY <2>1, <2>2, <2>3
  <1>5. ASSUME Clean(q, s) PROVE Clean(r, s)
    <2>1. SUFFICES ASSUME NEW i \in DOMAIN r, Opens(r[i], s)
                   PROVE  \E j \in DOMAIN r : j > i /\ Closes(r[j], s)
      BY DEF Clean
    <2>2. i + 1 \in DOMAIN q /\ r[i] = q[i + 1]
      BY <1>3
    <2>3. PICK j \in DOMAIN q : j > i + 1 /\ Closes(q[j], s)
      BY <1>5, <2>1, <2>2 DEF Clean
    <2>4. i \in Nat /\ j \in Nat /\ j # 1 /\ j - 1 > i
      BY <1>1, <2>1, <2>3
    <2>5. j - 1 \in DOMAIN r /\ r[j - 1] = q[j]
      BY <1>2, <2>4
    <2> QED
      BY <2>3, <2>4, <2>5
  <1>6. ASSUME Clean(q, s), Opens(Head(q), s) PROVE Closing(r, s)
    <2>1. PICK j \in DOMAIN q : j > 1 /\ Closes(q[j], s)
      BY <1>1, <1>6 DEF Clean
    <2>2. j # 1
      BY <1>1, <2>1
    <2> QED
      BY <1>2, <2>1, <2>2 DEF Closing
  <1> QED
    BY <1>1, <1>4, <1>5, <1>6 DEF r

(* The order of lookups and closings in a queue. *)
LEMMA OrderAppend ==
    ASSUME NEW q \in Seq(Msgs), NEW p \in Msgs, NEW s
    PROVE  /\ Asked(Append(q, p), s) => Asked(q, s) \/ Asks(p, s)
           /\ Ordered(q, s) /\ (Closes(p, s) => ~Asked(q, s)) => Ordered(Append(q, p), s)
           /\ ClosesFirst(q, s) /\ (Closes(p, s) => q = <<>>) => ClosesFirst(Append(q, p), s)
  <1> DEFINE r == Append(q, p)
  <1>1. /\ DOMAIN q = 1..Len(q) /\ Len(q) \in Nat
        /\ DOMAIN r = 1..(Len(q) + 1)
        /\ r[Len(q) + 1] = p
        /\ \A i \in 1..Len(q) : r[i] = q[i]
        /\ q = <<>> => Len(q) = 0
    OBVIOUS
  <1> HIDE DEF r
  <1>2. ASSUME NEW i \in DOMAIN r, i # Len(q) + 1
        PROVE  i \in DOMAIN q /\ r[i] = q[i]
    BY <1>1, <1>2
  <1>3. ASSUME Asked(r, s) PROVE Asked(q, s) \/ Asks(p, s)
    <2>1. PICK i \in DOMAIN r : Asks(r[i], s)
      BY <1>3 DEF Asked
    <2> QED
      BY <1>1, <1>2, <2>1 DEF Asked
  <1>4. ASSUME Ordered(q, s), Closes(p, s) => ~Asked(q, s) PROVE Ordered(r, s)
    <2>1. SUFFICES ASSUME NEW i \in DOMAIN r, NEW j \in DOMAIN r, Asks(r[i], s), Closes(r[j], s)
                   PROVE  j < i
      BY DEF Ordered
    <2>2. CASE i # Len(q) + 1 /\ j # Len(q) + 1
      BY <1>2, <1>4, <2>1, <2>2 DEF Ordered
    <2>3. CASE i # Len(q) + 1 /\ j = Len(q) + 1
      BY <1>1, <1>2, <1>4, <2>1, <2>3 DEF Asked
    <2>4. CASE i = Len(q) + 1
      <3>1. j # Len(q) + 1
        BY <1>1, <2>1, <2>4 DEF Asks, Closes
      <3> QED
        BY <1>1, <2>1, <2>4, <3>1
    <2> QED
      BY <2>2, <2>3, <2>4
  <1>5. ASSUME ClosesFirst(q, s), Closes(p, s) => q = <<>> PROVE ClosesFirst(r, s)
    <2>1. SUFFICES ASSUME NEW j \in DOMAIN r, Closes(r[j], s) PROVE j = 1
      BY DEF ClosesFirst
    <2>2. CASE j # Len(q) + 1
      BY <1>2, <1>5, <2>1, <2>2 DEF ClosesFirst
    <2>3. CASE j = Len(q) + 1
      BY <1>1, <1>5, <2>1, <2>3
    <2> QED
      BY <2>2, <2>3
  <1> QED
    BY <1>3, <1>4, <1>5 DEF r

LEMMA OrderTake ==
    ASSUME NEW q \in Seq(Msgs), q # <<>>, NEW s
    PROVE  /\ Asked(Tail(q), s) => Asked(q, s)
           /\ Ordered(q, s) => Ordered(Tail(q), s)
           /\ Ordered(q, s) /\ Asks(Head(q), s) => ~Closing(q, s)
           /\ ClosesFirst(q, s) => ~Closing(Tail(q), s)
           /\ ClosesFirst(q, s) /\ Closing(q, s) => Closes(Head(q), s)
  <1> DEFINE r == Tail(q)
  <1>1. /\ DOMAIN q = 1..Len(q) /\ Len(q) \in Nat /\ Len(q) > 0
        /\ DOMAIN r = 1..(Len(q) - 1)
        /\ Head(q) = q[1]
        /\ \A i \in 1..(Len(q) - 1) : r[i] = q[i + 1]
    OBVIOUS
  <1> HIDE DEF r
  <1>2. ASSUME NEW i \in DOMAIN r
        PROVE  i \in Nat \ {0} /\ i + 1 \in DOMAIN q /\ r[i] = q[i + 1]
    BY <1>1, <1>2
  <1>3. ASSUME Asked(r, s) PROVE Asked(q, s)
    BY <1>2, <1>3 DEF Asked
  <1>4. ASSUME Ordered(q, s) PROVE Ordered(r, s)
    <2>1. SUFFICES ASSUME NEW i \in DOMAIN r, NEW j \in DOMAIN r, Asks(r[i], s), Closes(r[j], s)
                   PROVE  j < i
      BY DEF Ordered
    <2>2. j + 1 < i + 1
      BY <1>2, <1>4, <2>1 DEF Ordered
    <2> QED
      BY <1>2, <2>2
  <1>5. ASSUME Ordered(q, s), Asks(Head(q), s), Closing(q, s) PROVE FALSE
    <2>1. PICK j \in DOMAIN q : Closes(q[j], s)
      BY <1>5 DEF Closing
    <2>2. j < 1
      BY <1>1, <1>5, <2>1 DEF Ordered
    <2> QED
      BY <1>1, <2>2
  <1>6. ASSUME ClosesFirst(q, s), Closing(r, s) PROVE FALSE
    <2>1. PICK j \in DOMAIN r : Closes(r[j], s)
      BY <1>6 DEF Closing
    <2>2. j + 1 = 1
      BY <1>2, <1>6, <2>1 DEF ClosesFirst
    <2> QED
      BY <1>2, <2>2
  <1>7. ASSUME ClosesFirst(q, s), Closing(q, s) PROVE Closes(Head(q), s)
    BY <1>1, <1>7 DEF ClosesFirst, Closing
  <1> QED
    BY <1>3, <1>4, <1>5, <1>6, <1>7 DEF r

-----------------------------------------------------------------------------
(* Messages put on the links. *)
ChanOK(c) ==
    /\ c \in [Nodes -> [Nodes -> Seq(Msgs)]]
    /\ \A m, n \in Nodes : c[m][n] \in Seq(LinkMsgs(n))

LEMMA LinkFacts ==
    ASSUME NEW n
    PROVE  /\ LinkMsgs(n) \subseteq Msgs /\ LinkMsgs(n) \subseteq CtrlMsgs(n)
           /\ CtrlMsgs(n) \subseteq Msgs
           /\ Seq(LinkMsgs(n)) \subseteq Seq(Msgs)
           /\ Seq(CtrlMsgs(n)) \subseteq Seq(Msgs)
  <1>1. /\ LinkMsgs(n) \subseteq Msgs /\ LinkMsgs(n) \subseteq CtrlMsgs(n)
        /\ CtrlMsgs(n) \subseteq Msgs
    BY DEF LinkMsgs, CtrlMsgs
  <1> QED
    BY <1>1

(* A table of two nodes, updated at one entry or in both directions. *)
LEMMA TableUpdate ==
    ASSUME NEW S, NEW f \in [Nodes -> [Nodes -> S]],
           NEW m \in Nodes, NEW n \in Nodes, NEW x \in S,
           NEW g, g = [f EXCEPT ![m][n] = x]
    PROVE  g \in [Nodes -> [Nodes -> S]]
  OBVIOUS

LEMMA TableUpdates ==
    ASSUME NEW S, NEW f \in [Nodes -> [Nodes -> S]],
           NEW m \in Nodes, NEW n \in Nodes, NEW x \in S, NEW y \in S,
           NEW g, g = [f EXCEPT ![m][n] = x, ![n][m] = y]
    PROVE  g \in [Nodes -> [Nodes -> S]]
  <1> DEFINE h == [f EXCEPT ![m][n] = x]
             k == [h EXCEPT ![n][m] = y]
  <1>1. h \in [Nodes -> [Nodes -> S]]
    BY TableUpdate
  <1> HIDE DEF h
  <1>2. k \in [Nodes -> [Nodes -> S]]
    BY <1>1, TableUpdate
  <1>3. g = k
    BY DEF h
  <1> HIDE DEF k
  <1> QED
    BY <1>2, <1>3

(* One link's queue is replaced by messages fit for it. *)
LEMMA ChanUpdate ==
    ASSUME NEW c, ChanOK(c), NEW m \in Nodes, NEW n \in Nodes, NEW q \in Seq(LinkMsgs(n)),
           NEW d, d = [c EXCEPT ![m][n] = q]
    PROVE  ChanOK(d)
  <1>1. q \in Seq(Msgs)
    BY LinkFacts
  <1>2. d \in [Nodes -> [Nodes -> Seq(Msgs)]]
    BY <1>1 DEF ChanOK
  <1>3. ASSUME NEW a \in Nodes, NEW b \in Nodes PROVE d[a][b] \in Seq(LinkMsgs(b))
    BY DEF ChanOK
  <1> QED
    BY <1>2, <1>3 DEF ChanOK

LEMMA EnqueueKeeps ==
    ASSUME ChanOK(chan), NEW n \in Nodes, NEW to, NEW msgs \in Seq(Msgs),
           \A m \in Nodes : m \in to => msgs \in Seq(LinkMsgs(m))
    PROVE  ChanOK(Enqueue(n, to, msgs))
  <1> DEFINE c == Enqueue(n, to, msgs)
  <1>1. c \in [Nodes -> [Nodes -> Seq(Msgs)]]
    BY DEF ChanOK, Enqueue
  <1>2. ASSUME NEW a \in Nodes, NEW b \in Nodes PROVE c[a][b] \in Seq(LinkMsgs(b))
    <2>1. chan[a][b] \in Seq(LinkMsgs(b))
      BY DEF ChanOK
    <2>2. c[a][b] = chan[a][b] \/ (b \in to /\ c[a][b] = chan[a][b] \o msgs)
      BY DEF ChanOK, Enqueue
    <2>3. ASSUME b \in to PROVE chan[a][b] \o msgs \in Seq(LinkMsgs(b))
      <3>1. msgs \in Seq(LinkMsgs(b))
        BY <2>3
      <3> QED
        BY <2>1, <3>1
    <2> QED
      BY <2>1, <2>2, <2>3
  <1> QED
    BY <1>1, <1>2 DEF ChanOK

(* qrtr_bcast_enqueue() of messages fit for every other node. *)
LEMMA BroadcastKeeps ==
    ASSUME TypeOK, ChanOK(chan), NEW n \in Nodes, NEW msgs \in Seq(Msgs),
           \A m \in Nodes \ {n} : msgs \in Seq(LinkMsgs(m)),
           Broadcast(n, msgs)
    PROVE  /\ ChanOK(chan')
           /\ failed' \in {0, 1} /\ (failed' = 0 => failed = 0)
  <1>1. PICK to \in SUBSET BcastTargets(n) : chan' = Enqueue(n, to, msgs)
    BY DEF Broadcast
  <1>2. \A m \in Nodes : m \in to => msgs \in Seq(LinkMsgs(m))
    BY DEF BcastTargets
  <1>3. ChanOK(chan')
    BY <1>1, <1>2, EnqueueKeeps
  <1>4. failed' \in {0, 1} /\ (failed' = 0 => failed = 0)
    BY DEF Broadcast, TypeOK
  <1> QED
    BY <1>3, <1>4

-----------------------------------------------------------------------------
(* lookup_notify(): whom it tells, and that it tells everybody unless a    *)
(* notification is missed.                                                 *)
LEMMA NotifyNewFacts ==
    ASSUME TypeOK, NEW n \in Nodes, NEW ls, NEW added \in SUBSET Servers, NotifyNew(n, ls, added)
    PROVE  /\ view' \in [Sockets -> SUBSET Servers]
           /\ missed' \in {0, 1} /\ (missed' = 0 => missed = 0)
           /\ \A s \in Sockets : view[s] \subseteq view'[s]
           /\ \A s \in Sockets : \A v \in view'[s] :
                 \/ v \in view[s]
                 \/ /\ v \in added /\ s[1] = n /\ s \in open
                    /\ \E l \in ls : l.sock = s /\ Wants(l, v)
           /\ missed' = 0 => \A s \in Observers : s[1] = n /\ s \in open =>
                 \A v \in added : (\E l \in ls : l.sock = s /\ Wants(l, v)) => v \in view'[s]
  <1> DEFINE R == Reached(n, ls, added)
  <1>1. PICK told \in SUBSET R :
          /\ Notify(R, told)
          /\ view' = [s \in Sockets |-> view[s] \cup {v \in added : <<s, v>> \in told}]
    BY DEF NotifyNew
  <1>2. ASSUME NEW s, NEW v
        PROVE  <<s, v>> \in R <=> /\ s \in Observers /\ v \in added /\ s[1] = n /\ s \in open
                                  /\ \E l \in ls : l.sock = s /\ Wants(l, v)
    BY DEF Reached
  <1> HIDE DEF R
  <1>3. /\ missed' \in {0, 1} /\ (missed' = 0 => missed = 0)
        /\ missed' = 0 => told = R
    BY <1>1 DEF Notify, TypeOK
  <1>4. view' \in [Sockets -> SUBSET Servers] /\ \A s \in Sockets : view[s] \subseteq view'[s]
    BY <1>1 DEF TypeOK
  <1>5. ASSUME NEW s \in Sockets, NEW v \in view'[s]
        PROVE  v \in view[s] \/ <<s, v>> \in R
    BY <1>1
  <1>6. ASSUME missed' = 0, NEW s \in Observers, NEW v \in added, <<s, v>> \in R
        PROVE  v \in view'[s]
    <2>1. s \in Sockets
      BY DEF Sockets
    <2> QED
      BY <1>1, <1>3, <1>6, <2>1
  <1> QED
    BY <1>2, <1>3, <1>4, <1>5, <1>6

LEMMA NotifyDelFacts ==
    ASSUME TypeOK, NEW n \in Nodes, NEW ls, NEW gone \in SUBSET Servers, NotifyDel(n, ls, gone)
    PROVE  /\ view' \in [Sockets -> SUBSET Servers]
           /\ missed' \in {0, 1} /\ (missed' = 0 => missed = 0)
           /\ \A s \in Sockets : view'[s] \subseteq view[s]
           /\ \A s \in Sockets : \A v \in view[s] : v \notin view'[s] => v \in gone /\ s[1] = n
           /\ missed' = 0 => \A s \in Observers : s[1] = n /\ s \in open =>
                 \A v \in gone : (\E l \in ls : l.sock = s /\ Wants(l, v)) => v \notin view'[s]
  <1> DEFINE R == Reached(n, ls, gone)
  <1>1. PICK told \in SUBSET R :
          /\ Notify(R, told)
          /\ view' = [s \in Sockets |-> {v \in view[s] : <<s, v>> \notin told}]
    BY DEF NotifyDel
  <1>2. ASSUME NEW s, NEW v
        PROVE  <<s, v>> \in R <=> /\ s \in Observers /\ v \in gone /\ s[1] = n /\ s \in open
                                  /\ \E l \in ls : l.sock = s /\ Wants(l, v)
    BY DEF Reached
  <1> HIDE DEF R
  <1>3. /\ missed' \in {0, 1} /\ (missed' = 0 => missed = 0)
        /\ missed' = 0 => told = R
    BY <1>1 DEF Notify, TypeOK
  <1>4. view' \in [Sockets -> SUBSET Servers] /\ \A s \in Sockets : view'[s] \subseteq view[s]
    BY <1>1 DEF TypeOK
  <1>5. ASSUME NEW s \in Sockets, NEW v \in view[s], v \notin view'[s]
        PROVE  <<s, v>> \in R
    BY <1>1, <1>5
  <1>6. ASSUME missed' = 0, NEW s \in Observers, NEW v \in gone, <<s, v>> \in R
        PROVE  v \notin view'[s]
    <2>1. s \in Sockets
      BY DEF Sockets
    <2> QED
      BY <1>1, <1>3, <1>6, <2>1
  <1> QED
    BY <1>2, <1>3, <1>4, <1>5, <1>6

-----------------------------------------------------------------------------
(* The type invariant in parts, for the steps that change only some. *)
DirType ==
    /\ dir \in [Nodes -> SUBSET Servers]
    /\ lookups \subseteq {Lookup(s, q) : s \in Observers, q \in Queries}
    /\ view \in [Sockets -> SUBSET Servers]
SockType == open \subseteq Sockets /\ closing \subseteq Sockets /\ multi \subseteq Sockets
NetType == ctrlq \in [Nodes -> Seq(Msgs)] /\ chan \in [Nodes -> [Nodes -> Seq(Msgs)]]
LinkType ==
    /\ backlog \in [Nodes -> [Nodes -> Seq(Msgs)]]
    /\ link \in [Nodes -> [Nodes -> LinkStates]]
    /\ helloSent \in [Nodes -> [Nodes -> BOOLEAN]]
    /\ helloRcvd \in [Nodes -> [Nodes -> BOOLEAN]]
    /\ known \in [Nodes -> [Nodes -> BOOLEAN]]
HistType ==
    /\ failed \in {0, 1} /\ dropped \in {0, 1} /\ missed \in {0, 1}
    /\ raced \in {0, 1} /\ replaced \in {0, 1}

LEMMA TypeParts ==
    /\ TypeOK <=> DirType /\ SockType /\ NetType /\ LinkType /\ HistType
    /\ TypeOK' <=> DirType' /\ SockType' /\ NetType' /\ LinkType' /\ HistType'
  BY DEF TypeOK, DirType, SockType, NetType, LinkType, HistType

LEMMA TypeSame ==
    /\ LinkType /\ UNCHANGED linkVars => LinkType'
    /\ SockType /\ UNCHANGED sockVars => SockType'
    /\ HistType /\ UNCHANGED histVars => HistType'
  BY DEF LinkType, linkVars, SockType, sockVars, HistType, histVars

LEMMA ChanMeans == NsInv => ChanOK(chan)
  BY DEF NsInv, TypeOK, MsgInv, ChanOK

(* A lookup counts when its socket is open and no closing of the port is   *)
(* still to be handled.                                                    *)
LEMMA CurrentMeans ==
    ASSUME NEW l
    PROVE  Current(l) <=> /\ l.sock \in open /\ l.sock \notin closing
                          /\ ~Closing(ctrlq[l.sock[1]], l.sock)
  BY DEF Current, Leaving, Closing, Closes

(* Steps that only add messages to the queues of the control sockets. *)
Harmless(p, n) ==
    /\ p \in CtrlMsgs(n)
    /\ ~LocalClose(p, n)
    /\ \A s \in Sockets \ open : s[1] = n => ~Opens(p, s)

LEMMA LinkHarmless ==
    ASSUME NEW n \in Nodes, NEW p \in LinkMsgs(n)
    PROVE  Harmless(p, n)
  BY LinkFacts DEF LinkMsgs, Harmless, Opens, Asks

(* What the invariant says of the sockets, which queues may disturb. *)
QueueInv == SocketInv /\ CoverInv /\ OrderInv /\ ViewInv /\ LookupComplete

LEMMA GrowStep ==
    ASSUME NsInv, UNCHANGED <<dir, lookups, view, open, closing, dropped, missed, replaced>>,
           failed' = 0 => failed = 0, raced' = 0 => raced = 0,
           \A n \in Nodes : \/ ctrlq'[n] = ctrlq[n]
                            \/ \E p : Harmless(p, n) /\ ctrlq'[n] = Append(ctrlq[n], p)
    PROVE  QueueInv'
  <1>1. ASSUME NEW n \in Nodes PROVE ctrlq[n] \in Seq(Msgs)
    BY LinkFacts DEF NsInv, MsgInv
  <1>2. ASSUME NEW s \in Sockets
        PROVE  /\ Closing(ctrlq'[s[1]], s) <=> Closing(ctrlq[s[1]], s)
               /\ s \notin open /\ Clean(ctrlq[s[1]], s) => Clean(ctrlq'[s[1]], s)
               /\ s \notin open /\ ~Asked(ctrlq[s[1]], s) => ~Asked(ctrlq'[s[1]], s)
               /\ Ordered(ctrlq[s[1]], s) => Ordered(ctrlq'[s[1]], s)
               /\ ClosesFirst(ctrlq[s[1]], s) => ClosesFirst(ctrlq'[s[1]], s)
    <2> DEFINE q == ctrlq[s[1]]
    <2>1. s[1] \in Nodes /\ q \in Seq(Msgs)
      BY <1>1, SocketFacts
    <2>2. CASE ctrlq'[s[1]] = q
      BY <2>2
    <2>3. ASSUME NEW p, Harmless(p, s[1]), ctrlq'[s[1]] = Append(q, p)
          PROVE  /\ Closing(ctrlq'[s[1]], s) <=> Closing(q, s)
                 /\ s \notin open /\ Clean(q, s) => Clean(ctrlq'[s[1]], s)
                 /\ s \notin open /\ ~Asked(q, s) => ~Asked(ctrlq'[s[1]], s)
                 /\ Ordered(q, s) => Ordered(ctrlq'[s[1]], s)
                 /\ ClosesFirst(q, s) => ClosesFirst(ctrlq'[s[1]], s)
      <3>1. /\ p \in Msgs /\ ~Closes(p, s)
            /\ s \notin open => ~Opens(p, s) /\ ~Asks(p, s)
        BY <2>1, <2>3, LinkFacts DEF Harmless, LocalClose, Closes, Opens
      <3> QED
        BY <2>1, <2>3, <3>1, QueueAppend, OrderAppend
    <2> QED
      BY <2>1, <2>2, <2>3
  <1>3. SocketInv'
    BY DEF NsInv, SocketInv
  <1>4. CoverInv'
    BY <1>2 DEF NsInv, CoverInv, Kept, Looks
  <1>5. OrderInv'
    BY <1>2 DEF NsInv, OrderInv, SocketInv, Looks
  <1>6. ViewInv'
    <2>1. open \subseteq Sockets
      BY DEF NsInv, TypeOK
    <2> QED
      BY <1>2, <2>1 DEF NsInv, ViewInv, Justified
  <1>7. LookupComplete'
    <2>1. SUFFICES ASSUME failed' = 0, dropped = 0, missed = 0, NEW l \in lookups, Current(l)'
                   PROVE  \A v \in dir[l.sock[1]] : Wants(l, v) => v \in view[l.sock]
      BY DEF LookupComplete
    <2>2. l.sock \in open /\ l.sock \notin closing /\ ~Closing(ctrlq'[l.sock[1]], l.sock)
      BY <2>1 DEF Current, Leaving, Closing, Closes
    <2>3. l.sock \in Sockets
      BY <2>2 DEF NsInv, TypeOK
    <2>4. Current(l)
      BY <1>2, <2>2, <2>3, CurrentMeans
    <2> QED
      BY <2>1, <2>4 DEF NsInv, LookupComplete
  <1> QED
    BY <1>3, <1>4, <1>5, <1>6, <1>7 DEF QueueInv

(* The shape of a step that leaves the directories alone. *)
LEMMA PostTypes ==
    ASSUME NsInv, NEW n \in Nodes, NEW p \in CtrlMsgs(n),
           ctrlq' = [ctrlq EXCEPT ![n] = Append(@, p)]
    PROVE  /\ ctrlq' \in [Nodes -> Seq(Msgs)]
           /\ \A k \in Nodes : ctrlq'[k] \in Seq(CtrlMsgs(k))
           /\ ctrlq'[n] = Append(ctrlq[n], p)
           /\ \A k \in Nodes \ {n} : ctrlq'[k] = ctrlq[k]
  <1>1. p \in Msgs
    BY LinkFacts
  <1>2. ctrlq' \in [Nodes -> Seq(Msgs)]
    BY <1>1 DEF NsInv, TypeOK
  <1>3. ctrlq'[n] = Append(ctrlq[n], p) /\ \A k \in Nodes \ {n} : ctrlq'[k] = ctrlq[k]
    BY DEF NsInv, TypeOK
  <1>4. ASSUME NEW k \in Nodes PROVE ctrlq'[k] \in Seq(CtrlMsgs(k))
    <2>1. ctrlq[k] \in Seq(CtrlMsgs(k))
      BY DEF NsInv, MsgInv
    <2> QED
      BY <1>3, <2>1
  <1> QED
    BY <1>2, <1>3, <1>4

(* A message posted to the own control socket by an open socket. *)
LEMMA AskStep ==
    ASSUME NsInv, NEW n \in Nodes, NEW p, Harmless(p, n), Post(n, p),
           UNCHANGED <<dir, lookups, view, open, closing, chan, linkVars, histVars>>,
           multi' \subseteq Sockets
    PROVE  NsInv'
  <1>1. p \in CtrlMsgs(n)
    BY DEF Harmless
  <1>2. /\ ctrlq' \in [Nodes -> Seq(Msgs)]
        /\ \A k \in Nodes : ctrlq'[k] \in Seq(CtrlMsgs(k))
        /\ ctrlq'[n] = Append(ctrlq[n], p)
        /\ \A k \in Nodes \ {n} : ctrlq'[k] = ctrlq[k]
    BY <1>1, PostTypes DEF Post
  <1>3. TypeOK'
    BY <1>2 DEF NsInv, TypeOK, linkVars, histVars
  <1>4. MsgInv' /\ FiniteInv'
    BY <1>2 DEF NsInv, MsgInv, FiniteInv, linkVars
  <1>5. \A k \in Nodes : \/ ctrlq'[k] = ctrlq[k]
                         \/ \E r : Harmless(r, k) /\ ctrlq'[k] = Append(ctrlq[k], r)
    BY <1>2
  <1>6. QueueInv'
    BY <1>5, GrowStep DEF histVars
  <1> QED
    BY <1>3, <1>4, <1>6 DEF NsInv, QueueInv

LEMMA AskNewServerStep ==
    ASSUME NsInv, NEW s \in Providers, NEW svc \in Services, AskNewServer(s, svc)
    PROVE  NsInv'
  <1> DEFINE v == Server(s, svc)
             p == Msg("NEW_SERVER", s, v)
  <1>1. s \in Sockets /\ s[1] \in Nodes /\ s = <<s[1], s[2]>> /\ s \in open
    BY SocketFacts DEF Sockets, AskNewServer
  <1>2. v \in Servers /\ <<v.node, v.port>> = s
    BY <1>1 DEF Servers, Server
  <1>3. p \in Msgs
    <2>1. p = Msg("NEW_SERVER", <<v.node, v.port>>, v)
      BY <1>2
    <2>2. Msg("NEW_SERVER", <<v.node, v.port>>, v) \in Msgs
      BY <1>2, MsgMembers
    <2> QED
      BY <2>1, <2>2
  <1>4. p.cmd = "NEW_SERVER" /\ p.arg = v
    BY DEF Msg
  <1> HIDE DEF p, v
  <1>5. Harmless(p, s[1])
    BY <1>1, <1>2, <1>3, <1>4 DEF Harmless, CtrlMsgs, LocalClose, Opens, Asks
  <1>6. multi' \subseteq Sockets
    BY <1>1 DEF AskNewServer, NsInv, TypeOK
  <1> QED
    BY <1>1, <1>5, <1>6, AskStep DEF AskNewServer, p, v

LEMMA AskDelServerStep ==
    ASSUME NsInv, NEW s \in Providers, AskDelServer(s)
    PROVE  NsInv'
  <1> DEFINE p == Msg("DEL_SERVER", s, s)
  <1>1. s \in Sockets /\ s[1] \in Nodes
    BY SocketFacts DEF Sockets
  <1>2. p \in Msgs
    BY MsgMembers
  <1>3. p.cmd = "DEL_SERVER"
    BY DEF Msg
  <1> HIDE DEF p
  <1>4. Harmless(p, s[1])
    BY <1>2, <1>3 DEF Harmless, CtrlMsgs, LocalClose, Opens, Asks
  <1>5. multi' \subseteq Sockets
    BY DEF AskDelServer, NsInv, TypeOK, sockVars
  <1> QED
    BY <1>1, <1>4, <1>5, AskStep DEF AskDelServer, sockVars, p

LEMMA AskLookupStep ==
    ASSUME NsInv, NEW s \in Observers, NEW cmd, NEW q \in Queries, AskLookup(s, cmd, q)
    PROVE  NsInv'
  <1> DEFINE p == Msg(cmd, s, q)
  <1>1. s \in Sockets /\ s[1] \in Nodes /\ s \in open
    BY SocketFacts DEF Sockets, AskLookup
  <1>2. p \in Msgs /\ cmd \in {"NEW_LOOKUP", "DEL_LOOKUP"}
    BY MsgMembers DEF AskLookup
  <1>3. p.cmd = cmd /\ p.from = s
    BY DEF Msg
  <1> HIDE DEF p
  <1>4. Harmless(p, s[1])
    BY <1>1, <1>2, <1>3 DEF Harmless, CtrlMsgs, LocalClose, Opens, Asks
  <1>5. multi' \subseteq Sockets
    BY DEF AskLookup, NsInv, TypeOK, sockVars
  <1> QED
    BY <1>1, <1>4, <1>5, AskStep DEF AskLookup, sockVars, p


(* A new socket takes a port: what was kept for the last one is closing. *)
LEMMA BindStep ==
    ASSUME NsInv, NEW s \in Sockets, Bind(s)
    PROVE  NsInv'
  <1>1. /\ s \notin open /\ s \notin closing /\ open' = open \cup {s}
        /\ UNCHANGED <<dir, lookups, view, closing, multi, ctrlq, chan, backlog, link, helloSent,
                       helloRcvd, known, failed, dropped, missed, raced, replaced>>
    BY DEF Bind, linkVars, histVars
  <1>2. TypeOK' /\ MsgInv' /\ FiniteInv'
    BY <1>1 DEF NsInv, TypeOK, MsgInv, FiniteInv
  <1>3. SocketInv' /\ OrderInv' /\ CoverInv'
    BY <1>1 DEF NsInv, SocketInv, OrderInv, CoverInv, Kept, Looks
  <1>4. ViewInv'
    BY <1>1 DEF NsInv, SocketInv, ViewInv, Justified
  <1>5. LookupComplete'
    <2>1. SUFFICES ASSUME failed = 0, dropped = 0, missed = 0, NEW l \in lookups, Current(l)'
                   PROVE  \A v \in dir[l.sock[1]] : Wants(l, v) => v \in view[l.sock]
      BY <1>1 DEF LookupComplete
    <2>2. /\ l.sock \in open' /\ l.sock \notin closing
          /\ ~Closing(ctrlq[l.sock[1]], l.sock)
      BY <1>1, <2>1 DEF Current, Leaving, Closing, Closes
    <2>3. CASE l.sock = s
      BY <1>1, <2>1, <2>2, <2>3 DEF NsInv, CoverInv, Kept, Looks
    <2>4. CASE l.sock # s
      <3>1. Current(l)
        BY <1>1, <2>2, <2>4, CurrentMeans
      <3> QED
        BY <2>1, <3>1 DEF NsInv, LookupComplete
    <2> QED
      BY <2>3, <2>4
  <1> QED
    BY <1>2, <1>3, <1>4, <1>5 DEF NsInv

(* A socket that closes, before its DEL_CLIENT reaches the name service.   *)
LEMMA LeaveStep ==
    ASSUME NsInv, NEW s \in Sockets, s \in open,
           open' = open \ {s}, Forget(s),
           \/ closing' = closing \cup {s} /\ dropped' = dropped
           \/ closing' = closing /\ dropped' = 1,
           ChanOK(chan'), failed' \in {0, 1}, failed' = 0 => failed = 0,
           (raced' = raced /\ (s \in closing' => ctrlq[s[1]] = <<>>)) \/ raced' = 1,
           UNCHANGED <<dir, lookups, ctrlq, linkVars, missed, replaced>>
    PROVE  NsInv'
  <1>1. /\ UNCHANGED <<dir, lookups, ctrlq, backlog, link, helloSent, helloRcvd, known,
                       missed, replaced>>
        /\ s \notin closing
    BY DEF linkVars, NsInv, SocketInv
  <1>2. /\ view' \in [Sockets -> SUBSET Servers] /\ view'[s] = {}
        /\ \A t \in Sockets \ {s} : view'[t] = view[t]
        /\ open \subseteq Sockets /\ open' \subseteq Sockets /\ closing' \subseteq Sockets
        /\ multi' \subseteq Sockets
        /\ dropped' \in {0, 1} /\ raced' \in {0, 1}
    BY DEF NsInv, TypeOK, Forget
  <1>3. TypeOK'
    <2>1. DirType /\ SockType /\ NetType /\ LinkType /\ HistType
      BY TypeParts DEF NsInv
    <2>2. DirType' /\ SockType'
      BY <1>1, <1>2, <2>1 DEF DirType, SockType
    <2>3. NetType' /\ HistType'
      BY <1>1, <1>2, <2>1 DEF NetType, HistType, ChanOK
    <2> QED
      BY <2>1, <2>2, <2>3, TypeSame, TypeParts
  <1>4. MsgInv' /\ FiniteInv'
    BY <1>1 DEF NsInv, MsgInv, FiniteInv, ChanOK
  <1>5. SocketInv'
    BY <1>1, <1>2 DEF NsInv, SocketInv
  <1>6. CoverInv'
    <2>1. SUFFICES ASSUME dropped' = 0, NEW t \in Sockets, t \notin open'
                   PROVE  /\ t \notin closing' => Clean(ctrlq[t[1]], t)
                          /\ Kept(t) => t \in closing' \/ Closing(ctrlq[t[1]], t)
      BY <1>1 DEF CoverInv, Kept, Looks
    <2>2. dropped = 0 /\ closing' = closing \cup {s}
      BY <2>1
    <2>3. CASE t = s
      BY <2>2, <2>3
    <2>4. CASE t # s
      BY <2>1, <2>2, <2>4 DEF NsInv, CoverInv
    <2> QED
      BY <2>3, <2>4
  <1>7. OrderInv'
    <2>1. SUFFICES ASSUME raced' = 0, NEW t \in Sockets
                   PROVE  /\ t \in closing' => ~Asked(ctrlq[t[1]], t)
                          /\ Ordered(ctrlq[t[1]], t)
                          /\ Looks(t) => ClosesFirst(ctrlq[t[1]], t)
      BY <1>1 DEF OrderInv, Looks
    <2>2. /\ raced = 0 /\ (s \in closing' => ctrlq[s[1]] = <<>>)
          /\ t \in closing => ~Asked(ctrlq[t[1]], t)
          /\ Ordered(ctrlq[t[1]], t)
          /\ Looks(t) => ClosesFirst(ctrlq[t[1]], t)
      BY <2>1 DEF NsInv, OrderInv
    <2>3. ~Asked(<<>>, s)
      BY DEF Asked
    <2> QED
      BY <2>2, <2>3
  <1>8. ViewInv'
    <2>1. raced' = 0 => raced = 0
      OBVIOUS
    <2> QED
      BY <1>1, <1>2, <2>1 DEF NsInv, ViewInv, Justified
  <1>9. LookupComplete'
    <2>1. SUFFICES ASSUME failed' = 0, dropped' = 0, missed = 0, NEW l \in lookups, Current(l)'
                   PROVE  \A v \in dir[l.sock[1]] : Wants(l, v) => v \in view'[l.sock]
      BY <1>1 DEF LookupComplete
    <2>2. /\ l.sock \in open /\ l.sock # s /\ l.sock \notin closing
          /\ ~Closing(ctrlq[l.sock[1]], l.sock)
      BY <1>1, <2>1 DEF Current, Leaving, Closing, Closes
    <2>3. Current(l) /\ view'[l.sock] = view[l.sock]
      BY <1>2, <2>2, CurrentMeans
    <2> QED
      BY <2>1, <2>3 DEF NsInv, LookupComplete
  <1> QED
    BY <1>3, <1>4, <1>5, <1>6, <1>7, <1>8, <1>9 DEF NsInv

(* qrtr_send_del_client() broadcasts, or finds no memory. *)
LEMMA CloseBcastStep ==
    ASSUME NsInv, NEW s \in Sockets, CloseBcast(s)
    PROVE  NsInv'
  <1> DEFINE p == Msg("DEL_CLIENT", s, s)
  <1>1. p \in Msgs /\ p.cmd = "DEL_CLIENT" /\ p.arg = s /\ s[1] \in Nodes
    BY MsgMembers, SocketFacts DEF Msg
  <1>2. /\ Broadcast(s[1], <<p>>)
        /\ s \in open /\ open' = open \ {s} /\ Forget(s)
        /\ closing' = closing \cup {s}
        /\ raced' = IF ctrlq[s[1]] = <<>> THEN raced ELSE 1
        /\ UNCHANGED <<dir, lookups, ctrlq, linkVars, dropped, missed, replaced>>
    BY DEF CloseBcast
  <1> HIDE DEF p
  <1>3. <<p>> \in Seq(Msgs) /\ \A m \in Nodes \ {s[1]} : <<p>> \in Seq(LinkMsgs(m))
    BY <1>1 DEF LinkMsgs, LocalClose
  <1>4. TypeOK
    BY DEF NsInv
  <1>5. ChanOK(chan') /\ failed' \in {0, 1} /\ (failed' = 0 => failed = 0)
    BY <1>1, <1>2, <1>3, <1>4, ChanMeans, BroadcastKeeps
  <1>6. (raced' = raced /\ (s \in closing' => ctrlq[s[1]] = <<>>)) \/ raced' = 1
    BY <1>2
  <1> QED
    BY <1>2, <1>5, <1>6, LeaveStep

LEMMA CloseDroppedStep ==
    ASSUME NsInv, NEW s \in Sockets, CloseDropped(s)
    PROVE  NsInv'
  <1>1. /\ s \in open /\ open' = open \ {s} /\ Forget(s)
        /\ closing' = closing /\ dropped' = 1
        /\ UNCHANGED <<dir, lookups, ctrlq, chan, linkVars, failed, missed, raced, replaced>>
    BY DEF CloseDropped
  <1>2. s \notin closing' /\ failed \in {0, 1}
    BY <1>1 DEF NsInv, SocketInv, TypeOK
  <1>3. ChanOK(chan') /\ failed' \in {0, 1} /\ (failed' = 0 => failed = 0)
    BY <1>1, <1>2, ChanMeans
  <1>4. (raced' = raced /\ (s \in closing' => ctrlq[s[1]] = <<>>)) \/ raced' = 1
    BY <1>1, <1>2
  <1> QED
    BY <1>1, <1>3, <1>4, LeaveStep

(* The DEL_CLIENT reaches the own name service: it closes what s left. *)
LEMMA CloseLocalStep ==
    ASSUME NsInv, NEW s \in Sockets, CloseLocal(s)
    PROVE  NsInv'
  <1> DEFINE p == Msg("DEL_CLIENT", s, s)
             n == s[1]
  <1>1. p \in Msgs /\ p.cmd = "DEL_CLIENT" /\ p.arg = s
    BY MsgMembers DEF Msg
  <1>2. n \in Nodes
    BY SocketFacts
  <1>3. p \in CtrlMsgs(n)
    BY <1>1 DEF CtrlMsgs
  <1>4. /\ open' = open \ {s} /\ closing' = closing \ {s} /\ Forget(s)
        /\ ctrlq' = [ctrlq EXCEPT ![n] = Append(@, p)]
        /\ raced' = IF ctrlq[n] = <<>> \/ (s \in closing /\ ~Looks(s)) THEN raced ELSE 1
        /\ UNCHANGED <<dir, lookups, chan, backlog, link, helloSent, helloRcvd, known, failed,
                       dropped, missed, replaced>>
    BY DEF CloseLocal, Post, linkVars, Looks
  <1> HIDE DEF p, n
  <1>5. /\ ctrlq' \in [Nodes -> Seq(Msgs)]
        /\ \A k \in Nodes : ctrlq'[k] \in Seq(CtrlMsgs(k))
        /\ ctrlq'[n] = Append(ctrlq[n], p)
        /\ \A k \in Nodes \ {n} : ctrlq'[k] = ctrlq[k]
    BY <1>2, <1>3, <1>4, PostTypes
  <1>6. \A k \in Nodes : ctrlq[k] \in Seq(Msgs)
    BY LinkFacts DEF NsInv, MsgInv
  <1>7. /\ view' \in [Sockets -> SUBSET Servers] /\ view'[s] = {}
        /\ \A t \in Sockets \ {s} : view'[t] = view[t]
        /\ open \subseteq Sockets /\ open' \subseteq Sockets /\ closing' \subseteq Sockets
        /\ multi' \subseteq Sockets /\ raced' \in {0, 1}
    BY <1>4 DEF NsInv, TypeOK, Forget
  <1>8. UNCHANGED <<dir, lookups, chan, backlog, link, helloSent, helloRcvd, known, failed,
                    dropped, missed, replaced>>
    BY <1>4
  <1>9. TypeOK'
    <2>1. DirType /\ SockType /\ NetType /\ LinkType /\ HistType
      BY TypeParts DEF NsInv
    <2>2. DirType' /\ SockType'
      BY <1>7, <1>8, <2>1 DEF DirType, SockType
    <2>3. NetType' /\ HistType'
      BY <1>5, <1>7, <1>8, <2>1 DEF NetType, HistType
    <2>4. UNCHANGED linkVars
      BY <1>8 DEF linkVars
    <2> QED
      BY <2>1, <2>2, <2>3, <2>4, TypeSame, TypeParts
  <1>10. MsgInv' /\ FiniteInv' /\ SocketInv'
    BY <1>4, <1>5, <1>7 DEF NsInv, MsgInv, FiniteInv, SocketInv
  <1>11. ASSUME NEW t \in Sockets, t # s
         PROVE  /\ Closing(ctrlq'[t[1]], t) <=> Closing(ctrlq[t[1]], t)
                /\ Clean(ctrlq[t[1]], t) => Clean(ctrlq'[t[1]], t)
                /\ ~Asked(ctrlq[t[1]], t) => ~Asked(ctrlq'[t[1]], t)
                /\ Ordered(ctrlq[t[1]], t) => Ordered(ctrlq'[t[1]], t)
                /\ ClosesFirst(ctrlq[t[1]], t) => ClosesFirst(ctrlq'[t[1]], t)
    <2>1. t[1] \in Nodes /\ ctrlq[t[1]] \in Seq(Msgs)
      BY <1>6, SocketFacts
    <2>2. ~Opens(p, t) /\ ~Asks(p, t) /\ ~Closes(p, t)
      BY <1>1, <1>11 DEF Opens, Asks, Closes
    <2>3. CASE t[1] = n
      <3>1. /\ Closing(Append(ctrlq[n], p), t) <=> Closing(ctrlq[n], t) \/ Closes(p, t)
            /\ Clean(ctrlq[n], t) /\ ~Opens(p, t) => Clean(Append(ctrlq[n], p), t)
        BY <1>1, <2>1, <2>3, QueueAppend
      <3>2. /\ Asked(Append(ctrlq[n], p), t) => Asked(ctrlq[n], t) \/ Asks(p, t)
            /\ Ordered(ctrlq[n], t) /\ (Closes(p, t) => ~Asked(ctrlq[n], t)) =>
                  Ordered(Append(ctrlq[n], p), t)
            /\ ClosesFirst(ctrlq[n], t) /\ (Closes(p, t) => ctrlq[n] = <<>>) =>
                  ClosesFirst(Append(ctrlq[n], p), t)
        BY <1>1, <2>1, <2>3, OrderAppend
      <3> QED
        BY <1>5, <2>2, <2>3, <3>1, <3>2
    <2>4. CASE t[1] # n
      BY <1>5, <2>1, <2>4
    <2> QED
      BY <2>3, <2>4
  <1>12. /\ Closing(ctrlq'[n], s) /\ Clean(ctrlq'[n], s)
         /\ raced' = 0 => /\ Ordered(ctrlq'[n], s)
                          /\ Looks(s) => ClosesFirst(ctrlq'[n], s)
    <2>1. ctrlq[n] \in Seq(Msgs) /\ Closes(p, s)
      BY <1>1, <1>2, <1>6 DEF Closes
    <2>2. Closing(ctrlq'[n], s) /\ Clean(ctrlq'[n], s)
      BY <1>1, <1>5, <2>1, QueueAppend
    <2>3. ASSUME raced' = 0
          PROVE  /\ ~Asked(ctrlq[n], s) /\ Ordered(ctrlq[n], s)
                 /\ Looks(s) => ClosesFirst(ctrlq[n], s) /\ ctrlq[n] = <<>>
      <3>1. raced = 0 /\ (ctrlq[n] = <<>> \/ (s \in closing /\ ~Looks(s)))
        BY <1>4, <2>3
      <3>2. /\ s \in closing => ~Asked(ctrlq[n], s)
            /\ Ordered(ctrlq[n], s)
            /\ Looks(s) => ClosesFirst(ctrlq[n], s)
        BY <3>1 DEF NsInv, OrderInv, n
      <3>3. ctrlq[n] = <<>> => ~Asked(ctrlq[n], s)
        BY DEF Asked
      <3> QED
        BY <3>1, <3>2, <3>3
    <2>4. ASSUME raced' = 0
          PROVE  Ordered(ctrlq'[n], s) /\ (Looks(s) => ClosesFirst(ctrlq'[n], s))
      BY <1>1, <1>5, <2>1, <2>3, <2>4, OrderAppend
    <2> QED
      BY <2>2, <2>4
  <1>13. CoverInv'
    <2>1. SUFFICES ASSUME dropped = 0, NEW t \in Sockets, t \notin open'
                   PROVE  /\ t \notin closing' => Clean(ctrlq'[t[1]], t)
                          /\ Kept(t) => t \in closing' \/ Closing(ctrlq'[t[1]], t)
      BY <1>8 DEF CoverInv, Kept, Looks
    <2>2. CASE t = s
      BY <1>12, <2>2 DEF n
    <2>3. CASE t # s
      BY <1>4, <1>11, <2>1, <2>3 DEF NsInv, CoverInv
    <2> QED
      BY <2>2, <2>3
  <1>14. OrderInv'
    <2>1. SUFFICES ASSUME raced' = 0, NEW t \in Sockets
                   PROVE  /\ t \in closing' => ~Asked(ctrlq'[t[1]], t)
                          /\ Ordered(ctrlq'[t[1]], t)
                          /\ Looks(t) => ClosesFirst(ctrlq'[t[1]], t)
      BY <1>8 DEF OrderInv, Looks
    <2>2. raced = 0
      BY <1>4, <2>1
    <2>3. CASE t = s
      BY <1>4, <1>12, <2>1, <2>3 DEF n
    <2>4. CASE t # s
      BY <1>4, <1>11, <2>2, <2>4 DEF NsInv, OrderInv
    <2> QED
      BY <2>3, <2>4
  <1>15. ViewInv'
    <2>1. raced' = 0 => raced = 0
      BY <1>4
    <2>2. SUFFICES ASSUME raced = 0, replaced = 0, missed = 0, NEW t \in open'
                   PROVE  (Closing(ctrlq'[t[1]], t) => view'[t] = {}) /\ Justified(t)'
      BY <1>8, <2>1 DEF ViewInv
    <2>3. t \in open /\ t # s /\ t \in Sockets /\ view'[t] = view[t]
      BY <1>4, <1>7, <2>2
    <2> QED
      BY <1>8, <1>11, <2>2, <2>3 DEF NsInv, ViewInv, Justified
  <1>16. LookupComplete'
    <2>1. SUFFICES ASSUME failed = 0, dropped = 0, missed = 0, NEW l \in lookups, Current(l)'
                   PROVE  \A v \in dir[l.sock[1]] : Wants(l, v) => v \in view'[l.sock]
      BY <1>8 DEF LookupComplete
    <2>2. /\ l.sock \in open' /\ l.sock \notin closing'
          /\ ~Closing(ctrlq'[l.sock[1]], l.sock)
      BY <2>1 DEF Current, Leaving, Closing, Closes
    <2>3. l.sock \in open /\ l.sock # s /\ l.sock \in Sockets /\ l.sock \notin closing
      BY <1>4, <1>7, <2>2
    <2>4. Current(l) /\ view'[l.sock] = view[l.sock]
      BY <1>7, <1>11, <2>2, <2>3, CurrentMeans
    <2> QED
      BY <2>1, <2>4 DEF NsInv, LookupComplete
  <1> QED
    BY <1>9, <1>10, <1>13, <1>14, <1>15, <1>16 DEF NsInv

-----------------------------------------------------------------------------
(* Steps of the links: at most one message comes to one control socket. *)
BackOK(b) == \A m, n \in Nodes : b[n][m] \in Seq(LinkMsgs(n))

LEMMA LinkStep ==
    ASSUME NsInv, NEW n \in Nodes, NEW p \in CtrlMsgs(n), Harmless(p, n),
           ctrlq' = ctrlq \/ Post(n, p),
           ChanOK(chan'), BackOK(backlog'), LinkType',
           failed' \in {0, 1}, failed' = 0 => failed = 0,
           raced' \in {0, 1}, raced' = 0 => raced = 0,
           UNCHANGED <<dir, lookups, view, sockVars, dropped, missed, replaced>>
    PROVE  NsInv'
  <1>1. /\ ctrlq' \in [Nodes -> Seq(Msgs)]
        /\ \A k \in Nodes : ctrlq'[k] \in Seq(CtrlMsgs(k))
        /\ \A k \in Nodes : ctrlq'[k] = ctrlq[k] \/ (k = n /\ ctrlq'[k] = Append(ctrlq[k], p))
    <2>1. CASE ctrlq' = ctrlq
      BY <2>1 DEF NsInv, TypeOK, MsgInv
    <2>2. CASE Post(n, p)
      <3>1. ctrlq' = [ctrlq EXCEPT ![n] = Append(@, p)]
        BY <2>2 DEF Post
      <3>2. /\ ctrlq' \in [Nodes -> Seq(Msgs)]
            /\ \A k \in Nodes : ctrlq'[k] \in Seq(CtrlMsgs(k))
            /\ ctrlq'[n] = Append(ctrlq[n], p)
            /\ \A k \in Nodes \ {n} : ctrlq'[k] = ctrlq[k]
        BY <3>1, PostTypes
      <3> QED
        BY <3>2
    <2> QED
      BY <2>1, <2>2
  <1>2. \A k \in Nodes : \/ ctrlq'[k] = ctrlq[k]
                         \/ \E r : Harmless(r, k) /\ ctrlq'[k] = Append(ctrlq[k], r)
    BY <1>1
  <1>3. QueueInv'
    BY <1>2, GrowStep DEF sockVars
  <1>4. TypeOK'
    <2>1. DirType /\ SockType /\ NetType /\ LinkType /\ HistType
      BY TypeParts DEF NsInv
    <2>2. DirType' /\ SockType'
      BY <2>1, TypeSame DEF DirType
    <2>3. NetType' /\ HistType'
      BY <1>1, <2>1 DEF NetType, HistType, ChanOK
    <2> QED
      BY <2>2, <2>3, TypeParts
  <1>5. MsgInv' /\ FiniteInv'
    BY <1>1 DEF NsInv, MsgInv, FiniteInv, ChanOK, BackOK
  <1> QED
    BY <1>3, <1>4, <1>5 DEF NsInv, QueueInv

(* HELLO and BYE concern no socket. *)
LEMMA GreetingHarmless ==
    ASSUME NEW n \in Nodes, NEW k \in Nodes, NEW c \in {"HELLO", "BYE"}
    PROVE  /\ Msg(c, Ctrl(k), k) \in LinkMsgs(n)
           /\ Msg(c, Ctrl(k), k) \in CtrlMsgs(n)
           /\ Harmless(Msg(c, Ctrl(k), k), n)
  <1>1. Msg(c, Ctrl(k), k) \in LinkMsgs(n)
    BY MsgMembers DEF LinkMsgs, LocalClose, Msg
  <1> QED
    BY <1>1, LinkFacts, LinkHarmless

LEMMA LinkParts ==
    ASSUME NsInv
    PROVE  /\ LinkType /\ BackOK(backlog) /\ ChanOK(chan)
           /\ failed \in {0, 1} /\ raced \in {0, 1}
  BY TypeParts, ChanMeans DEF NsInv, MsgInv, BackOK, HistType

LEMMA RegisterStep ==
    ASSUME NsInv, NEW m \in Nodes, NEW n \in Nodes, Register(m, n)
    PROVE  NsInv'
  <1> DEFINE p == Msg("HELLO", Ctrl(m), m)
  <1>1. p \in CtrlMsgs(m) /\ Harmless(p, m)
    BY GreetingHarmless
  <1> HIDE DEF p
  <1>2. /\ link' = [link EXCEPT ![m][n] = "up"]
        /\ helloRcvd' = [helloRcvd EXCEPT ![m][n] = FALSE]
        /\ UNCHANGED <<dir, lookups, view, sockVars, ctrlq, chan, backlog, helloSent, known,
                       failed, dropped, missed, raced, replaced>>
    BY DEF Register, histVars
  <1>3. LinkType'
    <2>1. LinkType /\ "up" \in LinkStates /\ FALSE \in BOOLEAN
      BY LinkParts DEF LinkStates
    <2>2. link' \in [Nodes -> [Nodes -> LinkStates]]
      BY <1>2, <2>1, TableUpdate DEF LinkType
    <2>3. helloRcvd' \in [Nodes -> [Nodes -> BOOLEAN]]
      BY <1>2, <2>1, TableUpdate DEF LinkType
    <2> QED
      BY <1>2, <2>1, <2>2, <2>3 DEF LinkType
  <1>4. ChanOK(chan') /\ BackOK(backlog') /\ failed' \in {0, 1} /\ raced' \in {0, 1}
    BY <1>2, LinkParts
  <1> QED
    BY <1>1, <1>2, <1>3, <1>4, LinkStep

LEMMA HelloWorkStep ==
    ASSUME NsInv, NEW m \in Nodes, NEW n \in Nodes, HelloWork(m, n)
    PROVE  NsInv'
  <1> DEFINE p == Msg("HELLO", Ctrl(m), m)
  <1>1. p \in CtrlMsgs(n) /\ Harmless(p, n) /\ p \in LinkMsgs(n)
    BY GreetingHarmless
  <1>2. /\ helloSent' = [helloSent EXCEPT ![m][n] = TRUE]
        /\ chan' = chan \/ chan' = [chan EXCEPT ![m][n] = Append(@, p)]
        /\ UNCHANGED <<dir, lookups, view, sockVars, ctrlq, backlog, link, helloRcvd, known,
                       failed, dropped, missed, raced, replaced>>
    BY DEF HelloWork, histVars
  <1> HIDE DEF p
  <1>3. LinkType'
    <2>1. LinkType /\ TRUE \in BOOLEAN
      BY LinkParts
    <2>2. helloSent' \in [Nodes -> [Nodes -> BOOLEAN]]
      BY <1>2, <2>1, TableUpdate DEF LinkType
    <2> QED
      BY <1>2, <2>1, <2>2 DEF LinkType
  <1>4. ChanOK(chan')
    <2>1. CASE chan' = chan
      BY <2>1, LinkParts
    <2>2. CASE chan' = [chan EXCEPT ![m][n] = Append(@, p)]
      <3> DEFINE q == Append(chan[m][n], p)
      <3>1. q \in Seq(LinkMsgs(n))
        BY <1>1 DEF NsInv, MsgInv
      <3>2. chan' = [chan EXCEPT ![m][n] = q]
        BY <2>2
      <3> HIDE DEF q
      <3> QED
        BY <3>1, <3>2, LinkParts, ChanUpdate
    <2> QED
      BY <1>2, <2>1, <2>2
  <1>5. BackOK(backlog') /\ failed' \in {0, 1} /\ raced' \in {0, 1}
    BY <1>2, LinkParts
  <1> QED
    BY <1>1, <1>2, <1>3, <1>4, <1>5, LinkStep

(* Part of a queue. *)
LEMMA PrefixType ==
    ASSUME NEW S, NEW q \in Seq(S), NEW i \in 0..Len(q)
    PROVE  SubSeq(q, 1, i) \in Seq(S)
  OBVIOUS

(* The BYE of the other side is queued; the links keep a prefix. *)
LEMMA UnregisterStep ==
    ASSUME NsInv, NEW m \in Nodes, NEW n \in Nodes, Unregister(m, n)
    PROVE  NsInv'
  <1> DEFINE p == Msg("BYE", Ctrl(n), n)
  <1>1. p \in CtrlMsgs(m) /\ Harmless(p, m)
    BY GreetingHarmless
  <1>2. m # n
    BY DEF Unregister
  <1>3. PICK i \in 0..Len(chan[n][m]), j \in 0..Len(chan[m][n]) :
          /\ chan' = [chan EXCEPT ![n][m] = <<>>, ![m][n] = SubSeq(@, 1, j)]
          /\ backlog' = [backlog EXCEPT ![m][n] = SubSeq(chan[n][m], 1, i)]
          /\ raced' = IF i = 0 THEN raced ELSE 1
          /\ helloRcvd' = [helloRcvd EXCEPT ![m][n] = @ /\ i > 0]
          /\ \/ /\ ctrlq' = [ctrlq EXCEPT ![m] = IF known[m][n] \/ i > 0 THEN Append(@, p) ELSE @]
                /\ UNCHANGED failed
             \/ failed' = 1 /\ UNCHANGED ctrlq
    BY DEF Unregister
  <1>4. /\ link' = [link EXCEPT ![m][n] = "down", ![n][m] = IF @ = "down" THEN @ ELSE "old"]
        /\ helloSent' = [helloSent EXCEPT ![m][n] = FALSE]
        /\ known' = [known EXCEPT ![m][n] = FALSE]
        /\ UNCHANGED <<dir, lookups, view, sockVars, dropped, missed, replaced>>
    BY DEF Unregister
  <1> HIDE DEF p
  <1>5. LinkType /\ BackOK(backlog) /\ ChanOK(chan) /\ failed \in {0, 1} /\ raced \in {0, 1}
    BY LinkParts
  <1>6. chan[n][m] \in Seq(LinkMsgs(m)) /\ chan[m][n] \in Seq(LinkMsgs(n))
    BY <1>5 DEF ChanOK
  <1>7. /\ SubSeq(chan[n][m], 1, i) \in Seq(LinkMsgs(m))
        /\ SubSeq(chan[m][n], 1, j) \in Seq(LinkMsgs(n))
        /\ <<>> \in Seq(LinkMsgs(m))
    BY <1>6, PrefixType
  <1>8. ChanOK(chan')
    <2> DEFINE x == SubSeq(chan[m][n], 1, j)
               d == [chan EXCEPT ![n][m] = <<>>]
    <2>1. ChanOK(d)
      BY <1>5, <1>7, ChanUpdate
    <2>2. chan' = [d EXCEPT ![m][n] = x]
      BY <1>2, <1>3, <1>5 DEF ChanOK
    <2> HIDE DEF d
    <2> QED
      BY <1>7, <2>1, <2>2, ChanUpdate
  <1>9. BackOK(backlog') /\ backlog' \in [Nodes -> [Nodes -> Seq(Msgs)]]
    <2> DEFINE x == SubSeq(chan[n][m], 1, i)
    <2>1. x \in Seq(LinkMsgs(m)) /\ x \in Seq(Msgs) /\ backlog' = [backlog EXCEPT ![m][n] = x]
      BY <1>3, <1>7, LinkFacts
    <2> HIDE DEF x
    <2>2. backlog \in [Nodes -> [Nodes -> Seq(Msgs)]]
      BY <1>5 DEF LinkType
    <2>3. backlog' \in [Nodes -> [Nodes -> Seq(Msgs)]]
      BY <2>1, <2>2, TableUpdate
    <2>4. ASSUME NEW a \in Nodes, NEW b \in Nodes PROVE backlog'[b][a] \in Seq(LinkMsgs(b))
      BY <1>5, <2>1, <2>2 DEF BackOK
    <2> QED
      BY <2>3, <2>4 DEF BackOK
  <1>10. LinkType'
    <2>1. /\ link \in [Nodes -> [Nodes -> LinkStates]]
          /\ helloSent \in [Nodes -> [Nodes -> BOOLEAN]]
          /\ helloRcvd \in [Nodes -> [Nodes -> BOOLEAN]]
          /\ known \in [Nodes -> [Nodes -> BOOLEAN]]
      BY <1>5 DEF LinkType
    <2>2. FALSE \in BOOLEAN
      OBVIOUS
    <2>3. helloSent' \in [Nodes -> [Nodes -> BOOLEAN]] /\ known' \in [Nodes -> [Nodes -> BOOLEAN]]
      BY <1>4, <2>1, <2>2, TableUpdate
    <2>4. helloRcvd' \in [Nodes -> [Nodes -> BOOLEAN]]
      <3> DEFINE b == helloRcvd[m][n] /\ i > 0
      <3>1. b \in BOOLEAN /\ helloRcvd' = [helloRcvd EXCEPT ![m][n] = b]
        BY <1>3
      <3> HIDE DEF b
      <3> QED
        BY <2>1, <3>1, TableUpdate
    <2>5. link' \in [Nodes -> [Nodes -> LinkStates]]
      <3> DEFINE e == IF link[n][m] = "down" THEN link[n][m] ELSE "old"
      <3>1. e \in LinkStates /\ "down" \in LinkStates
        BY DEF LinkStates
      <3>2. link' = [link EXCEPT ![m][n] = "down", ![n][m] = e]
        BY <1>2, <1>4, <2>1
      <3>3. link \in [Nodes -> [Nodes -> LinkStates]]
        BY <2>1
      <3> HIDE DEF e
      <3> QED
        BY <3>1, <3>2, <3>3, TableUpdates
    <2> QED
      BY <1>9, <2>3, <2>4, <2>5 DEF LinkType
  <1>11. /\ failed' \in {0, 1} /\ (failed' = 0 => failed = 0)
         /\ raced' \in {0, 1} /\ (raced' = 0 => raced = 0)
    BY <1>3, <1>5
  <1>12. ctrlq' = ctrlq \/ Post(m, p)
    <2>1. ctrlq \in [Nodes -> Seq(Msgs)]
      BY DEF NsInv, TypeOK
    <2>2. CASE known[m][n] \/ i > 0
      BY <1>3, <2>2 DEF Post
    <2>3. CASE ~(known[m][n] \/ i > 0)
      BY <1>3, <2>1, <2>3
    <2> QED
      BY <2>2, <2>3
  <1> QED
    BY <1>1, <1>4, <1>8, <1>9, <1>10, <1>11, <1>12, LinkStep

(* qrtr_sock_queue_skb() of a packet that came over a link. *)
LEMMA QueueCtrlFacts ==
    ASSUME NsInv, NEW m \in Nodes, NEW n \in Nodes, NEW p \in LinkMsgs(n), QueueCtrl(m, n, p)
    PROVE  /\ p \in CtrlMsgs(n) /\ Harmless(p, n)
           /\ ctrlq' = ctrlq \/ Post(n, p)
           /\ helloRcvd' \in [Nodes -> [Nodes -> BOOLEAN]]
  <1>1. p \in CtrlMsgs(n) /\ Harmless(p, n)
    BY LinkFacts, LinkHarmless
  <1>2. ctrlq' = ctrlq \/ Post(n, p)
    BY DEF QueueCtrl
  <1>3. helloRcvd' = helloRcvd \/ helloRcvd' = [helloRcvd EXCEPT ![n][m] = TRUE]
    BY DEF QueueCtrl
  <1>4. helloRcvd \in [Nodes -> [Nodes -> BOOLEAN]] /\ TRUE \in BOOLEAN
    BY LinkParts DEF LinkType
  <1>5. helloRcvd' \in [Nodes -> [Nodes -> BOOLEAN]]
    BY <1>3, <1>4, TableUpdate
  <1> QED
    BY <1>1, <1>2, <1>5

LEMMA RxWorkStep ==
    ASSUME NsInv, NEW m \in Nodes, NEW n \in Nodes, RxWork(m, n)
    PROVE  NsInv'
  <1> DEFINE p == Head(chan[m][n])
             q == Tail(chan[m][n])
  <1>1. /\ chan[m][n] # <<>> /\ chan' = [chan EXCEPT ![m][n] = q]
        /\ known' = [known EXCEPT ![n][m] = TRUE]
        /\ QueueCtrl(m, n, p)
        /\ UNCHANGED <<dir, lookups, view, sockVars, backlog, link, helloSent,
                       failed, dropped, missed, raced, replaced>>
    BY DEF RxWork, histVars
  <1>2. p \in LinkMsgs(n) /\ q \in Seq(LinkMsgs(n))
    <2>1. chan[m][n] \in Seq(LinkMsgs(n))
      BY DEF NsInv, MsgInv
    <2> QED
      BY <1>1, <2>1
  <1> HIDE DEF p, q
  <1>3. /\ p \in CtrlMsgs(n) /\ Harmless(p, n)
        /\ ctrlq' = ctrlq \/ Post(n, p)
        /\ helloRcvd' \in [Nodes -> [Nodes -> BOOLEAN]]
    BY <1>1, <1>2, QueueCtrlFacts
  <1>4. ChanOK(chan')
    BY <1>1, <1>2, LinkParts, ChanUpdate
  <1>5. LinkType'
    <2>1. LinkType /\ TRUE \in BOOLEAN
      BY LinkParts
    <2>2. known' \in [Nodes -> [Nodes -> BOOLEAN]]
      BY <1>1, <2>1, TableUpdate DEF LinkType
    <2> QED
      BY <1>1, <1>3, <2>1, <2>2 DEF LinkType
  <1>6. BackOK(backlog') /\ failed' \in {0, 1} /\ raced' \in {0, 1}
    BY <1>1, LinkParts
  <1> QED
    BY <1>1, <1>3, <1>4, <1>5, <1>6, LinkStep

LEMMA FlushWorkStep ==
    ASSUME NsInv, NEW m \in Nodes, NEW n \in Nodes, FlushWork(m, n)
    PROVE  NsInv'
  <1> DEFINE p == Head(backlog[n][m])
             q == Tail(backlog[n][m])
  <1>1. /\ backlog[n][m] # <<>> /\ backlog' = [backlog EXCEPT ![n][m] = q]
        /\ QueueCtrl(m, n, p)
        /\ UNCHANGED <<dir, lookups, view, sockVars, chan, link, helloSent, known,
                       failed, dropped, missed, raced, replaced>>
    BY DEF FlushWork, histVars
  <1>2. p \in LinkMsgs(n) /\ q \in Seq(LinkMsgs(n)) /\ q \in Seq(Msgs)
    <2>1. backlog[n][m] \in Seq(LinkMsgs(n))
      BY DEF NsInv, MsgInv
    <2>2. p \in LinkMsgs(n) /\ q \in Seq(LinkMsgs(n))
      BY <1>1, <2>1
    <2> HIDE DEF p, q
    <2> QED
      BY <2>2, LinkFacts
  <1> HIDE DEF p, q
  <1>3. /\ p \in CtrlMsgs(n) /\ Harmless(p, n)
        /\ ctrlq' = ctrlq \/ Post(n, p)
        /\ helloRcvd' \in [Nodes -> [Nodes -> BOOLEAN]]
    BY <1>1, <1>2, QueueCtrlFacts
  <1>4. LinkType /\ BackOK(backlog) /\ ChanOK(chan')
    BY <1>1, LinkParts
  <1>5. backlog' \in [Nodes -> [Nodes -> Seq(Msgs)]]
    BY <1>1, <1>2, <1>4, TableUpdate DEF LinkType
  <1>6. ASSUME NEW a \in Nodes, NEW b \in Nodes PROVE backlog'[b][a] \in Seq(LinkMsgs(b))
    BY <1>1, <1>2, <1>4 DEF BackOK, LinkType
  <1>7. LinkType' /\ BackOK(backlog')
    BY <1>1, <1>3, <1>4, <1>5, <1>6 DEF LinkType, BackOK
  <1>8. failed' \in {0, 1} /\ raced' \in {0, 1}
    BY <1>1, LinkParts
  <1> QED
    BY <1>1, <1>3, <1>4, <1>7, <1>8, LinkStep

-----------------------------------------------------------------------------
(* Steps of the name service: what taking a message does to the queues. *)
LEMMA TakeFacts ==
    ASSUME NsInv, NEW n \in Nodes, NEW cmd, Take(n, cmd)
    PROVE  /\ Head(ctrlq[n]) \in CtrlMsgs(n) /\ Head(ctrlq[n]) \in Msgs
           /\ Head(ctrlq[n]).cmd = cmd
           /\ ctrlq' \in [Nodes -> Seq(Msgs)]
           /\ \A k \in Nodes : ctrlq'[k] \in Seq(CtrlMsgs(k))
           /\ \A s \in Sockets :
                Closing(ctrlq[s[1]], s) <=>
                    Closing(ctrlq'[s[1]], s) \/ (s[1] = n /\ Closes(Head(ctrlq[n]), s))
           /\ dropped = 0 => \A s \in Sockets \ open :
                /\ s \notin closing => Clean(ctrlq'[s[1]], s)
                /\ s[1] = n /\ Opens(Head(ctrlq[n]), s) => s \in closing \/ Closing(ctrlq'[n], s)
           /\ raced = 0 => \A s \in Sockets :
                /\ s \in closing => ~Asked(ctrlq'[s[1]], s)
                /\ Ordered(ctrlq'[s[1]], s)
                /\ Looks(s) \/ (s[1] = n /\ Asks(Head(ctrlq[n]), s)) => ClosesFirst(ctrlq'[s[1]], s)
                /\ s[1] = n /\ Asks(Head(ctrlq[n]), s) => ~Closing(ctrlq[n], s)
                /\ s[1] = n /\ Looks(s) /\ Closing(ctrlq[n], s) => Closes(Head(ctrlq[n]), s)
  <1> DEFINE p == Head(ctrlq[n])
  <1>1. /\ ctrlq[n] # <<>> /\ p.cmd = cmd
        /\ ctrlq' = [ctrlq EXCEPT ![n] = Tail(@)]
    BY DEF Take
  <1>2. ctrlq[n] \in Seq(CtrlMsgs(n)) /\ ctrlq[n] \in Seq(Msgs)
    BY DEF NsInv, MsgInv, TypeOK
  <1>3. /\ p \in CtrlMsgs(n) /\ p \in Msgs
        /\ Tail(ctrlq[n]) \in Seq(CtrlMsgs(n)) /\ Tail(ctrlq[n]) \in Seq(Msgs)
    BY <1>1, <1>2
  <1>4. /\ ctrlq' \in [Nodes -> Seq(Msgs)]
        /\ ctrlq'[n] = Tail(ctrlq[n])
        /\ \A k \in Nodes \ {n} : ctrlq'[k] = ctrlq[k]
    BY <1>1, <1>3 DEF NsInv, TypeOK
  <1>5. \A k \in Nodes : ctrlq'[k] \in Seq(CtrlMsgs(k))
    BY <1>3, <1>4 DEF NsInv, MsgInv
  <1>6. ASSUME NEW s \in Sockets
        PROVE  /\ Closing(ctrlq[s[1]], s) <=>
                    Closing(ctrlq'[s[1]], s) \/ (s[1] = n /\ Closes(p, s))
               /\ Clean(ctrlq[s[1]], s) => Clean(ctrlq'[s[1]], s)
               /\ s[1] = n /\ Clean(ctrlq[n], s) /\ Opens(p, s) => Closing(ctrlq'[n], s)
    <2>1. s[1] \in Nodes
      BY SocketFacts
    <2>2. CASE s[1] = n
      <3>1. /\ Closing(ctrlq[n], s) <=> Closing(Tail(ctrlq[n]), s) \/ Closes(p, s)
            /\ Clean(ctrlq[n], s) => Clean(Tail(ctrlq[n]), s)
            /\ Clean(ctrlq[n], s) /\ Opens(p, s) => Closing(Tail(ctrlq[n]), s)
        BY <1>1, <1>2, QueueTake
      <3> HIDE DEF p
      <3> QED
        BY <1>4, <2>2, <3>1
    <2>3. CASE s[1] # n
      BY <1>4, <2>1, <2>3
    <2> QED
      BY <2>2, <2>3
  <1>7. ASSUME NEW s \in Sockets
        PROVE  /\ Asked(ctrlq'[s[1]], s) => Asked(ctrlq[s[1]], s)
               /\ Ordered(ctrlq[s[1]], s) => Ordered(ctrlq'[s[1]], s)
               /\ s[1] = n /\ Ordered(ctrlq[n], s) /\ Asks(p, s) => ~Closing(ctrlq[n], s)
               /\ ClosesFirst(ctrlq[s[1]], s) => ClosesFirst(ctrlq'[s[1]], s)
               /\ s[1] = n /\ ClosesFirst(ctrlq[n], s) /\ Closing(ctrlq[n], s) => Closes(p, s)
    <2>1. s[1] \in Nodes
      BY SocketFacts
    <2>2. CASE s[1] = n
      <3>1. /\ Asked(Tail(ctrlq[n]), s) => Asked(ctrlq[n], s)
            /\ Ordered(ctrlq[n], s) => Ordered(Tail(ctrlq[n]), s)
            /\ Ordered(ctrlq[n], s) /\ Asks(p, s) => ~Closing(ctrlq[n], s)
            /\ ClosesFirst(ctrlq[n], s) => ~Closing(Tail(ctrlq[n]), s)
            /\ ClosesFirst(ctrlq[n], s) /\ Closing(ctrlq[n], s) => Closes(p, s)
        BY <1>1, <1>2, OrderTake
      <3>2. ~Closing(Tail(ctrlq[n]), s) => ClosesFirst(Tail(ctrlq[n]), s)
        BY DEF Closing, ClosesFirst
      <3> HIDE DEF p
      <3> QED
        BY <1>4, <2>2, <3>1, <3>2
    <2>3. CASE s[1] # n
      BY <1>4, <2>1, <2>3
    <2> QED
      BY <2>2, <2>3
  <1> HIDE DEF p
  <1>8. ASSUME dropped = 0, NEW s \in Sockets \ open
        PROVE  /\ s \notin closing => Clean(ctrlq'[s[1]], s)
               /\ s[1] = n /\ Opens(p, s) => s \in closing \/ Closing(ctrlq'[n], s)
    <2>1. s \notin closing => Clean(ctrlq[s[1]], s)
      BY <1>8 DEF NsInv, CoverInv
    <2> QED
      BY <1>6, <2>1
  <1>9. ASSUME raced = 0, NEW s \in Sockets
        PROVE  /\ s \in closing => ~Asked(ctrlq'[s[1]], s)
               /\ Ordered(ctrlq'[s[1]], s)
               /\ Looks(s) \/ (s[1] = n /\ Asks(p, s)) => ClosesFirst(ctrlq'[s[1]], s)
               /\ s[1] = n /\ Asks(p, s) => ~Closing(ctrlq[n], s)
               /\ s[1] = n /\ Looks(s) /\ Closing(ctrlq[n], s) => Closes(p, s)
    <2>1. /\ s \in closing => ~Asked(ctrlq[s[1]], s)
          /\ Ordered(ctrlq[s[1]], s)
          /\ Looks(s) => ClosesFirst(ctrlq[s[1]], s)
      BY <1>9 DEF NsInv, OrderInv
    <2>2. ~Closing(ctrlq[s[1]], s) => ClosesFirst(ctrlq[s[1]], s)
      BY DEF Closing, ClosesFirst
    <2> QED
      BY <1>7, <2>1, <2>2
  <1> QED
    BY <1>1, <1>3, <1>4, <1>5, <1>6, <1>8, <1>9 DEF p

(* A step of the name service that leaves the directories, the lookups and *)
(* what the observers know alone, and closes nothing.                      *)
LEMMA PassStep ==
    ASSUME NsInv, NEW n \in Nodes, NEW cmd, Take(n, cmd), cmd # "DEL_CLIENT",
           UNCHANGED <<dir, lookups, view, sockVars, backlog, link, helloRcvd, known,
                       dropped, missed, replaced>>,
           ChanOK(chan'), helloSent' \in [Nodes -> [Nodes -> BOOLEAN]],
           failed' \in {0, 1}, failed' = 0 => failed = 0,
           raced' \in {0, 1}, raced' = 0 => raced = 0
    PROVE  NsInv'
  <1>1. /\ ctrlq' \in [Nodes -> Seq(Msgs)]
        /\ \A k \in Nodes : ctrlq'[k] \in Seq(CtrlMsgs(k))
        /\ \A s \in Sockets : Closing(ctrlq[s[1]], s) <=> Closing(ctrlq'[s[1]], s)
        /\ dropped = 0 => \A s \in Sockets \ open : s \notin closing => Clean(ctrlq'[s[1]], s)
        /\ raced = 0 => \A s \in Sockets :
             /\ s \in closing => ~Asked(ctrlq'[s[1]], s)
             /\ Ordered(ctrlq'[s[1]], s)
             /\ Looks(s) => ClosesFirst(ctrlq'[s[1]], s)
    <2>1. \A s : ~Closes(Head(ctrlq[n]), s)
      BY DEF Take, Closes
    <2> QED
      BY <2>1, TakeFacts
  <1>2. open' = open /\ closing' = closing /\ open \subseteq Sockets
    BY DEF sockVars, NsInv, TypeOK
  <1>3. TypeOK'
    <2>1. DirType /\ SockType /\ NetType /\ LinkType /\ HistType
      BY TypeParts DEF NsInv
    <2>2. DirType' /\ SockType'
      BY <2>1, TypeSame DEF DirType
    <2>3. NetType' /\ HistType' /\ LinkType'
      BY <1>1, <2>1 DEF NetType, HistType, ChanOK, LinkType
    <2> QED
      BY <2>2, <2>3, TypeParts
  <1>4. MsgInv' /\ FiniteInv' /\ SocketInv'
    BY <1>1, <1>2 DEF NsInv, MsgInv, FiniteInv, SocketInv, ChanOK
  <1>5. CoverInv' /\ OrderInv'
    BY <1>1, <1>2 DEF NsInv, CoverInv, OrderInv, Kept, Looks
  <1>6. ViewInv'
    BY <1>1, <1>2 DEF NsInv, ViewInv, Justified
  <1>7. LookupComplete'
    <2>1. SUFFICES ASSUME failed' = 0, dropped = 0, missed = 0, NEW l \in lookups, Current(l)'
                   PROVE  \A v \in dir[l.sock[1]] : Wants(l, v) => v \in view[l.sock]
      BY DEF LookupComplete
    <2>2. l.sock \in open /\ l.sock \notin closing /\ ~Closing(ctrlq'[l.sock[1]], l.sock)
      BY <1>2, <2>1 DEF Current, Leaving, Closing, Closes
    <2>3. l.sock \in Sockets
      BY <1>2, <2>2
    <2>4. Current(l)
      BY <1>1, <2>2, <2>3, CurrentMeans
    <2> QED
      BY <2>1, <2>4 DEF NsInv, LookupComplete
  <1> QED
    BY <1>3, <1>4, <1>5, <1>6, <1>7 DEF NsInv

(* ctrl_cmd_hello(). *)
LEMMA HelloStep ==
    ASSUME NsInv, NEW n \in Nodes, CtrlCmdHello(n)
    PROVE  NsInv'
  <1> DEFINE p == Head(ctrlq[n])
             m == p.arg
             announced == {v \in dir[n] : v.node # m /\ (v.node = n \/ ~known[n][v.node])}
             order == SetToSeq(announced)
             news == [i \in DOMAIN order |-> Msg("NEW_SERVER", Ctrl(n), order[i])]
             hello == IF helloSent[n][m] THEN <<>> ELSE <<Msg("HELLO", Ctrl(n), n)>>
             all == hello \o news
  <1>1. Take(n, "HELLO")
    BY DEF CtrlCmdHello
  <1>2. UNCHANGED <<dir, lookups, view, sockVars, backlog, link, helloRcvd, known,
                    dropped, missed, replaced>>
    BY DEF CtrlCmdHello
  <1>3. p \in Msgs /\ p.cmd = "HELLO"
    BY <1>1, TakeFacts
  <1>4. m \in Nodes
    BY <1>3, MsgFacts
  <1>5. all \in Seq(LinkMsgs(m))
    <2>1. announced \subseteq Servers /\ IsFiniteSet(announced)
      <3>1. dir[n] \subseteq Servers /\ IsFiniteSet(dir[n])
        BY DEF NsInv, TypeOK, FiniteInv
      <3>2. announced \subseteq dir[n]
        OBVIOUS
      <3> QED
        BY <3>1, <3>2, FS_Subset
    <2>2. order \in Seq(announced)
      BY <2>1, ListType
    <2>3. ASSUME NEW v \in announced PROVE Msg("NEW_SERVER", Ctrl(n), v) \in LinkMsgs(m)
      <3>1. v \in Servers /\ v.node # m
        BY <2>1
      <3>2. Msg("NEW_SERVER", Ctrl(n), v) \in Msgs
        BY <3>1, MsgMembers
      <3> QED
        BY <3>1, <3>2 DEF LinkMsgs, LocalClose, Msg
    <2>4. Msg("HELLO", Ctrl(n), n) \in LinkMsgs(m)
      BY MsgMembers DEF LinkMsgs, LocalClose, Msg
    <2> HIDE DEF announced
    <2>5. news \in Seq(LinkMsgs(m))
      <3>1. /\ DOMAIN order = 1..Len(order) /\ Len(order) \in Nat
            /\ \A i \in DOMAIN order : order[i] \in announced
        BY <2>2
      <3> HIDE DEF order
      <3>2. news \in [1..Len(order) -> LinkMsgs(m)]
        BY <2>3, <3>1
      <3> QED
        BY <3>1, <3>2
    <2>6. hello \in Seq(LinkMsgs(m))
      <3>1. <<>> \in Seq(LinkMsgs(m)) /\ <<Msg("HELLO", Ctrl(n), n)>> \in Seq(LinkMsgs(m))
        BY <2>4
      <3> QED
        BY <3>1
    <2> HIDE DEF hello, news
    <2> QED
      BY <2>5, <2>6
  <1>6. /\ \/ UNCHANGED <<helloSent, chan, failed>>
           \/ /\ helloSent' = [helloSent EXCEPT ![n][m] = TRUE]
              /\ chan' = [chan EXCEPT ![n][m] = IF Carried(n, m) THEN @ \o all ELSE @]
              /\ UNCHANGED failed
           \/ \E i \in 0..(Len(all) - 1) :
                 /\ helloSent' = [helloSent EXCEPT ![n][m] = @ \/ i > 0]
                 /\ chan' = [chan EXCEPT ![n][m] = @ \o SubSeq(all, 1, i)]
                 /\ failed' = 1
        /\ raced' = 1 \/ raced' = raced
    BY DEF CtrlCmdHello
  <1> HIDE DEF all, m, p
  <1>7. chan[n][m] \in Seq(LinkMsgs(m)) /\ ChanOK(chan)
    BY <1>4, ChanMeans DEF NsInv, MsgInv
  <1>8. helloSent \in [Nodes -> [Nodes -> BOOLEAN]] /\ failed \in {0, 1} /\ raced \in {0, 1}
    BY DEF NsInv, TypeOK
  <1>9. /\ ChanOK(chan')
        /\ helloSent' \in [Nodes -> [Nodes -> BOOLEAN]]
        /\ failed' \in {0, 1} /\ (failed' = 0 => failed = 0)
    <2>1. CASE UNCHANGED <<helloSent, chan, failed>>
      BY <1>7, <1>8, <2>1
    <2>2. CASE /\ helloSent' = [helloSent EXCEPT ![n][m] = TRUE]
               /\ chan' = [chan EXCEPT ![n][m] = IF Carried(n, m) THEN @ \o all ELSE @]
               /\ UNCHANGED failed
      <3> DEFINE q == IF Carried(n, m) THEN chan[n][m] \o all ELSE chan[n][m]
      <3>1. chan[n][m] \o all \in Seq(LinkMsgs(m))
        BY <1>5, <1>7
      <3>2. q \in Seq(LinkMsgs(m))
        BY <1>7, <3>1
      <3>3. chan' = [chan EXCEPT ![n][m] = q]
        BY <2>2
      <3> HIDE DEF q
      <3>4. ChanOK(chan')
        BY <1>4, <1>7, <3>2, <3>3, ChanUpdate
      <3>5. TRUE \in BOOLEAN
        OBVIOUS
      <3>6. helloSent' \in [Nodes -> [Nodes -> BOOLEAN]]
        BY <1>4, <1>8, <2>2, <3>5, TableUpdate
      <3> QED
        BY <1>8, <2>2, <3>4, <3>6
    <2>3. ASSUME NEW i \in 0..(Len(all) - 1),
                 helloSent' = [helloSent EXCEPT ![n][m] = @ \/ i > 0],
                 chan' = [chan EXCEPT ![n][m] = @ \o SubSeq(all, 1, i)],
                 failed' = 1
          PROVE  /\ ChanOK(chan')
                 /\ helloSent' \in [Nodes -> [Nodes -> BOOLEAN]]
                 /\ failed' \in {0, 1} /\ (failed' = 0 => failed = 0)
      <3> DEFINE q == chan[n][m] \o SubSeq(all, 1, i)
                 b == helloSent[n][m] \/ i > 0
      <3>1. SubSeq(all, 1, i) \in Seq(LinkMsgs(m))
        BY <1>5
      <3>2. q \in Seq(LinkMsgs(m))
        BY <1>7, <3>1
      <3>3. chan' = [chan EXCEPT ![n][m] = q]
        BY <2>3
      <3>4. helloSent' = [helloSent EXCEPT ![n][m] = b]
        BY <2>3
      <3>5. b \in BOOLEAN
        OBVIOUS
      <3> HIDE DEF q, b
      <3>6. ChanOK(chan')
        BY <1>4, <1>7, <3>2, <3>3, ChanUpdate
      <3>7. helloSent' \in [Nodes -> [Nodes -> BOOLEAN]]
        BY <1>4, <1>8, <3>4, <3>5, TableUpdate
      <3> QED
        BY <2>3, <3>6, <3>7
    <2> QED
      BY <1>6, <2>1, <2>2, <2>3
  <1>10. raced' \in {0, 1} /\ (raced' = 0 => raced = 0)
    BY <1>6, <1>8
  <1>11. "HELLO" # "DEL_CLIENT"
    OBVIOUS
  <1> QED
    BY <1>1, <1>2, <1>9, <1>10, <1>11, PassStep

(* Message p makes the name service of n forget the servers "gone" and     *)
(* keep the lookups "left": it drops the lookups of no socket but one that *)
(* it closes, and everything that is kept for that one.                    *)
Forgets(p, n, gone, left) ==
    /\ gone \subseteq dir[n] /\ left \subseteq lookups
    /\ \A l \in lookups : l \notin left => l.sock[1] = n /\ Closes(p, l.sock)
    /\ \A s \in Sockets : s[1] = n /\ Closes(p, s) =>
          /\ \A l \in left : l.sock # s
          /\ \A v \in dir[n] : <<v.node, v.port>> = s => v \in gone

LEMMA ForgetStep ==
    ASSUME NsInv, NEW n \in Nodes, NEW cmd, Take(n, cmd),
           NEW gone, NEW left, Forgets(Head(ctrlq[n]), n, gone, left),
           lookups' = left,
           dir' = [dir EXCEPT ![n] = @ \ gone],
           NotifyDel(n, left, gone),
           ChanOK(chan'), failed' \in {0, 1}, failed' = 0 => failed = 0,
           UNCHANGED <<sockVars, linkVars, dropped, raced, replaced>>
    PROVE  NsInv'
  <1> DEFINE p == Head(ctrlq[n])
  <1>1. /\ ctrlq' \in [Nodes -> Seq(Msgs)]
        /\ \A k \in Nodes : ctrlq'[k] \in Seq(CtrlMsgs(k))
        /\ \A s \in Sockets :
             Closing(ctrlq[s[1]], s) <=>
                 Closing(ctrlq'[s[1]], s) \/ (s[1] = n /\ Closes(p, s))
        /\ dropped = 0 => \A s \in Sockets \ open : s \notin closing => Clean(ctrlq'[s[1]], s)
        /\ raced = 0 => \A s \in Sockets :
             /\ s \in closing => ~Asked(ctrlq'[s[1]], s)
             /\ Ordered(ctrlq'[s[1]], s)
             /\ Looks(s) => ClosesFirst(ctrlq'[s[1]], s)
    BY TakeFacts
  <1>2. /\ gone \subseteq dir[n] /\ left \subseteq lookups
        /\ \A l \in lookups : l \notin left => l.sock[1] = n /\ Closes(p, l.sock)
    BY DEF Forgets
  <1>3. \A s \in Sockets : s[1] = n /\ Closes(p, s) =>
               /\ \A l \in left : l.sock # s
               /\ \A v \in dir[n] : <<v.node, v.port>> = s => v \in gone
    BY DEF Forgets
  <1> HIDE DEF p
  <1>4. /\ DirType /\ SockType /\ NetType /\ LinkType /\ HistType /\ TypeOK
        /\ dir \in [Nodes -> SUBSET Servers]
        /\ open \subseteq Sockets
        /\ \A l \in lookups : l.sock \in Observers
    BY TypeParts DEF NsInv, DirType, SockType, Lookup
  <1>5. /\ dir'[n] = dir[n] \ gone
        /\ \A k \in Nodes \ {n} : dir'[k] = dir[k]
        /\ dir' \in [Nodes -> SUBSET Servers]
        /\ gone \in SUBSET Servers
    <2>1. dir[n] \ gone \in SUBSET Servers
      BY <1>4
    <2> QED
      BY <1>2, <1>4, <2>1
  <1>6. /\ view' \in [Sockets -> SUBSET Servers]
        /\ missed' \in {0, 1} /\ (missed' = 0 => missed = 0)
        /\ \A s \in Sockets : view'[s] \subseteq view[s]
        /\ \A s \in Sockets : \A v \in view[s] : v \notin view'[s] => v \in gone /\ s[1] = n
        /\ missed' = 0 => \A s \in Observers : s[1] = n /\ s \in open =>
              \A v \in gone : (\E l \in left : l.sock = s /\ Wants(l, v)) => v \notin view'[s]
    BY <1>4, <1>5, NotifyDelFacts
  <1>7. open' = open /\ closing' = closing
    BY DEF sockVars
  <1>8. TypeOK'
    <2>1. DirType' /\ SockType'
      BY <1>2, <1>4, <1>5, <1>6, TypeSame DEF DirType
    <2>2. NetType' /\ HistType' /\ LinkType'
      BY <1>1, <1>4, <1>6, TypeSame DEF NetType, HistType, ChanOK
    <2> QED
      BY <2>1, <2>2, TypeParts
  <1>9. FiniteInv'
    <2>1. SUFFICES ASSUME NEW k \in Nodes PROVE IsFiniteSet(dir'[k])
      BY DEF FiniteInv
    <2>2. IsFiniteSet(dir[k]) /\ dir'[k] \subseteq dir[k]
      BY <1>5 DEF NsInv, FiniteInv
    <2> QED
      BY <2>2, FS_Subset
  <1>10. SocketInv'
    BY <1>6, <1>7 DEF NsInv, SocketInv
  <1>11. ASSUME NEW s \in Sockets PROVE Looks(s)' => Looks(s)
    BY <1>2 DEF Looks
  <1>12. CoverInv'
    <2>1. SUFFICES ASSUME dropped = 0, NEW s \in Sockets, s \notin open, Kept(s)'
                   PROVE  s \in closing \/ Closing(ctrlq'[s[1]], s)
      BY <1>1, <1>7 DEF CoverInv
    <2>2. s[1] \in Nodes
      BY SocketFacts
    <2>3. Kept(s)
      BY <1>5, <1>11, <2>1, <2>2 DEF Kept
    <2>4. ~(s[1] = n /\ Closes(p, s))
      BY <1>3, <1>5, <2>1 DEF Kept, Looks
    <2> QED
      BY <1>1, <2>1, <2>3, <2>4 DEF NsInv, CoverInv
  <1>13. OrderInv'
    BY <1>1, <1>7, <1>11 DEF OrderInv
  <1>14. ViewInv'
    <2>1. SUFFICES ASSUME raced = 0, replaced = 0, missed' = 0, NEW s \in open
                   PROVE  /\ Closing(ctrlq'[s[1]], s) => view'[s] = {}
                          /\ Justified(s)'
      BY <1>7 DEF ViewInv
    <2>2. /\ s \in Sockets /\ s[1] \in Nodes
          /\ Closing(ctrlq[s[1]], s) => view[s] = {}
          /\ \A v \in view[s] : v \in dir[s[1]] /\ \E l \in lookups : l.sock = s /\ Wants(l, v)
      BY <1>4, <1>6, <2>1, SocketFacts DEF NsInv, ViewInv, Justified
    <2>3. view'[s] \subseteq view[s]
      BY <1>6, <2>2
    <2>4. Closing(ctrlq'[s[1]], s) => view'[s] = {}
      BY <1>1, <2>2, <2>3
    <2>5. ASSUME NEW v \in view'[s]
          PROVE  v \in dir'[s[1]] /\ \E l \in lookups' : l.sock = s /\ Wants(l, v)
      <3>1. v \in view[s] /\ ~Closing(ctrlq[s[1]], s)
        BY <2>2, <2>3
      <3>2. PICK l \in lookups : l.sock = s /\ Wants(l, v)
        BY <2>2, <3>1
      <3>3. l \in left /\ s \in Observers
        BY <1>1, <1>2, <1>4, <2>2, <3>1, <3>2
      <3>4. s[1] = n => v \notin gone
        BY <1>6, <2>1, <2>5, <3>2, <3>3
      <3>5. v \in dir'[s[1]]
        BY <1>5, <2>2, <3>1, <3>4
      <3> QED
        BY <3>2, <3>3, <3>5
    <2> QED
      BY <2>4, <2>5 DEF Justified
  <1>15. LookupComplete'
    <2>1. SUFFICES ASSUME failed' = 0, dropped = 0, missed' = 0, NEW l \in left, Current(l)',
                          NEW v \in dir'[l.sock[1]], Wants(l, v)
                   PROVE  v \in view'[l.sock]
      BY DEF LookupComplete
    <2>2. l.sock \in open /\ l.sock \notin closing /\ ~Closing(ctrlq'[l.sock[1]], l.sock)
      BY <1>7, <2>1 DEF Current, Leaving, Closing, Closes
    <2>3. l.sock \in Sockets /\ l.sock[1] \in Nodes
      BY <1>4, <2>2, SocketFacts
    <2>4. Current(l)
      BY <1>1, <1>3, <2>2, <2>3, CurrentMeans
    <2>5. v \in dir[l.sock[1]] /\ (l.sock[1] = n => v \notin gone)
      BY <1>5, <2>1, <2>3
    <2>6. v \in view[l.sock]
      BY <1>2, <1>6, <2>1, <2>4, <2>5 DEF NsInv, LookupComplete
    <2> QED
      BY <1>6, <2>3, <2>5, <2>6
  <1>16. MsgInv'
    BY <1>1 DEF NsInv, MsgInv, ChanOK, linkVars
  <1> QED
    BY <1>8, <1>9, <1>10, <1>12, <1>13, <1>14, <1>15, <1>16 DEF NsInv

LEMMA ByeStep ==
    ASSUME NsInv, NEW n \in Nodes, CtrlCmdBye(n)
    PROVE  NsInv'
  <1> DEFINE p == Head(ctrlq[n])
             gone == {v \in dir[n] : v.node = p.arg}
  <1>1. /\ Take(n, "BYE")
        /\ dir' = [dir EXCEPT ![n] = @ \ gone]
        /\ NotifyDel(n, lookups, gone)
        /\ lookups' = lookups
        /\ UNCHANGED <<sockVars, linkVars, dropped, raced, replaced>>
        /\ chan' = chan /\ failed' = failed
    BY DEF CtrlCmdBye
  <1>2. ChanOK(chan') /\ failed' \in {0, 1} /\ (failed' = 0 => failed = 0)
    BY <1>1, LinkParts
  <1>3. gone \subseteq dir[n]
    OBVIOUS
  <1>4. \A s : ~Closes(p, s)
    BY <1>1 DEF Take, Closes
  <1>5. Forgets(p, n, gone, lookups)
    BY <1>3, <1>4 DEF Forgets
  <1> HIDE DEF gone
  <1> QED
    BY <1>1, <1>2, <1>5, ForgetStep

LEMMA DelClientStep ==
    ASSUME NsInv, NEW n \in Nodes, CtrlCmdDelClient(n)
    PROVE  NsInv'
  <1> DEFINE p == Head(ctrlq[n])
             s == p.arg
             left == {l \in lookups : ~(l.sock = s /\ s[1] = n)}
             gone == AtSockets(dir[n], {s})
  <1>1. /\ Take(n, "DEL_CLIENT")
        /\ lookups' = left
        /\ dir' = [dir EXCEPT ![n] = @ \ gone]
        /\ NotifyDel(n, left, gone)
        /\ UNCHANGED <<sockVars, linkVars, dropped, raced, replaced>>
        /\ chan' = chan /\ failed' = failed
    BY DEF CtrlCmdDelClient
  <1>2. ChanOK(chan') /\ failed' \in {0, 1} /\ (failed' = 0 => failed = 0)
    BY <1>1, LinkParts
  <1>3. gone \subseteq dir[n] /\ left \subseteq lookups
    BY DEF AtSockets
  <1>4. p.cmd = "DEL_CLIENT"
    BY <1>1 DEF Take
  <1>5. \A l \in lookups : l \notin left => l.sock[1] = n /\ Closes(p, l.sock)
    BY <1>4 DEF Closes
  <1>6. \A t \in Sockets : t[1] = n /\ Closes(p, t) =>
               /\ \A l \in left : l.sock # t
               /\ \A v \in dir[n] : <<v.node, v.port>> = t => v \in gone
    BY DEF Closes, AtSockets
  <1>7. Forgets(p, n, gone, left)
    BY <1>3, <1>5, <1>6 DEF Forgets
  <1> HIDE DEF gone, left
  <1> QED
    BY <1>1, <1>2, <1>7, ForgetStep

LEMMA DelServerStep ==
    ASSUME NsInv, NEW n \in Nodes, CtrlCmdDelServer(n)
    PROVE  NsInv'
  <1> DEFINE p == Head(ctrlq[n])
             s == IF p.from[1] = n THEN p.from ELSE <<p.arg.node, p.arg.port>>
             gone == AtSockets(dir[n], {s})
             order == SetToSeq(gone)
             dels == [i \in DOMAIN order |-> Msg("DEL_SERVER", Ctrl(n), order[i])]
  <1>1. /\ Take(n, "DEL_SERVER")
        /\ dir' = [dir EXCEPT ![n] = @ \ gone]
        /\ NotifyDel(n, lookups, gone)
        /\ Broadcast(n, dels) \/ UNCHANGED <<chan, failed>>
        /\ lookups' = lookups
        /\ UNCHANGED <<sockVars, linkVars, dropped, raced, replaced>>
    BY DEF CtrlCmdDelServer
  <1>2. gone \subseteq dir[n]
    BY DEF AtSockets
  <1>3. gone \subseteq Servers /\ IsFiniteSet(gone)
    <2>1. dir[n] \subseteq Servers /\ IsFiniteSet(dir[n])
      BY DEF NsInv, TypeOK, FiniteInv
    <2> QED
      BY <1>2, <2>1, FS_Subset
  <1>4. \A t : ~Closes(p, t)
    BY <1>1 DEF Take, Closes
  <1> HIDE DEF gone
  <1>5. /\ DOMAIN order = 1..Len(order) /\ Len(order) \in Nat
        /\ \A i \in DOMAIN order : order[i] \in gone
    <2>1. order \in Seq(gone)
      BY <1>3, ListType
    <2> QED
      BY <2>1
  <1>6. ASSUME NEW v \in gone, NEW m \in Nodes
        PROVE  Msg("DEL_SERVER", Ctrl(n), v) \in LinkMsgs(m)
    <2>1. Msg("DEL_SERVER", Ctrl(n), v) \in Msgs
      BY <1>3, MsgMembers
    <2> QED
      BY <2>1 DEF LinkMsgs, LocalClose, Msg
  <1> HIDE DEF order
  <1>7. ASSUME NEW m \in Nodes PROVE dels \in Seq(LinkMsgs(m)) /\ dels \in Seq(Msgs)
    <2>1. dels \in [1..Len(order) -> LinkMsgs(m)]
      BY <1>5, <1>6
    <2>2. dels \in Seq(LinkMsgs(m))
      BY <1>5, <2>1
    <2> HIDE DEF dels
    <2> QED
      BY <2>2, LinkFacts
  <1> HIDE DEF dels
  <1>8. ChanOK(chan') /\ failed' \in {0, 1} /\ (failed' = 0 => failed = 0)
    <2>1. CASE Broadcast(n, dels)
      <3>1. TypeOK /\ ChanOK(chan) /\ dels \in Seq(Msgs)
        BY <1>7, ChanMeans DEF NsInv
      <3>2. \A m \in Nodes \ {n} : dels \in Seq(LinkMsgs(m))
        BY <1>7
      <3> QED
        BY <2>1, <3>1, <3>2, BroadcastKeeps
    <2>2. CASE UNCHANGED <<chan, failed>>
      BY <2>2, LinkParts
    <2> QED
      BY <1>1, <2>1, <2>2
  <1>9. Forgets(p, n, gone, lookups)
    BY <1>2, <1>4 DEF Forgets
  <1> QED
    BY <1>1, <1>8, <1>9, ForgetStep

(* ctrl_cmd_new_server() of a closed socket is closed by a later message;  *)
(* the old server of the port goes, and the observers hear of the new one. *)
LEMMA NewServerStep ==
    ASSUME NsInv, NEW n \in Nodes, CtrlCmdNewServer(n)
    PROVE  NsInv'
  <1> DEFINE p == Head(ctrlq[n])
             srv == p.arg
             new == Msg("NEW_SERVER", Ctrl(n), srv)
  <1>1. /\ Take(n, "NEW_SERVER")
        /\ dir' = [dir EXCEPT ![n] = ServerAdd(@, srv)]
        /\ replaced' = IF \E v \in AtSockets(dir[n], {<<srv.node, srv.port>>}) : v # srv
                       THEN 1 ELSE replaced
        /\ lookups' = lookups
        /\ UNCHANGED <<sockVars, linkVars, dropped, raced>>
    BY DEF CtrlCmdNewServer
  <1>2. \/ /\ NotifyNew(n, lookups, {srv})
           /\ (srv.node = n /\ Broadcast(n, <<new>>)) \/ UNCHANGED <<chan, failed>>
        \/ failed' = 1 /\ UNCHANGED <<chan, view, missed>>
    BY DEF CtrlCmdNewServer
  <1>3. /\ ctrlq' \in [Nodes -> Seq(Msgs)]
        /\ \A k \in Nodes : ctrlq'[k] \in Seq(CtrlMsgs(k))
        /\ p \in Msgs /\ p.cmd = "NEW_SERVER"
        /\ \A s \in Sockets : Closing(ctrlq[s[1]], s) <=> Closing(ctrlq'[s[1]], s)
        /\ dropped = 0 => \A s \in Sockets \ open :
             /\ s \notin closing => Clean(ctrlq'[s[1]], s)
             /\ s[1] = n /\ Opens(p, s) => s \in closing \/ Closing(ctrlq'[n], s)
        /\ raced = 0 => \A s \in Sockets :
             /\ s \in closing => ~Asked(ctrlq'[s[1]], s)
             /\ Ordered(ctrlq'[s[1]], s)
             /\ Looks(s) => ClosesFirst(ctrlq'[s[1]], s)
             /\ s[1] = n /\ Looks(s) => ~Closing(ctrlq[n], s)
    <2>1. \A s : ~Closes(p, s)
      BY <1>1 DEF Take, Closes
    <2> QED
      BY <1>1, <2>1, TakeFacts
  <1>4. srv \in Servers
    BY <1>3, MsgFacts
  <1>5. /\ DirType /\ SockType /\ NetType /\ LinkType /\ HistType /\ TypeOK
        /\ dir \in [Nodes -> SUBSET Servers]
        /\ view \in [Sockets -> SUBSET Servers]
        /\ open \subseteq Sockets
        /\ \A l \in lookups : l.sock \in Observers
        /\ failed \in {0, 1} /\ replaced \in {0, 1} /\ missed \in {0, 1}
    BY TypeParts DEF NsInv, DirType, SockType, HistType, Lookup
  <1>6. \A s : Opens(p, s) <=> <<srv.node, srv.port>> = s
    BY <1>3 DEF Opens, Asks
  <1>7. ChanOK(chan') /\ failed' \in {0, 1} /\ (failed' = 0 => failed = 0)
    <2>1. CASE UNCHANGED chan /\ (failed' = 1 \/ failed' = failed)
      BY <1>5, <2>1, ChanMeans
    <2>2. CASE srv.node = n /\ Broadcast(n, <<new>>)
      <3>1. new \in Msgs /\ new.cmd = "NEW_SERVER" /\ new.arg = srv
        BY <1>4, MsgMembers DEF Msg
      <3> HIDE DEF new, srv
      <3>2. \A m \in Nodes \ {n} : new \in LinkMsgs(m)
        BY <2>2, <3>1 DEF LinkMsgs, LocalClose
      <3>3. <<new>> \in Seq(Msgs) /\ \A m \in Nodes \ {n} : <<new>> \in Seq(LinkMsgs(m))
        BY <3>1, <3>2
      <3> QED
        BY <1>5, <2>2, <3>3, ChanMeans, BroadcastKeeps
    <2> QED
      BY <1>2, <2>1, <2>2
  <1>8. /\ view' \in [Sockets -> SUBSET Servers]
        /\ missed' \in {0, 1} /\ (missed' = 0 => missed = 0)
        /\ \A s \in Sockets : view[s] \subseteq view'[s]
        /\ \A s \in Sockets : \A v \in view'[s] :
              \/ v \in view[s]
              \/ /\ v = srv /\ s[1] = n /\ s \in open
                 /\ \E l \in lookups : l.sock = s /\ Wants(l, srv)
        /\ failed' = 0 /\ missed' = 0 => \A s \in Observers :
              s[1] = n /\ s \in open /\ (\E l \in lookups : l.sock = s /\ Wants(l, srv)) =>
                  srv \in view'[s]
    <2>1. CASE NotifyNew(n, lookups, {srv})
      <3>1. {srv} \in SUBSET Servers
        BY <1>4
      <3>2. /\ view' \in [Sockets -> SUBSET Servers]
            /\ missed' \in {0, 1} /\ (missed' = 0 => missed = 0)
            /\ \A s \in Sockets : view[s] \subseteq view'[s]
            /\ \A s \in Sockets : \A v \in view'[s] :
                  \/ v \in view[s]
                  \/ /\ v \in {srv} /\ s[1] = n /\ s \in open
                     /\ \E l \in lookups : l.sock = s /\ Wants(l, v)
            /\ missed' = 0 => \A s \in Observers : s[1] = n /\ s \in open =>
                  \A v \in {srv} : (\E l \in lookups : l.sock = s /\ Wants(l, v)) => v \in view'[s]
        BY <1>5, <2>1, <3>1, NotifyNewFacts
      <3> QED
        BY <3>2
    <2>2. CASE failed' = 1 /\ UNCHANGED <<chan, view, missed>>
      BY <1>5, <2>2
    <2> QED
      BY <1>2, <2>1, <2>2
  <1>9. open' = open /\ closing' = closing
    BY <1>1 DEF sockVars
  <1> HIDE DEF p, srv, new
  <1>10. /\ dir'[n] = {v \in dir[n] : <<v.node, v.port>> # <<srv.node, srv.port>>} \cup {srv}
         /\ \A k \in Nodes \ {n} : dir'[k] = dir[k]
         /\ dir' \in [Nodes -> SUBSET Servers]
    BY <1>1, <1>4, <1>5 DEF ServerAdd
  <1>11. TypeOK'
    <2>1. DirType' /\ SockType'
      BY <1>1, <1>5, <1>8, <1>10, TypeSame DEF DirType
    <2>2. NetType' /\ LinkType'
      BY <1>1, <1>3, <1>5, <1>7, TypeSame DEF NetType, ChanOK
    <2>3. replaced' \in {0, 1}
      BY <1>1, <1>5
    <2>4. HistType'
      BY <1>1, <1>5, <1>7, <1>8, <2>3 DEF HistType
    <2> QED
      BY <2>1, <2>2, <2>4, TypeParts
  <1>12. FiniteInv'
    <2>1. SUFFICES ASSUME NEW k \in Nodes PROVE IsFiniteSet(dir'[k])
      BY DEF FiniteInv
    <2>2. IsFiniteSet(dir[k])
      BY DEF NsInv, FiniteInv
    <2>3. CASE k = n
      <3> DEFINE D == {v \in dir[n] : <<v.node, v.port>> # <<srv.node, srv.port>>}
      <3>1. D \subseteq dir[n]
        OBVIOUS
      <3>2. IsFiniteSet(D)
        BY <2>2, <2>3, <3>1, FS_Subset
      <3> HIDE DEF D
      <3>3. IsFiniteSet(D \cup {srv})
        BY <3>2, FS_AddElement
      <3> QED
        BY <1>10, <2>3, <3>3 DEF D
    <2>4. CASE k # n
      BY <1>10, <2>2, <2>4
    <2> QED
      BY <2>3, <2>4
  <1>13. SocketInv'
    <2>1. \A s \in Sockets : s \notin open => view'[s] = view[s]
      BY <1>8
    <2> QED
      BY <1>9, <2>1 DEF NsInv, SocketInv
  <1>14. \A s \in Sockets : Looks(s)' <=> Looks(s)
    BY <1>1 DEF Looks
  <1>15. CoverInv'
    <2>1. SUFFICES ASSUME dropped = 0, NEW s \in Sockets, s \notin open, Kept(s)'
                   PROVE  s \in closing \/ Closing(ctrlq'[s[1]], s)
      BY <1>1, <1>3, <1>9 DEF CoverInv
    <2>2. s[1] \in Nodes
      BY SocketFacts
    <2>3. Kept(s) \/ (s[1] = n /\ Opens(p, s))
      BY <1>6, <1>10, <1>14, <2>1, <2>2 DEF Kept
    <2> QED
      BY <1>3, <2>1, <2>3 DEF NsInv, CoverInv
  <1>16. OrderInv'
    BY <1>1, <1>3, <1>9, <1>14 DEF OrderInv
  <1>17. ViewInv'
    <2>1. SUFFICES ASSUME raced = 0, replaced' = 0, missed' = 0, NEW s \in open
                   PROVE  /\ Closing(ctrlq'[s[1]], s) => view'[s] = {}
                          /\ Justified(s)'
      BY <1>1, <1>9 DEF ViewInv
    <2>2. /\ replaced = 0 /\ missed = 0
          /\ \A v \in dir[n] : <<v.node, v.port>> = <<srv.node, srv.port>> => v = srv
      BY <1>1, <1>8, <2>1 DEF AtSockets
    <2>3. dir[n] \subseteq dir'[n] /\ srv \in dir'[n]
      BY <1>10, <2>2
    <2>4. /\ s \in Sockets /\ s[1] \in Nodes
          /\ Closing(ctrlq[s[1]], s) => view[s] = {}
          /\ \A v \in view[s] : v \in dir[s[1]] /\ \E l \in lookups : l.sock = s /\ Wants(l, v)
      BY <1>5, <2>1, <2>2, SocketFacts DEF NsInv, ViewInv, Justified
    <2>5. \A v \in view'[s] :
              v \in view[s] \/ (v = srv /\ s[1] = n /\ \E l \in lookups : l.sock = s /\ Wants(l, srv))
      BY <1>8, <2>4
    <2>6. Closing(ctrlq'[s[1]], s) => view'[s] = {}
      <3>1. SUFFICES ASSUME Closing(ctrlq'[s[1]], s), NEW v \in view'[s] PROVE FALSE
        OBVIOUS
      <3>2. Closing(ctrlq[s[1]], s) /\ v \notin view[s]
        BY <1>3, <2>4, <3>1
      <3>3. s[1] = n /\ Looks(s)
        BY <2>5, <3>1, <3>2 DEF Looks
      <3> QED
        BY <1>3, <2>1, <2>4, <3>2, <3>3
    <2>7. Justified(s)'
      BY <1>1, <1>10, <2>3, <2>4, <2>5 DEF Justified
    <2> QED
      BY <2>6, <2>7
  <1>18. LookupComplete'
    <2>1. SUFFICES ASSUME failed' = 0, dropped = 0, missed' = 0, NEW l \in lookups, Current(l)',
                          NEW v \in dir'[l.sock[1]], Wants(l, v)
                   PROVE  v \in view'[l.sock]
      BY <1>1 DEF LookupComplete
    <2>2. l.sock \in open /\ l.sock \notin closing /\ ~Closing(ctrlq'[l.sock[1]], l.sock)
      BY <1>9, <2>1 DEF Current, Leaving, Closing, Closes
    <2>3. l.sock \in Sockets /\ l.sock[1] \in Nodes /\ l.sock \in Observers
      BY <1>5, <2>2, SocketFacts
    <2>4. Current(l)
      BY <1>3, <2>2, <2>3, CurrentMeans
    <2>5. failed = 0 /\ missed = 0 /\ view[l.sock] \subseteq view'[l.sock]
      BY <1>7, <1>8, <2>1, <2>3
    <2>6. v \in dir[l.sock[1]] \/ (l.sock[1] = n /\ v = srv)
      BY <1>10, <2>1, <2>3
    <2>7. CASE v \in dir[l.sock[1]]
      BY <2>1, <2>4, <2>5, <2>7 DEF NsInv, LookupComplete
    <2>8. CASE l.sock[1] = n /\ v = srv
      BY <1>8, <2>1, <2>2, <2>3, <2>8
    <2> QED
      BY <2>6, <2>7, <2>8
  <1>19. MsgInv'
    BY <1>1, <1>3, <1>7 DEF NsInv, MsgInv, ChanOK, linkVars
  <1> QED
    BY <1>11, <1>12, <1>13, <1>15, <1>16, <1>17, <1>18, <1>19 DEF NsInv

(* A request for which there is no memory. *)
LEMMA GiveUpStep ==
    ASSUME NsInv, NEW n \in Nodes, NEW cmd \in {"NEW_SERVER", "NEW_LOOKUP"}, Take(n, cmd),
           failed' \in {failed, 1},
           UNCHANGED <<dir, lookups, view, sockVars, chan, linkVars, dropped, missed, raced, replaced>>
    PROVE  NsInv'
  <1>1. LinkType /\ ChanOK(chan') /\ failed \in {0, 1} /\ raced \in {0, 1}
    BY LinkParts
  <1>2. helloSent' \in [Nodes -> [Nodes -> BOOLEAN]]
    BY <1>1 DEF LinkType, linkVars
  <1>3. UNCHANGED <<dir, lookups, view, sockVars, backlog, link, helloRcvd, known,
                    dropped, missed, replaced>>
    BY DEF linkVars
  <1>4. failed' \in {0, 1} /\ (failed' = 0 => failed = 0)
    BY <1>1
  <1> QED
    BY <1>1, <1>2, <1>3, <1>4, PassStep

LEMMA NewServerFailStep ==
    ASSUME NsInv, NEW n \in Nodes, CtrlCmdNewServerFail(n)
    PROVE  NsInv'
  BY GiveUpStep DEF CtrlCmdNewServerFail

(* A request that changes the lookups of one socket, and what that socket  *)
(* was told by it.                                                         *)
LEMMA LookupsStep ==
    ASSUME NsInv, NEW n \in Nodes, NEW cmd \in {"NEW_LOOKUP", "DEL_LOOKUP"}, Take(n, cmd),
           NEW p, p = Head(ctrlq[n]),
           UNCHANGED <<dir, sockVars, chan, linkVars, failed, dropped, raced, replaced>>,
           lookups' \subseteq {Lookup(s, q) : s \in Observers, q \in Queries},
           view' \in [Sockets -> SUBSET Servers],
           missed' \in {0, 1}, missed' = 0 => missed = 0,
           \A s \in Sockets : Looks(s)' => Looks(s) \/ (s[1] = n /\ Asks(p, s)),
           \A s \in Sockets : \A v \in view'[s] :
              /\ v \in view[s] \/ (v \in dir[s[1]] /\ s[1] = n /\ s \in open /\ Asks(p, s))
              /\ (v \in view[s] => \E l \in lookups : l.sock = s /\ Wants(l, v)) =>
                    \E l \in lookups' : l.sock = s /\ Wants(l, v),
           missed' = 0 => \A l \in lookups' : l.sock \in open =>
              \A v \in dir[l.sock[1]] :
                 Wants(l, v) /\ (l \in lookups => v \in view[l.sock]) => v \in view'[l.sock]
    PROVE  NsInv'
  <1>1. /\ ctrlq' \in [Nodes -> Seq(Msgs)]
        /\ \A k \in Nodes : ctrlq'[k] \in Seq(CtrlMsgs(k))
        /\ p \in Msgs /\ p.cmd = cmd
        /\ \A s \in Sockets : Closing(ctrlq[s[1]], s) <=> Closing(ctrlq'[s[1]], s)
        /\ dropped = 0 => \A s \in Sockets \ open :
             /\ s \notin closing => Clean(ctrlq'[s[1]], s)
             /\ s[1] = n /\ Opens(p, s) => s \in closing \/ Closing(ctrlq'[n], s)
        /\ raced = 0 => \A s \in Sockets :
             /\ s \in closing => ~Asked(ctrlq'[s[1]], s)
             /\ Ordered(ctrlq'[s[1]], s)
             /\ Looks(s) \/ (s[1] = n /\ Asks(p, s)) => ClosesFirst(ctrlq'[s[1]], s)
             /\ s[1] = n /\ Asks(p, s) => ~Closing(ctrlq[n], s)
    <2>1. \A s : ~Closes(p, s)
      BY DEF Take, Closes
    <2> QED
      BY <2>1, TakeFacts
  <1>2. /\ DirType /\ SockType /\ NetType /\ LinkType /\ HistType
        /\ open \subseteq Sockets
    BY TypeParts DEF NsInv, SockType
  <1>3. open' = open /\ closing' = closing
    BY DEF sockVars
  <1>4. TypeOK'
    <2>1. DirType' /\ SockType'
      BY <1>2, TypeSame DEF DirType
    <2>2. NetType' /\ LinkType'
      BY <1>1, <1>2, TypeSame DEF NetType
    <2>3. HistType'
      BY <1>2 DEF HistType
    <2> QED
      BY <2>1, <2>2, <2>3, TypeParts
  <1>5. MsgInv' /\ FiniteInv'
    BY <1>1 DEF NsInv, MsgInv, FiniteInv, linkVars
  <1>6. SocketInv'
    <2>1. \A s \in Sockets : s \notin open => view'[s] \subseteq view[s]
      OBVIOUS
    <2> QED
      BY <1>3, <2>1 DEF NsInv, SocketInv
  <1>7. CoverInv'
    <2>1. SUFFICES ASSUME dropped = 0, NEW s \in Sockets, s \notin open, Kept(s)'
                   PROVE  s \in closing \/ Closing(ctrlq'[s[1]], s)
      BY <1>1, <1>3 DEF CoverInv
    <2>2. Kept(s) \/ (s[1] = n /\ Opens(p, s))
      BY <2>1 DEF Kept, Opens
    <2> QED
      BY <1>1, <2>1, <2>2 DEF NsInv, CoverInv
  <1>8. OrderInv'
    BY <1>1, <1>3 DEF OrderInv
  <1>9. ViewInv'
    <2>1. SUFFICES ASSUME raced = 0, replaced = 0, missed' = 0, NEW s \in open
                   PROVE  /\ Closing(ctrlq'[s[1]], s) => view'[s] = {}
                          /\ Justified(s)'
      BY <1>3 DEF ViewInv
    <2>2. /\ s \in Sockets
          /\ Closing(ctrlq[s[1]], s) => view[s] = {}
          /\ \A v \in view[s] : v \in dir[s[1]] /\ \E l \in lookups : l.sock = s /\ Wants(l, v)
      BY <1>2, <2>1 DEF NsInv, ViewInv, Justified
    <2>3. Closing(ctrlq'[s[1]], s) => view'[s] = {}
      BY <1>1, <2>1, <2>2
    <2>4. ASSUME NEW v \in view'[s]
          PROVE  v \in dir[s[1]] /\ \E l \in lookups' : l.sock = s /\ Wants(l, v)
      BY <2>2, <2>4
    <2> QED
      BY <2>3, <2>4 DEF Justified
  <1>10. LookupComplete'
    <2>1. SUFFICES ASSUME failed = 0, dropped = 0, missed' = 0, NEW l \in lookups', Current(l)',
                          NEW v \in dir[l.sock[1]], Wants(l, v)
                   PROVE  v \in view'[l.sock]
      BY DEF LookupComplete
    <2>2. l.sock \in open /\ l.sock \notin closing /\ ~Closing(ctrlq'[l.sock[1]], l.sock)
      BY <1>3, <2>1 DEF Current, Leaving, Closing, Closes
    <2>3. Current(l)
      BY <1>1, <1>2, <2>2, CurrentMeans
    <2>4. l \in lookups => v \in view[l.sock]
      BY <2>1, <2>3 DEF NsInv, LookupComplete
    <2> QED
      BY <2>1, <2>2, <2>4
  <1> QED
    BY <1>4, <1>5, <1>6, <1>7, <1>8, <1>9, <1>10 DEF NsInv

LEMMA NewLookupStep ==
    ASSUME NsInv, NEW n \in Nodes, CtrlCmdNewLookup(n)
    PROVE  NsInv'
  <1> DEFINE p == Head(ctrlq[n])
             o == p.from
             l0 == Lookup(o, p.arg)
  <1>1. /\ Take(n, "NEW_LOOKUP")
        /\ UNCHANGED <<dir, sockVars, chan, linkVars, failed, dropped, raced, replaced>>
    BY DEF CtrlCmdNewLookup
  <1>2. \/ lookups' = lookups \cup {l0} /\ NotifyNew(n, {l0}, dir[n])
        \/ UNCHANGED <<lookups, view, missed>>
    BY DEF CtrlCmdNewLookup
  <1>3. p \in Msgs /\ p \in CtrlMsgs(n) /\ p.cmd = "NEW_LOOKUP"
    BY <1>1, TakeFacts
  <1>4. o \in Observers /\ p.arg \in Queries /\ o[1] = n
    BY <1>3, MsgFacts DEF CtrlMsgs
  <1>5. Asks(p, o) /\ l0.sock = o /\ l0 \in {Lookup(s, q) : s \in Observers, q \in Queries}
    BY <1>3, <1>4 DEF Asks, Lookup
  <1>6. TypeOK /\ dir[n] \in SUBSET Servers
        /\ lookups \subseteq {Lookup(s, q) : s \in Observers, q \in Queries}
    BY DEF NsInv, TypeOK
  <1>7. \A l \in lookups : l.sock \in Observers
    BY <1>6 DEF Lookup
  <1> HIDE DEF l0, o, p
  <1>8. CASE lookups' = lookups \cup {l0} /\ NotifyNew(n, {l0}, dir[n])
    <2>1. /\ view' \in [Sockets -> SUBSET Servers]
          /\ missed' \in {0, 1} /\ (missed' = 0 => missed = 0)
          /\ \A s \in Sockets : view[s] \subseteq view'[s]
          /\ \A s \in Sockets : \A v \in view'[s] :
                \/ v \in view[s]
                \/ /\ v \in dir[n] /\ s[1] = n /\ s \in open
                   /\ \E l \in {l0} : l.sock = s /\ Wants(l, v)
          /\ missed' = 0 => \A s \in Observers : s[1] = n /\ s \in open =>
                \A v \in dir[n] : (\E l \in {l0} : l.sock = s /\ Wants(l, v)) => v \in view'[s]
      BY <1>6, <1>8, NotifyNewFacts
    <2>2. lookups' \subseteq {Lookup(s, q) : s \in Observers, q \in Queries}
      BY <1>5, <1>6, <1>8
    <2>3. \A s \in Sockets : Looks(s)' => Looks(s) \/ (s[1] = n /\ Asks(p, s))
      BY <1>4, <1>5, <1>8 DEF Looks
    <2>4. ASSUME NEW s \in Sockets, NEW v \in view'[s]
          PROVE  /\ v \in view[s] \/ (v \in dir[s[1]] /\ s[1] = n /\ s \in open /\ Asks(p, s))
                 /\ (v \in view[s] => \E l \in lookups : l.sock = s /\ Wants(l, v)) =>
                       \E l \in lookups' : l.sock = s /\ Wants(l, v)
      BY <1>5, <1>8, <2>1, <2>4
    <2>5. ASSUME missed' = 0, NEW l \in lookups', l.sock \in open, NEW v \in dir[l.sock[1]],
                 Wants(l, v), l \in lookups => v \in view[l.sock]
          PROVE  v \in view'[l.sock]
      <3>1. l.sock \in Sockets /\ l.sock \in Observers
        BY <1>4, <1>5, <1>7, <1>8, <2>5 DEF Sockets
      <3>2. CASE l \in lookups
        BY <2>1, <2>5, <3>1, <3>2
      <3>3. CASE l = l0
        BY <1>4, <1>5, <2>1, <2>5, <3>1, <3>3
      <3> QED
        BY <1>8, <3>2, <3>3
    <2>6. p = Head(ctrlq[n]) /\ "NEW_LOOKUP" \in {"NEW_LOOKUP", "DEL_LOOKUP"}
      BY DEF p
    <2> QED
      BY <1>1, <2>1, <2>2, <2>3, <2>4, <2>5, <2>6, LookupsStep
  <1>9. CASE UNCHANGED <<lookups, view, missed>>
    <2>1. "NEW_LOOKUP" \in {"NEW_SERVER", "NEW_LOOKUP"} /\ failed' \in {failed, 1}
      BY <1>1
    <2> QED
      BY <1>1, <1>9, <2>1, GiveUpStep
  <1> QED
    BY <1>2, <1>8, <1>9

LEMMA DelLookupStep ==
    ASSUME NsInv, NEW n \in Nodes, CtrlCmdDelLookup(n)
    PROVE  NsInv'
  <1> DEFINE p == Head(ctrlq[n])
             o == p.from
             left == {l \in lookups : ~ /\ l.sock = o
                                        /\ l.query[1] = p.arg[1]
                                        /\ l.query[2] = 0 \/ l.query[2] = p.arg[2]}
             kept == {v \in view[o] : \E l \in left : l.sock = o /\ Wants(l, v)}
  <1>1. /\ Take(n, "DEL_LOOKUP")
        /\ UNCHANGED <<dir, sockVars, chan, linkVars, failed, dropped, raced, replaced>>
        /\ missed' = missed
        /\ lookups' = left
        /\ view' = [view EXCEPT ![o] = kept]
    BY DEF CtrlCmdDelLookup, histVars
  <1>2. p \in Msgs /\ p.cmd = "DEL_LOOKUP"
    BY <1>1, TakeFacts
  <1>3. o \in Observers /\ o \in Sockets
    BY <1>2, MsgFacts DEF Sockets
  <1>4. left \subseteq lookups /\ \A l \in lookups : l.sock # o => l \in left
    OBVIOUS
  <1> HIDE DEF left, o
  <1>5. /\ view \in [Sockets -> SUBSET Servers] /\ missed \in {0, 1}
        /\ lookups \subseteq {Lookup(s, q) : s \in Observers, q \in Queries}
    BY DEF NsInv, TypeOK
  <1>6. \A l \in lookups : l.sock \in Sockets
    BY <1>5 DEF Lookup, Sockets
  <1>7. /\ view' \in [Sockets -> SUBSET Servers]
        /\ view'[o] = kept
        /\ \A s \in Sockets \ {o} : view'[s] = view[s]
    <2>1. kept \in SUBSET Servers
      BY <1>3, <1>5
    <2> HIDE DEF kept
    <2> QED
      BY <1>1, <1>3, <1>5, <2>1
  <1>8. \A s \in Sockets : Looks(s)' => Looks(s) \/ (s[1] = n /\ Asks(p, s))
    BY <1>1, <1>4 DEF Looks
  <1>9. ASSUME NEW s \in Sockets, NEW v \in view'[s]
        PROVE  /\ v \in view[s]
               /\ (v \in view[s] => \E l \in lookups : l.sock = s /\ Wants(l, v)) =>
                     \E l \in lookups' : l.sock = s /\ Wants(l, v)
    <2>1. CASE s = o
      BY <1>1, <1>7, <1>9, <2>1
    <2>2. CASE s # o
      BY <1>1, <1>4, <1>7, <1>9, <2>2
    <2> QED
      BY <2>1, <2>2
  <1>10. ASSUME NEW l \in lookups', l.sock \in open, NEW v \in dir[l.sock[1]],
                Wants(l, v), l \in lookups => v \in view[l.sock]
         PROVE  v \in view'[l.sock]
    <2>1. l \in left /\ l \in lookups /\ l.sock \in Sockets
      BY <1>1, <1>4, <1>6, <1>10
    <2>2. CASE l.sock = o
      BY <1>7, <1>10, <2>1, <2>2
    <2>3. CASE l.sock # o
      BY <1>7, <1>10, <2>1, <2>3
    <2> QED
      BY <2>2, <2>3
  <1>11. lookups' \subseteq {Lookup(s, q) : s \in Observers, q \in Queries}
    BY <1>1, <1>4, <1>5
  <1>12. /\ p = Head(ctrlq[n]) /\ "DEL_LOOKUP" \in {"NEW_LOOKUP", "DEL_LOOKUP"}
         /\ missed' \in {0, 1} /\ (missed' = 0 => missed = 0)
    BY <1>1, <1>5
  <1> HIDE DEF p, kept
  <1> QED
    BY <1>1, <1>7, <1>8, <1>9, <1>10, <1>11, <1>12, LookupsStep

-----------------------------------------------------------------------------
LEMMA NsInit == Init => NsInv
  <1> SUFFICES ASSUME Init PROVE NsInv
    OBVIOUS
  <1>1. TypeOK
    BY DEF Init, TypeOK, LinkStates
  <1>2. MsgInv /\ FiniteInv
    BY FS_EmptySet DEF Init, MsgInv, FiniteInv
  <1>3. ASSUME NEW s \in Sockets
        PROVE  /\ ctrlq[s[1]] = <<>> /\ dir[s[1]] = {} /\ view[s] = {}
               /\ ~Kept(s) /\ ~Looks(s)
    BY SocketFacts DEF Init, Kept, Looks
  <1>4. /\ \A s : Clean(<<>>, s) /\ Ordered(<<>>, s)
        /\ open = {} /\ closing = {} /\ lookups = {}
    BY DEF Init, Clean, Ordered
  <1>5. SocketInv /\ CoverInv /\ OrderInv
    BY <1>3, <1>4 DEF SocketInv, CoverInv, OrderInv
  <1>6. ViewInv /\ LookupComplete
    BY <1>4 DEF ViewInv, LookupComplete
  <1> QED
    BY <1>1, <1>2, <1>5, <1>6 DEF NsInv

LEMMA NsStep == NsInv /\ [Next]_vars => NsInv'
  <1> SUFFICES ASSUME NsInv, [Next]_vars PROVE NsInv'
    OBVIOUS
  <1>1. ASSUME NEW s \in Sockets, Application(s) PROVE NsInv'
    BY <1>1, BindStep, CloseBcastStep, CloseLocalStep, CloseDroppedStep, AskNewServerStep,
       AskDelServerStep, AskLookupStep DEF Application
  <1>2. ASSUME NEW m \in Nodes, NEW n \in Nodes, Link(m, n) PROVE NsInv'
    BY <1>2, RegisterStep, HelloWorkStep, UnregisterStep, RxWorkStep, FlushWorkStep DEF Link
  <1>3. ASSUME NEW n \in Nodes, NsWorker(n) PROVE NsInv'
    BY <1>3, HelloStep, ByeStep, DelClientStep, NewServerStep, NewServerFailStep, DelServerStep,
       NewLookupStep, DelLookupStep DEF NsWorker
  <1>4. CASE UNCHANGED vars
    <2>1. /\ UNCHANGED <<dir, lookups, view, ctrlq, chan>>
          /\ UNCHANGED sockVars /\ UNCHANGED linkVars /\ UNCHANGED histVars
      BY <1>4 DEF vars, sockVars, linkVars, histVars
    <2>2. QueueInv'
      BY <2>1, GrowStep DEF sockVars, histVars
    <2>3. DirType /\ SockType /\ NetType /\ LinkType /\ HistType
      BY TypeParts DEF NsInv
    <2>4. DirType' /\ SockType' /\ NetType' /\ LinkType' /\ HistType'
      BY <2>1, <2>3, TypeSame DEF DirType, NetType
    <2>5. MsgInv' /\ FiniteInv'
      BY <2>1 DEF NsInv, MsgInv, FiniteInv, linkVars
    <2> QED
      BY <2>2, <2>4, <2>5, TypeParts DEF NsInv, QueueInv
  <1> QED
    BY <1>1, <1>2, <1>3, <1>4 DEF Next

(* NsSafe: the name services keep the invariant, for any number of nodes,  *)
(* sockets and services, with every fault and in every order.              *)
THEOREM NsSafe == Spec => []NsInv
  BY NsInit, NsStep, PTL DEF Spec

(* ObserversTold: a name service has told an observer of every server it   *)
(* knows and the observer looks for (ctrl_cmd_new_lookup() and             *)
(* ctrl_cmd_new_server()), even one whose port had another user before,    *)
(* unless a notification or a DEL_CLIENT was lost or a broadcast failed.   *)
THEOREM ObserversTold == Spec => []LookupComplete
  <1>1. NsInv => LookupComplete
    BY DEF NsInv
  <1> QED
    BY <1>1, NsSafe, PTL

(* ObserversRight: an observer believes in no server that its name service *)
(* has forgotten, unless a notification was lost, a socket closed with     *)
(* other messages before its DEL_CLIENT, or a server replaced another on   *)
(* its port (lookup_notify(), server_add()).                               *)
THEOREM ObserversRight == Spec => []LookupSound
  <1>1. NsInv => LookupSound
    <2>1. SUFFICES ASSUME NsInv, raced = 0, replaced = 0, missed = 0, NEW l \in lookups, Current(l)
                   PROVE  \A v \in view[l.sock] : Wants(l, v) => v \in dir[l.sock[1]]
      BY DEF LookupSound
    <2>2. l.sock \in open
      BY <2>1, CurrentMeans
    <2> QED
      BY <2>1, <2>2 DEF NsInv, ViewInv, Justified
  <1> QED
    BY <1>1, NsSafe, PTL

(* ClosedForgotten: once everything is handled, a name service lists no    *)
(* server of a local socket that is closed, even after hasty closes,       *)
(* unless qrtr_send_del_client() found no memory for a DEL_CLIENT.         *)
THEOREM ClosedForgotten == Spec => []NoLeftovers
  <1>1. NsInv => NoLeftovers
    <2>1. SUFFICES ASSUME NsInv, Settled, dropped = 0, NEW n \in Nodes, NEW v \in dir[n],
                          v.node = n, <<n, v.port>> \notin open
                   PROVE  FALSE
      BY DEF NoLeftovers
    <2> DEFINE s == <<n, v.port>>
    <2>2. v \in Servers
      BY <2>1 DEF NsInv, TypeOK
    <2>3. s \in Sockets /\ s[1] = n /\ <<v.node, v.port>> = s
      BY <2>1, <2>2, ServerFacts DEF Sockets
    <2> HIDE DEF s
    <2>4. s \notin open
      BY <2>1 DEF s
    <2>5. Kept(s)
      BY <2>1, <2>3 DEF Kept
    <2>6. s \in closing \/ Closing(ctrlq[n], s)
      BY <2>1, <2>3, <2>4, <2>5 DEF NsInv, CoverInv
    <2>7. ctrlq[n] = <<>> /\ closing = {}
      BY <2>1 DEF Settled
    <2> QED
      BY <2>6, <2>7 DEF Closing
  <1> QED
    BY <1>1, NsSafe, PTL

=============================================================================
